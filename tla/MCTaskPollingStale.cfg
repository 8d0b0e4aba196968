SPECIFICATION Spec
CONSTANTS
    Workers = {w1}
    Clients = {c1, c2}
    None = None
    MaxAttempts = 2
    Lease = 1
    PollDelay = 1
    MaxDeadline = 2
    MaxCount = 4
    MaxFaults = 0
PROPERTIES
    MaterializingNotPolled
CHECK_DEADLOCK FALSE
