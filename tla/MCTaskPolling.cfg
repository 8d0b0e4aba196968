SPECIFICATION PollingSpec
CONSTANTS
    Workers = {w1, w2}
    Clients = {c1, c2}
    None = None
    MaxAttempts = 2
    Lease = 2
    PollDelay = 1
    MaxDeadline = 2
    MaxCount = 4
    MaxFaults = 1
    w2 = w2
    c2 = c2
INVARIANTS
    TypeOK
    BudgetRespected
    NoLostPoll
    RequiredCompletedAfterMedia
PROPERTIES
    ImplementsContract
    PollingEnds
CHECK_DEADLOCK FALSE
