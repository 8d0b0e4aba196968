SPECIFICATION MappingsSpec
CONSTANTS
    Creates = {t1, t2}
    Polls = {p1}
    Channels = {c1, c2}
    ProviderIds = {x, y}
    Replies <- FirstReplies
    Engines = {"legacy", "profile"}
    Worker = Worker
    None = None
    MaxFaults = 3
    MaxCrashes = 1
    MaxDeletes = 1
    t2 = t2
    p1 = p1
    c2 = c2
    y = y
CHECK_DEADLOCK FALSE
INVARIANTS
    TypeOK
    PublishedIsRecoverable
PROPERTIES
    RecoveredBeforeForgotten
    PinKept
    RecoveryEnds
