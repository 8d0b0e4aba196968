SPECIFICATION SettlingSpec
CONSTANTS
    TaskAssets = {a1}
    Shared = {}
    Pollers = {m1}
    Requests = {}
    Removers = {d1}
    Keys = {k0}
    SharedKey = k0
    DeleteOrphans = TRUE
    MaxFaults = 2
    None = None
CHECK_DEADLOCK FALSE
PROPERTIES
    RemovedBeforePurge
    LibrarySettles
    WaitEnds
