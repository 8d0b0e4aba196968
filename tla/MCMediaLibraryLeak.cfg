SPECIFICATION Spec
CONSTANTS
    TaskAssets = {}
    Shared = {s1, s2}
    Pollers = {m1}
    Requests = {}
    Removers = {d1}
    Keys = {k0}
    SharedKey = k0
    DeleteOrphans = TRUE
    MaxFaults = 0
    None = None
SYMMETRY Symmetry
CHECK_DEADLOCK FALSE
PROPERTIES
    RemovedBeforePurge
