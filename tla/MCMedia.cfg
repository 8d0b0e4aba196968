SPECIFICATION MediaSpec
CONSTANTS
    TaskAssets = {a1, a2}
    Shared = {s1, s2}
    Pollers = {m1}
    Requests = {q1}
    Removers = {d1, d2}
    Keys = {k0, k1, k2, k3}
    SharedKey = k0
    DeleteOrphans = TRUE
    MaxFaults = 2
    None = None
SYMMETRY Symmetry
CHECK_DEADLOCK FALSE
INVARIANTS
    TypeOK
    AvailableIsServed
    ReferencesCounted
PROPERTIES
    RevokedForGood
    TaskCompletesWithMedia
