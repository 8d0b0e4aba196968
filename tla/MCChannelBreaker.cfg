SPECIFICATION FairSpec
CONSTANTS
    Requests = {r1, r2}
    None = None
    Threshold = 2
    Cooldown = 1
    Window = 2
    MaxBreakers = 2
    MaxSaves = 1
    MaxEpoch = 2
    MaxProbes = 2
INVARIANTS
    TypeOK
    ProbeOwned
    OpenTrustsProbe
PROPERTIES
    OldRequestsHarmless
    HalfOpenEnds
CHECK_DEADLOCK FALSE
