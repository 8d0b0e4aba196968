SPECIFICATION FairSpec
CONSTANTS
    Admins = {a1, a2}
    MaxChanges = 2
    MaxTests = 1
    MaxBoots = 1
INVARIANTS
    TypeOK
    FreshModels
    PassesAreAsked
    ClosedQuiet
PROPERTIES
    RefreshIsFresh
    ShutdownEnds
CHECK_DEADLOCK FALSE
