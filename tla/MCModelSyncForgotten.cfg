SPECIFICATION Spec
CONSTANTS
    Admins = {a1, a2}
    MaxChanges = 3
    MaxTests = 0
    MaxBoots = 0
SYMMETRY Interchangeable
INVARIANTS
    NoRequestForgotten
CHECK_DEADLOCK FALSE
