SPECIFICATION Spec
CONSTANTS
    Admins = {a1, a2}
    MaxChanges = 3
    MaxTests = 1
    MaxBoots = 0
SYMMETRY Interchangeable
INVARIANTS
    RoutedModelsFresh
CHECK_DEADLOCK FALSE
