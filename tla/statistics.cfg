CONSTANTS
    Names = {n1, n2}
    Problems = {1, 2}
    Titles = {ti1, ti2}
    Types = {array, tree}
    Times <- SomeTimes
    MaxUsers = 2
    MaxSubmissions = 2
SPECIFICATION Spec
SYMMETRY Symmetry
INVARIANTS
    UnitsAgreeWithDetails
    RatesAddUp
    LastIsLatest
CHECK_DEADLOCK FALSE
