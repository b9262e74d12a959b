SPECIFICATION Spec
CONSTANTS
    Dirs = {"a"}
    Elsewhere = {"e"}
    MaxFences = 2
    CEILING = 2
    BUDGET = 1
    MaxCovers = 2
    MaxChanges = 0
    MaxMishaps = 1
CHECK_DEADLOCK FALSE
INVARIANTS
    ArmingIsCarried
