SPECIFICATION Spec
CONSTANTS
    Dirs = {"a"}
    Elsewhere = {"e"}
    MaxFences = 2
    CEILING = 2
    BUDGET = 1
    MaxCovers = 1
    MaxChanges = 0
    MaxMishaps = 2
CHECK_DEADLOCK FALSE
PROPERTIES
    AppliedIsWatched
