SPECIFICATION Spec
CONSTANTS
    Paths <- MCPaths
    Root <- MCRoot
    Wide <- MCWide
    Backends = {"inotify", "rdcw"}
    EVENT_CAPACITY = 1
    MAX_LIVENESS_PROBES = 1
    MaxChanges = 2
    MaxSwaps = 1
    MaxTicks = 1
    MaxMishaps = 1
INVARIANTS
    StaleIsCarried
    ProbesSound
PROPERTIES
    Implements
CHECK_DEADLOCK FALSE
