SPECIFICATION Spec
CONSTANTS
    Sub = {1}
    Path = {x, y}
    Settles = TRUE
    Global <- Windows
    Custom <- OwnWindows
    DefaultMaxBuffered = 2
    MaxTime = 4
    MaxAdmits = 3
    MaxReady = 1
    MaxUnread = 1
    MaxEpoch = 1
PROPERTIES
    EpochsMonotone
SYMMETRY Paths
CHECK_DEADLOCK FALSE
