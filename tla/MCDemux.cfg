SPECIFICATION FairSpec
CONSTANTS
    Sub = {s1, s2}
    MaxGen = 2
    MaxEvent = 3
    Capacity = 1
    CONTROL_CAPACITY = 2
INVARIANTS
    LaneKeepsItsClaim
    NothingLost
PROPERTIES
    StreamDrains
CHECK_DEADLOCK FALSE
