SPECIFICATION Spec
CONSTANTS
    Clients = {c1, c2}
    Paths <- MCPaths
    Lands <- MCLands
    MaxScopes = 2
    MaxLane = 3
    Descends = {TRUE, FALSE}
    MaxTail = 1
    MaxCalls = 4
    MaxMishaps = 1
    COMMAND_CAPACITY = 1
    MAX_TEARDOWN_BACKLOG = 2
    MAX_PARKED_SETTLEMENTS = 1
INVARIANTS
    RootsSound
    StreamsSound
    AnswersHonest
PROPERTIES
    ReplaceAtomic
CHECK_DEADLOCK FALSE
SYMMETRY Symm
