SPECIFICATION ASpec
CONSTANTS
    Clients = {c1}
    src = c1
    Paths <- MCPaths
    Lands <- MCLands
    MaxScopes = 5
    MaxLane = 3
    Descends = {TRUE}
    MaxTail = 0
    MaxCalls = 0
    MaxMishaps = 1
    MaxAsks = 4
    MaxReplaces = 1
    OPPORTUNISTIC_RELEASE_HANDOFFS = 1
    COMMAND_CAPACITY = 1
    MAX_TEARDOWN_BACKLOG = 3
    MAX_PARKED_SETTLEMENTS = 1
PROPERTIES
    NoReleasedOverlap
    NewestCoverWins
    EveryCallReturns
CHECK_DEADLOCK FALSE
