SPECIFICATION Spec
CONSTANTS
    Component <- MCComponent
    Key <- MCKey
    Handle = {h1, h2, h3}
    Words = {plain, pruned}
    Pruning = {pruned}
    Full = Full
    NoHandle = NoHandle
    MaxSub = 4
SYMMETRY MCSymmetry
INVARIANTS
    RootsDisjoint
    Lockstep
    WordsHonoured
    ViewExact
PROPERTIES
    SubscriptionsKeepTheirKey
CHECK_DEADLOCK FALSE
