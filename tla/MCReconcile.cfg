SPECIFICATION RSpec
CONSTANTS
    Component <- MCComponent
    Key <- MCKey
    Handle = {h1, h2, h3}
    Words = {plain, pruned}
    Pruning = {pruned}
    Full = Full
    NoHandle = NoHandle
    MaxSub = 4
    ControlCap = 1
SYMMETRY MCSymmetry
INVARIANTS
    CutOffIsTold
    ServedOrTold
    RecordsAgree
    NeverStuck
    RootsDisjoint
    WordsHonoured
CHECK_DEADLOCK FALSE
