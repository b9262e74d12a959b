SPECIFICATION Spec
CONSTANTS
    Sub = {s1, s2}
    Debounced = {s1}
    Call = {c1, c2}
    MaxPending = 1
    Cap = 1
    MaxChange = 1
    MaxRaise = 1
SYMMETRY MCSymmetry
VIEW MCView
INVARIANTS
    DeliveredIsEmitted
    DominatedIsOwed
    MarkersAccounted
CHECK_DEADLOCK FALSE
