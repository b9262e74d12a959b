SPECIFICATION Spec
CONSTANTS
    Component <- MCComponent
    Key <- MCKey
    KeyOf <- MCKeyOf
    Changes <- MCSingles
    Sub = {1}
    Debounced = {1}
    Capacity = 1
    MaxHeld = 2
    MaxEvents = 4
INVARIANTS
    WithheldIsCovered
VIEW MCView
CHECK_DEADLOCK FALSE
