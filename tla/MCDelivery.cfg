SPECIFICATION Spec
CONSTANTS
    Component <- MCComponent
    Key <- MCKey
    KeyOf <- MCKeyOf
    Changes <- MCChanges
    Sub = {1}
    Debounced = {1}
    Capacity = 1
    MaxHeld = 2
    MaxEvents = 3
INVARIANTS
    NoSilentLoss
    PlanesSound
PROPERTIES
    EpochsOrdered
VIEW MCView
CHECK_DEADLOCK FALSE
