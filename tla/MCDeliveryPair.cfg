SPECIFICATION FairSpec
CONSTANTS
    Component <- MCComponent
    Key <- MCKey
    KeyOf <- MCKeyOf
    Changes <- MCSingles
    Sub = {1, 2}
    Debounced = {}
    Capacity = 1
    MaxHeld = 1
    MaxEvents = 2
PROPERTIES
    OwedIsPaid
CHECK_DEADLOCK FALSE
