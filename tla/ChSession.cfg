SPECIFICATION Spec
CONSTANTS
    Types <- mcTypes
    Inputs <- mcInputs
    MaxRows = 3
    MaxPackets = 1
    KeyRange = 2
INVARIANTS
    RowsStored
    ReadBack
PROPERTIES
    RowsKept
CHECK_DEADLOCK FALSE
