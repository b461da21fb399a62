SPECIFICATION Spec
CONSTANTS
    File = {1}
    Text = {1, 2}
    Model = {"local", "remote"}
    Names <- MCNames
    Slice <- MCSlice
    MaxId = 5
    MaxEdits = 2
    MaxSwitches = 1
    MaxHeals = 1
INVARIANTS
    SourceAligned
    VectorsBelong
    CacheFresh
CHECK_DEADLOCK FALSE
