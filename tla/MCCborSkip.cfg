\* Every short buffer, every start position, both decoding modes.
SPECIFICATION Spec
CONSTANTS
    Inputs <- MCInputs
    MaxDepth = 2
    SizeMax = 31
INVARIANTS
    SavedCountsOnly
    SkipsExactlyOneItem
    OneHeadPerByte
PROPERTY
    Terminates
CHECK_DEADLOCK FALSE
