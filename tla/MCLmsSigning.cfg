\* Two leaves, two handles on the one key, exact and short buffers.
SPECIFICATION Spec
CONSTANTS
    N = 2
    h1 = h1
    h2 = h2
    Other = Other
    Handles <- MCHandles
    Calls <- MCCalls
    SigLen <- MCSigLen
    ProtLen <- MCProtLen
INVARIANTS
    NoLeafReleasedTwice
    ReadyMeansPersisted
    NoLeafSpentForNothing
PROPERTY
    OutOfUseUntilReload
