\* The documentation of a failed signing call, against the code.
SPECIFICATION Spec
CONSTANTS
    N = 2
    h1 = h1
    h2 = h2
    Other = Other
    Handles <- MCHandles
    Calls <- MCCalls
    SigLen <- MCSigLen
    ProtLen <- MCProtLen
PROPERTY
    FailedCallMarksKeyBad
