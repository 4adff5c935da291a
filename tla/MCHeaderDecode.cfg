\* A receiver stops when it has its answer: that is why deadlock is not checked.
SPECIFICATION Spec
CONSTANTS
    MaxItems = 3
    Int32Max = 127
    Int64Max = 255
    Messages <- MCMessages
    Pins <- MCPins
    Supported <- MCSupported
CHECK_DEADLOCK FALSE
INVARIANTS
    AcceptsWellFormed
    HeaderTellsMessage
    AlgIsVouchedFor
