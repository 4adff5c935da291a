SPECIFICATION CodecSpec
CONSTANTS
    Items <- MCItems
    Unsigned <- MCUnsigned
    Counts <- MCCounts
    Signed <- MCSigned
    Strings <- MCStrings
    Foreign <- MCForeign
INVARIANTS
    ReadsBack
    OneEncoding
PROPERTIES
    WritesOnlyAhead
