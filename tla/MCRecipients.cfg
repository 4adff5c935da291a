SPECIFICATION Spec
CONSTANTS
    KeyLen <- MCKeyLen
    MacKeySizes <- MCMacKeySizes
    KekSize <- MCKekSize
    MaxDepth = 2
    Keys <- MCKeys
    Requests <- MCRequests
    Calls <- MCCalls
    Peers <- MCPeers
INVARIANTS
    WalkFollowsMessage
    KeyUse
    EveryRecipientReads
PROPERTIES
    NoLateRefusal
    CallsEnd
