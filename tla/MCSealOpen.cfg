CONSTANTS
    SigKind <- MCSigKind
    AlgCrv <- MCAlgCrv
    DsaLevel <- MCDsaLevel
    MacTag <- MCMacTag
    MacKeyLen <- MCMacKeyLen
    AeadKeyLen <- MCAeadKeyLen
    AeadTagLen <- MCAeadTagLen
    NonceLen <- MCNonceLen
    AeadLimit <- MCAeadLimit
    HpkeTagLen = 16
    HpkeEncSz = 65
    Keys <- MCKeys
    Requests <- MCRequests
    Calls <- MCCalls
    Peers <- MCPeers
    MaxSealed = 1
SPECIFICATION MCSpec
INVARIANTS
    FailureLeavesNothing
    SuccessTellsMessage
    RoundTrip
PROPERTY Promise
