\* The documentation of mixed recipients, against the code.
SPECIFICATION Spec
CONSTANTS
    KeyLen <- MCKeyLen
    MacKeySizes <- MCMacKeySizes
    KekSize <- MCKekSize
    MaxDepth = 2
    Keys <- MCKeys
    Requests <- DocRequests
    Calls <- DocCalls
    Peers <- DocPeers
INVARIANT
    MixedRecipientsAccepted
