CONSTANTS
    Namespaces = {"current", "old"}
    Envelopes = {"sign1", "mac0"}
    SignAlgs = {"es256", "es384"}
    MacAlgs = {"hs256"}
    TfmFull = TRUE
    MaxClaims = 10
    MaxComponents = 2
    MaxComponentClaims = 5
    Int32Max = 99
    Keys <- MCKeys
    Calls <- MCCalls
    Visits <- MCVisits
    Requests <- MCRequests
    Peers <- MCPeers
    Later <- MCLater
SPECIFICATION MCSpec
INVARIANTS
    AcceptsWellFormed
    AnswersTheChallenge
    FailureLeavesNothing
    VisitsEachComponent
    IssuedIsAccepted
PROPERTY Promise
