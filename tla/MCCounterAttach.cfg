\* Up to two countersignatures on every message, or a call that fails, and then the
\* application stops: that is why deadlock is not checked.
SPECIFICATION CounterSpec
CONSTANTS
    MaxItems = 5
    Inline = 3
    MaxAdds = 2
    k1 = k1
    k2 = k2
    k3 = k3
    Keys <- MCKeys
    Pin <- MCPin
    Fit <- MCFit
    HasPrivate <- MCCanSign
    SignatureLen <- MCSigLen
    Requests <- MCRequests
    Messages <- MCMessages
    DetachedPayload <- MCDetached
    Aad <- MCAad
CHECK_DEADLOCK FALSE
INVARIANTS
    NoSignatureWasted
PROPERTIES
    KeepsPromise
    CountersignaturesVerify
    FailureLeavesAlone
