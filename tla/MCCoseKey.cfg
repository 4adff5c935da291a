SPECIFICATION Spec
CONSTANTS
    MaxItems = 11
    AlgInt <- MCAlgInt
    MlDsaPubLen <- MCMlDsaPubLen
    Objects <- MCObjects
    Inputs <- MCInputs
    Metas <- MCMetas
    Secrets <- MCSecrets
    Rooms <- MCRooms
INVARIANTS
    OrderFree
    PeekAgrees
    SignsWithTheLastKey
    FailedDecodeKeepsNothing
    SecretsStay
    SizeExact
    RoundTrip
