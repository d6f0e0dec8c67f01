\* Circulation is bounded, so a behaviour ends when there is no more room.
CHECK_DEADLOCK FALSE
SPECIFICATION Spec
CONSTANTS
    Nothing = Nothing
    MaxContent = 2
    MaxMetadata = 2
    MaxParents = 2
    MaxTaints = 3
    MaxDependencies = 1
    IngressInputs <- MCIngressInputs
    DeriveInputs <- MCDeriveInputs
    Contents <- MCContents
    MaxEnvelopes = 4
    MaxForgeries = 1
INVARIANTS
    TaintsReachDown
    DigestsBind
    VerifiersAgree
