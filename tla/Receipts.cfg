\* Requests are counted, so a behaviour ends.
CHECK_DEADLOCK FALSE
SPECIFICATION ReceiptsSpec
CONSTANTS
    p1 = p1
    p2 = p2
    Nothing = Nothing
    Points = {p1, p2}
    Governors <- MCGovernors
    Requests <- MCRequests
    Runtimes <- MCRuntimes
    Overrides <- MCOverrides
    Genesis <- Enrolled
    Kinds <- FloorKinds
    Callable <- MCCallable
    Exitable <- MCExitable
    MaxCalls = 2
    MaxActivations = 2
    MaxRecoveries = 1
SYMMETRY Alike
INVARIANTS
    ChainsVerifyExactly
    ReadersAgree
PROPERTIES
    ReceiptsReplay
    LapsedStaysLapsed
