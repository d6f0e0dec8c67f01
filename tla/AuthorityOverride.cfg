\* Requests are counted, so a behaviour ends.
CHECK_DEADLOCK FALSE
SPECIFICATION Spec
CONSTANTS
    p1 = p1
    p2 = p2
    Nothing = Nothing
    Points = {p1, p2}
    Governors <- MCGovernors
    Requests <- MCRequests
    Runtimes <- MCRuntimes
    Overrides <- MCOverrides
    Genesis <- Enrolled
    Kinds <- FloorKinds
    MaxCalls = 2
    MaxActivations = 2
PROPERTIES
    RejectedOverrideKeepsQuarantine
