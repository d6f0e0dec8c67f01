\* Every activator and every execution makes one call, so a behaviour ends.
CHECK_DEADLOCK FALSE
SPECIFICATION Spec
CONSTANTS
    Nothing = Nothing
    a1 = a1
    a2 = a2
    x1 = x1
    x2 = x2
    Activators = {a1, a2}
    Executions = {x1, x2}
    MaxChanges = 1
    Functions <- MCFunctions
    World <- MCWorld
    Changes <- MCChanges
    Offers <- MCOffers
    Candidates <- MCCandidates
    Policies <- MCPolicies
    BundleCandidates <- MCBundles
    Requests <- MCRequests
    Runtimes <- MCRuntimes
    Effects <- MCEffects
    Submissions <- MCSubmissions
    Suites <- MCSuites
    Gates = {"answers", "raises", "forges"}
SYMMETRY Alike
INVARIANTS
    OnlySignedRuns
    EffectsAreRecorded
    ResultsTellTheTruth
    ReportsAreRight
