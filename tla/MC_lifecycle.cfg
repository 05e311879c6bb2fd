SPECIFICATION Scenarios
CONSTANTS
    c1 = c1
    c2 = c2
    NoCommit = NoCommit
    Fresh = Fresh
    RepairBudget = 3
    Clients = {a, b}
    Soloist = a
    Keys = {k1, k2}
    Commits = {c1, c2}
    Descends <- TwoCommits
    Gates = {unit}
    GateResults = {"passed", "failed", "setup_failed", "invalidated"}
    Observations <- EveryObservation
    Requests <- EveryRequest
    Verdicts <- EveryVerdict
    GenesisStates = {"queued", "verifying"}
    Foresight = 0
    MaxVersion = 6
    MaxRejections = 0
    MaxGateReceipts = 1
    MaxCiReceipts = 1
    MaxReviewReceipts = 1
    MaxLost = 1
INVARIANTS TypeOK PlannerAgreesWithApply HistoryIsAuthoritative OneDecisionPerKey
PROPERTIES ImplementsGovernedLifecycle ReviewedImplementationAdvances SharedRequestsAreAnswered
CHECK_DEADLOCK FALSE
