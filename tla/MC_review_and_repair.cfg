SPECIFICATION Scenarios
CONSTANTS
    c1 = c1
    c2 = c2
    NoCommit = NoCommit
    Fresh = Fresh
    RepairBudget = 2
    Clients = {a, b}
    Keys = {}
    Commits = {c1, c2}
    Descends <- TwoCommits
    Gates = {unit}
    GateResults = {"passed", "failed"}
    Observations <- CleanAtTwo
    Requests <- RepairRequests
    Verdicts <- RepairVerdicts
    GenesisStates = {"reviewing"}
    Foresight = 0
    MaxVersion = 5
    MaxRejections = 0
    MaxGateReceipts = 1
    MaxCiReceipts = 1
    MaxReviewReceipts = 2
    MaxLost = 0
SYMMETRY ClientSymmetry
INVARIANTS CompletedOnLatestReview RepairBudgetHolds ReviewRepairBasisStands
PROPERTIES CommittedOnNewestEvidence ReviewedRepairAdvances
CHECK_DEADLOCK FALSE
