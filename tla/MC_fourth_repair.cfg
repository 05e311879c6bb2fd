SPECIFICATION Spec
CONSTANTS
    c1 = c1
    c2 = c2
    NoCommit = NoCommit
    Fresh = Fresh
    RepairBudget = 3
    Clients = {a, b}
    Keys = {}
    Commits = {c1, c2}
    Descends <- TwoCommits
    Gates = {unit}
    GateResults = {"failed"}
    Observations <- CleanAtTwo
    Requests <- RepairRequests
    Verdicts <- RepairVerdicts
    GenesisStates = {"reviewing"}
    Foresight = 2
    MaxVersion = 8
    MaxRejections = 0
    MaxGateReceipts = 1
    MaxCiReceipts = 0
    MaxReviewReceipts = 1
    MaxLost = 0
SYMMETRY ClientSymmetry
INVARIANT RepairBudgetHolds
CHECK_DEADLOCK FALSE
