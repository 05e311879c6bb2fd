SPECIFICATION Spec
CONSTANTS
    c1 = c1
    c2 = c2
    NoCommit = NoCommit
    Fresh = Fresh
    RepairBudget = 3
    Clients = {a}
    Keys = {}
    Commits = {c1, c2}
    Descends <- TwoCommits
    Gates = {unit}
    GateResults = {"failed", "invalidated"}
    Observations <- CleanAtTwo
    Requests <- RepairRequests
    Verdicts <- RepairVerdicts
    GenesisStates = {"reviewing"}
    Foresight = 0
    MaxVersion = 4
    MaxRejections = 0
    MaxGateReceipts = 2
    MaxCiReceipts = 0
    MaxReviewReceipts = 1
    MaxLost = 0
INVARIANT GateRepairBasisStands
CHECK_DEADLOCK FALSE
