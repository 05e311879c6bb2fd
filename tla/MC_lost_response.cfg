SPECIFICATION LayersSpec
CONSTANTS
    Writers = {a}
    MaxTokens = 1
    Processes = {p, q}
    MaxSubject = 1
    MaxRuns = 2
    MaxRevision = 4
INVARIANT ResponsesAreRetained
CHECK_DEADLOCK FALSE
