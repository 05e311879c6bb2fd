SPECIFICATION LayersSpec
CONSTANTS
    Writers = {a, b, c}
    MaxTokens = 5
    Processes = {p, q}
    MaxSubject = 1
    MaxRuns = 2
    MaxRevision = 4
SYMMETRY LayersSymmetry
INVARIANTS LayersTypeOK AnswersAreHonest CommitsBuildOnEachOther LaunchedOnce OutputDirectoriesMatchLaunch EvaluationsNeverRegress OnlyOvertakenResponsesAreLost
PROPERTIES RegisteredStateStays ImplementsFencedRegister
CHECK_DEADLOCK FALSE
