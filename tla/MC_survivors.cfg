SPECIFICATION FairSpec
CONSTANTS
    SetupSteps = 0
    MaxChanges = 0
    NoObservation = NoObservation
INVARIANT TimeoutStopsEverything
CHECK_DEADLOCK FALSE
