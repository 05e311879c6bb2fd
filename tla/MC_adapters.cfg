SPECIFICATION FairSpec
CONSTANTS
    SetupSteps = 1
    MaxChanges = 2
    NoObservation = NoObservation
INVARIANTS TypeOK PassedReceiptDescribesOneHead ReceiptsAreAccepted StoppedUnlessReported
PROPERTY CommandsEnd
CHECK_DEADLOCK FALSE
