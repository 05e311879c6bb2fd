SPECIFICATION Intake
CONSTANTS
    NoPackage = NoPackage
    Importers = {a, b}
    Packages <- IntakePackages
    Statuses = {"verifying", "reviewing", "repairing"}
    MaxVersion = 2
    Collectors = {11, 12}
    PageSize = 1
    Facts = {f1, f2}
    NoFacts = NoFacts
    MaxItems = 2
    MaxChanges = 2
    Overlap = FALSE
SYMMETRY ImporterSymmetry
INVARIANTS TypeOK OneRowPerReceipt NewestIsMostRecent IndexedPackageIsStored NothingLeftBehind
    SnapshotsAreSound NoBlockerIsHidden
CHECK_DEADLOCK FALSE
