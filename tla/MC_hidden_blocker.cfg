SPECIFICATION Intake
CONSTANTS
    NoPackage = NoPackage
    Importers = {a}
    Packages <- IntakePackages
    Statuses = {"reviewing"}
    MaxVersion = 0
    Collectors = {11, 12}
    PageSize = 1
    Facts = {f1}
    NoFacts = NoFacts
    MaxItems = 2
    MaxChanges = 1
    Overlap = TRUE
INVARIANT NoBlockerIsHidden
CHECK_DEADLOCK FALSE
