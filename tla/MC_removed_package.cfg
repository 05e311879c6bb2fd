SPECIFICATION Spec
CONSTANTS
    NoPackage = NoPackage
    Importers = {a, b}
    Packages <- RivalPackages
    Statuses = {"verifying"}
    MaxVersion = 0
SYMMETRY ImporterSymmetry
INVARIANT IndexedPackageIsNeverRemoved
CHECK_DEADLOCK FALSE
