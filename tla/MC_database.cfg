SPECIFICATION CommandsSpec
CONSTANTS
    Processes = {a, b}
    Outputs = {x, y}
    MaxEvents = 4
    MaxDamage = 2
    Sessions = {s, t}
    SlugOf <- OneTitle
    Commits = {c1, c2}
    NoCommit = NoCommit
    MaxEntries = 2
SYMMETRY StateSymmetry
INVARIANTS CommandsTypeOK DamageIsNeverHidden UndamagedLedgerVerifies ReadsAreNotTorn
PROPERTIES SchemaNeverGoesBack ExportsStand CompletedIsLeftAlone
CHECK_DEADLOCK FALSE
