SPECIFICATION Spec
CONSTANTS
    Clients = {c1, c2}
    Readers = {r1}
    Ids = {a, b}
    BuiltIns = {a}
    Versions = {v1, v2, v3}
    MaxFailures = 1
    Absent = Absent
    BuiltIn = BuiltIn
    NoVersion = NoVersion
    NoCall = NoCall
SYMMETRY Symmetry
INVARIANTS
    TypeOK
    SerialUnlessOverlapping
    TruncatedFilesAreExplained
    UndisturbedReadIsExact
PROPERTIES
    RenameNeverLosesTheScenario
CHECK_DEADLOCK FALSE
