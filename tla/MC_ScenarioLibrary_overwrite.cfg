SPECIFICATION Spec
CONSTANTS
    Clients = {c1, c2}
    Readers = {}
    Ids = {a, b}
    BuiltIns = {a}
    Versions = {v1, v2, v3}
    MaxFailures = 0
    Absent = Absent
    BuiltIn = BuiltIn
    NoVersion = NoVersion
    NoCall = NoCall
SYMMETRY Symmetry
PROPERTIES
    ReplacedOnlyOnRequest
CHECK_DEADLOCK FALSE
