SPECIFICATION AcceptanceSpec
CONSTANTS
    Workers = {w1}
    Readers = {}
    RunIds = {a, b}
    Limit = 1
    MaxAborts = 0
    MaxStrays = 1
    NoWorker = NoWorker
    NoRun = NoRun
    BackupPlaces = {"root"}
    Operators = {cron, tester}
    MaxArchives = 2
    MaxRestores = 2
    MaxFailures = 1
    Tester = tester
    ManualItems = {"runbook_rehearsed"}
    FailOnPending = TRUE
    Overrides <- MCOverrides
SYMMETRY RunSymmetry
INVARIANTS
    VerifiedArchivesAreFaithful
    RestoreLosesNothing
    AcceptanceIsEarned
CHECK_DEADLOCK FALSE
