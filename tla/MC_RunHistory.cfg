SPECIFICATION FairSpec
CONSTANTS
    Workers = {w1, w2}
    Readers = {r1}
    RunIds = {a, b, c, d}
    Limit = 2
    MaxAborts = 2
    MaxStrays = 2
    NoWorker = NoWorker
    NoRun = NoRun
INVARIANTS
    TypeOK
    RetainedRunsKeepSnapshots
    MissingSnapshotIsExpired
    RetainedRunsAreListed
    DanglingRecordsAreOldest
    OrphansAreExplained
PROPERTIES
    CompletedRecordMeetsLimit
    SnapshottedRunIsRecorded
\* The run ids run out.
CHECK_DEADLOCK FALSE
