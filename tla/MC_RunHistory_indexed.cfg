SPECIFICATION Spec
CONSTANTS
    Workers = {w1, w2}
    Readers = {r1}
    RunIds = {a, b, c, d}
    Limit = 2
    MaxAborts = 0
    MaxStrays = 1
    NoWorker = NoWorker
    NoRun = NoRun
INVARIANT
    RecordedRunsAreIndexed
CHECK_DEADLOCK FALSE
