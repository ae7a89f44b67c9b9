SPECIFICATION Spec
CONSTANTS
    suite = suite
    single = single
    latency = latency
    Runs = {a, b}
    CliRuns = {}
    PassingRuns = {a}
    Scopes = {suite, single, latency}
    Families = {"scenario", "benchmark"}
    FamilyOf <- MCFamilyOf
    TypeOf <- MCTypeOf
    Suites = {suite, latency}
    Limit = 1
    NoRun = NoRun
    MaxFailures = 0
INVARIANT
    FailedLatestRunRaisesAlert
CHECK_DEADLOCK FALSE
