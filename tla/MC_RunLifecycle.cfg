SPECIFICATION FairSpec
CONSTANTS
    suite = suite
    single = single
    latency = latency
    Runs = {a, b, c}
    CliRuns = {c}
    PassingRuns = {a}
    Scopes = {suite, single, latency}
    Families = {"scenario", "benchmark"}
    FamilyOf <- MCFamilyOf
    TypeOf <- MCTypeOf
    Suites = {suite, latency}
    Limit = 1
    NoRun = NoRun
    MaxFailures = 1
INVARIANTS
    TypeOK
    ViewsAreBacked
    EarlyReportIsOfUnfinishedRun
    MixedViewsComeFromOverlap
    SoloRunIsLatest
    GaugeIsLatestRecorded
PROPERTIES
    EveryRunEnds
\* The run ids run out.
CHECK_DEADLOCK FALSE
