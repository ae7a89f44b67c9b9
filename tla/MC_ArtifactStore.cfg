SPECIFICATION FairSpec
CONSTANTS
    t1 = t1
    t2 = t2
    t3 = t3
    api = api
    cli = cli
    Threads = {t1, t2, t3}
    Processes = {api, cli}
    ProcOf <- MCProcOf
    Roots = {store, cwd}
    Versions = {v1, v2, v3}
    MaxFailures = 2
    NoFile = NoFile
    NoThread = NoThread
    NoRoot = NoRoot
    NoVersion = NoVersion
INVARIANTS
    TypeOK
    LockHoldersAreApart
PROPERTIES
    WritesAreAtomic
    WritesEnd
\* The versions run out.
CHECK_DEADLOCK FALSE
