\* Three threads: one that works, one that is late, one that fails.
SPECIFICATION FairSpec
CONSTANTS
    Workers = {t1, t2, t3}
    Warmups = {n1, n2, n3}
    SharedLoad = SharedLoad
    Requests = {r1, r2}
    Wake = Wake
INVARIANTS
    HooksRunPrepared
    InitializeIsHonest
    NothingOutlivesShutdown
    TasksAreInOnePlace
PROPERTIES
    RequestsResolve
    ShutdownReturns
\* The server has stopped or has not started.
CHECK_DEADLOCK FALSE
