\* Two jobs, one permit, failing turns: nothing waits for ever.
CONSTANTS
    Jobs = {j1, j2}
    Fires = {f1, f2}
    OwnerFires = {}
    Callers = {}
    Schedules <- OnceOrPast
    NoRow = NoRow
    MaxConcurrentRuns = 1
    MaxFailures = 2
    MissedGrace = 0
    RetryUnit = 1
    RetryCap = 1
    TickRetry = 1
    Heartbeat = 1
    DueLimit = 2
    Postgres = TRUE
    DbFails = FALSE
    MayCrash = FALSE
    MaxTime = 2
    FailBound = 1
SPECIFICATION FairSpec
PROPERTIES
    RunEnds
    DueServed
