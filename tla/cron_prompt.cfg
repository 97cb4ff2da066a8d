\* How late the loop may be: short intervals, lost wake-ups, failing ticks.
CONSTANTS
    Jobs = {j1}
    Fires = {f1, o1}
    OwnerFires = {o1}
    Callers = {}
    Schedules <- EveryOrCron
    NoRow = NoRow
    MaxConcurrentRuns = 1
    MaxFailures = 2
    MissedGrace = 1
    RetryUnit = 1
    RetryCap = 1
    TickRetry = 1
    Heartbeat = 2
    DueLimit = 2
    Postgres = TRUE
    DbFails = FALSE
    MayCrash = TRUE
    MaxTime = 4
    FailBound = 1
SPECIFICATION HSpec
SYMMETRY Symmetry
INVARIANTS
    TakenWithinOneSleep
