\* One recurring job and every command, on Postgres, with shutdown and crash:
\* stale copies of the row in the loop, in two calls of fire() and in a command.
CONSTANTS
    Jobs = {j1}
    Fires = {f1, o1}
    OwnerFires = {o1}
    Callers = {c1}
    Schedules <- EveryOnly
    NoRow = NoRow
    MaxConcurrentRuns = 1
    MaxFailures = 2
    MissedGrace = 0
    RetryUnit = 1
    RetryCap = 1
    TickRetry = 1
    Heartbeat = 1
    DueLimit = 1
    Postgres = TRUE
    DbFails = TRUE
    MayCrash = TRUE
    MaxTime = 2
    FailBound = 1
SPECIFICATION Spec
SYMMETRY Symmetry
INVARIANTS
    TypeOK
    RunningExact
