\* What the tests say of remove(), against a failing turn: no stale read is needed.
CONSTANTS
    Jobs = {j1}
    Fires = {f1}
    OwnerFires = {}
    Callers = {}
    Schedules <- OnceOnly
    NoRow = NoRow
    MaxConcurrentRuns = 1
    MaxFailures = 2
    MissedGrace = 1
    RetryUnit = 1
    RetryCap = 1
    TickRetry = 1
    Heartbeat = 1
    DueLimit = 2
    Postgres = FALSE
    DbFails = FALSE
    MayCrash = FALSE
    MaxTime = 2
    FailBound = 1
SPECIFICATION HSpec
SYMMETRY Symmetry
INVARIANTS
    RemovedStaysRemoved
