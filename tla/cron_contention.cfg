\* Two one-shot jobs, one permit, failing turns and failing database calls.
CONSTANTS
    Jobs = {j1, j2}
    Fires = {f1, f2, o1}
    OwnerFires = {o1}
    Callers = {}
    Schedules <- OnceOnly
    NoRow = NoRow
    MaxConcurrentRuns = 1
    MaxFailures = 2
    MissedGrace = 1
    RetryUnit = 1
    RetryCap = 1
    TickRetry = 1
    Heartbeat = 1
    DueLimit = 2
    Postgres = TRUE
    DbFails = TRUE
    MayCrash = TRUE
    MaxTime = 2
    FailBound = 1
SPECIFICATION Spec
SYMMETRY Symmetry
INVARIANTS
    OneRunPerJob
    PermitsExact
PROPERTIES
    GoneForGood
    ImplementsRunSlots
