\* InMemoryDatabase, a quota of one an hour for two commitments, and restarts.
CONSTANTS
    Ids = {i1, i2}
    Owners = {o1}
    Tasks = {t1, t2}
    Callers = {c1}
    Delays = {0, 1}
    NoRow = NoRow
    MaxPerHour = 1
    Hour = 2
    Cooldown = 1
    Postgres = FALSE
    DbFails = FALSE
    MayCrash = TRUE
SPECIFICATION FairSpec
INVARIANTS
    SaidOnce
    CancelledStaysClosed
PROPERTIES
    ImplementsCommitmentLife
    FollowedUp
