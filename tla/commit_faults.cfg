\* Postgres, with database calls that fail and follow-ups that are tried again.
CONSTANTS
    Ids = {i1}
    Owners = {o1}
    Tasks = {t1, t2}
    Callers = {c1}
    Delays = {0}
    NoRow = NoRow
    MaxPerHour = 1
    Hour = 2
    Cooldown = 1
    Postgres = TRUE
    DbFails = TRUE
    MayCrash = FALSE
SPECIFICATION FairSpec
INVARIANTS
    CommitTypeOK
    QuotaKept
    OneFollowUp
    LiveExact
PROPERTIES
    ClosedForGood
    TakenUpAgain
