\* What the docs say of /clear, against a follow-up in progress.
CONSTANTS
    Ids = {i1}
    Owners = {o1}
    Tasks = {t1, t2}
    Callers = {c1}
    Delays = {0}
    NoRow = NoRow
    MaxPerHour = 1
    Hour = 2
    Cooldown = 1
    Postgres = TRUE
    DbFails = FALSE
    MayCrash = FALSE
SPECIFICATION Spec
SYMMETRY Symmetry
INVARIANTS
    CancelledStaysClosed
