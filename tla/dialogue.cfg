\* Three messages of a group at once; turns with real limits of rounds and
\* supersteps in windows of three sizes; two jobs on one card; two turns
\* and a follow-up on one pad.
CONSTANTS
    Slots = {s1, s2, s3}
    Members = {ann, bob}
    EngageSec = 2
    EngageReplies = 2
    Cooldown = 2
    TechChance = 75
    ChattyChance = 60
    RequireAt = TRUE
    NoMember = NoMember
    Caps = {1, 4, 8}
    MaxToolRounds = 6
    RecursionLimit = 16
    MaxCalls = 2
    MaxThread = 14
    Jobs = {j1, j2}
    Phrases = {coding}
    Techs = {go, rust}
    Taboos = {small}
    StackMax = 2
    NoRow = NoRow
    Empty = Empty
    MaxAge = 1
    OwnerTurns = {t1, t2}
    Pings = {p1}
    Notes = {n1, n2}
    Blank = Blank
SPECIFICATION MCSpec
SYMMETRY Symmetry
INVARIANTS
    DialogueTypeOK
    FollowUpsBounded
    OpeningsBounded
    WindowWellFormed
    AnswersWithinLimit
    RefusalsEnd
PROPERTIES
    OwnFieldsOnly
    CardOnlyGrows
CHECK_DEADLOCK FALSE
