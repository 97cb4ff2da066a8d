\* A shard that was cleared belongs to nobody, and whoever quotes it continues it.
CONSTANTS
    Users = {u1, u2}
    Owners = {u1}
    Messages = {m1, m2}
    Shards = {s1, s2}
    None = None
    MaxClears = 1
    MaxFaults = 0
SPECIFICATION Spec
INVARIANTS
    InheritsOwnOnly
CHECK_DEADLOCK FALSE
