\* Two users, one of whom may clear; two messages in any overlap, a fault.
CONSTANTS
    Users = {u1, u2}
    Owners = {u1}
    Messages = {m1, m2}
    Shards = {s1, s2}
    None = None
    MaxClears = 1
    MaxFaults = 1
SPECIFICATION Spec
SYMMETRY Symmetry
INVARIANTS
    ShardTypeOK
    OwnShard
    RoutedHome
    HotWithinWarm
    FailsOnlyWhenCleared
    Forgotten
CHECK_DEADLOCK FALSE
