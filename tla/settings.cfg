\* Two requests of the console in any overlap, edits by hand at any
\* moment, failing calls, a restart with another environment.
CONSTANTS
    Updates = {u1, u2}
    Users = {console, ann}
    BuiltinOwners = {console}
    Cards = {plain, custom}
    DefaultCard = plain
    Tokens = {secret}
    NoToken = NoToken
    Mask = Mask
    Keep = Keep
    Missing = Missing
    Broken = Broken
    NoRow = NoRow
    Ports = {usual}
    SysPort = usual
    SysEnabled = FALSE
    MaxActs = 4
    MaxStarts = 2
SPECIFICATION MCSpec
SYMMETRY Symmetry
INVARIANTS
    TypeOK
    ConsoleKeepsOwnership
    NoMaskStored
    AdaptersFollow
    
    EditsPickedUp
CHECK_DEADLOCK FALSE
