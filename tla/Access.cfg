SPECIFICATION AccessFairSpec
CONSTANTS
    Nodes = {n1, n2}
    Public = FALSE
    Blocked = {n2}
    Preset = {}
    Pages = {p1}
    Buffer = 1
    MaxCalls = 2
    MaxOther = 1
    MaxFetches = 2
INVARIANTS AccessTypeOK GrantHonest OnlyTheAllowedSee
PROPERTIES OwnerSees PumpsEnd
CHECK_DEADLOCK FALSE
