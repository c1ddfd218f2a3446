SPECIFICATION FairSpec
CONSTANTS
    Nodes = {a, b}
    NoNode = none
    QueueCap = 1
    RelayCap = 1
    MaxConns = 3
    MaxRelays = 1
INVARIANTS OpenIsRegistered ViewsExplained
PROPERTY Converges
CHECK_DEADLOCK FALSE
