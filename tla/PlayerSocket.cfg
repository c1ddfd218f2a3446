SPECIFICATION FairSpec
CONSTANTS
    Nodes = {n1}
    Pages = {p1, p2}
    NoPage = NoPage
    NoNode = NoNode
    Burst = 3
    Cost = 2
    OutBuffer = 1
    ReportBuffer = 1
    MaxInputs = 4
    MaxInbox = 1
    MaxNow = 3
INVARIANTS RateLimited SinkIsNewest
PROPERTIES FanOutEnds PageFreed
CHECK_DEADLOCK FALSE
