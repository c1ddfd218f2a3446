SPECIFICATION FairSpec
CONSTANTS
    Viewers = {v1}
    Positions = {2}
    SeekDebounce = 1
    MaxOWD = 1
    RTTs = {4}
    MaxNow = 1
    MaxSeq = 2
    MaxJoins = 2
    MaxDrops = 1
    MaxBacklog = 1
INVARIANTS Agreement NoOutrun
PROPERTIES MembersCatchUp PromiseKept
CHECK_DEADLOCK FALSE
