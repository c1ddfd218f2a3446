SPECIFICATION Spec
CONSTANTS
    Viewers = {v1}
    Positions = {2}
    SeekDebounce = 1
    MaxOWD = 1
    RTTs = {4}
    MaxNow = 1
    MaxSeq = 2
    MaxJoins = 1
    MaxDrops = 0
    MaxBacklog = 2
PROPERTY ScrubHoldsViewers
CHECK_DEADLOCK FALSE
