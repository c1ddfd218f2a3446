SPECIFICATION FairSpec
CONSTANTS
    HighWater = 1
    MaxCalls = 2
    Sizes = {1}
INVARIANTS WholeTransfers NoEntryLeft BufferBounded
PROPERTY RequestsReturn
CHECK_DEADLOCK FALSE
