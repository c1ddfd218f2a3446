SPECIFICATION FairSpec
CONSTANTS
    Paths = {p1}
    Contents = {a, b}
    Streamed = {a}
    NoContent = NoContent
    Stamps = {0, 1, 2}
    NoPath = NoPath
    Scans = {s1, s2}
    StartScan = s1
    Readers = {r1}
    LastSeg = 1
    MaxChanges = 2
    MaxRestarts = 1
INVARIANTS RowHonest HashOfWholeSegment
PROPERTIES IndexCatchesUp
CHECK_DEADLOCK FALSE
