SPECIFICATION SwarmSpec
CONSTANTS
    Peers = {p1}
    NoPeer = NoPeer
    LastSeg = 1
    WindowLag = 0
    WindowLead = 0
    UploadCap = 1
    Fetchers = {f1, f2}
    Servers = {s1, s2}
    MaxFetches = 2
    MaxPeerEpoch = 1
INVARIANTS NoPoison UploadSlots EpochIdentifiesHave CacheAdvertised
CHECK_DEADLOCK FALSE
SYMMETRY Symmetry
