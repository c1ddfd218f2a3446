SPECIFICATION FairSpec
CONSTANTS
    Peers = {p1, p2}
    NoPeer = NoPeer
    LastSeg = 0
    WindowLag = 0
    WindowLead = 0
    UploadCap = 1
    Fetchers = {f1}
    Servers = {}
    MaxFetches = 2
    MaxPeerEpoch = 2
CHECK_DEADLOCK FALSE
PROPERTY FetchReturns
