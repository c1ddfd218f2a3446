SPECIFICATION FairSpec
CONSTANTS
    Nodes = {1, 2}
    Wants <- Both
    MaxHand = 1
    MaxFaults = 2
INVARIANTS OneOffer GlareOnlyByHand SignedByRemote
PROPERTIES EdgeComesUp
CHECK_DEADLOCK FALSE
