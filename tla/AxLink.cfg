CONSTANTS
    Width = 6
    CHRNUL = 0
    CHRSOH = 1
    CHRSTX = 2
    CHREOT = 4
    Zero = 3
    One = 5
    CHUNK_SIZE = 2
    MaxTitle = 1
    PeerChunk = 6
    Messages <- MCMessages
    PeerMessages <- MCPeerMessages
    PairCap = 3
    AirCap = 2
    BUFMAXIN = 2
    BUFMAXOUT = 3
    paclen = 2
    Faults = {"drop", "kill", "timeout", "slow"}
    MaxFaults = 2
SPECIFICATION FairSpec
CHECK_DEADLOCK FALSE
INVARIANTS
    TypeOK
    GotIsPut
    LastWords
PROPERTIES
    Completes
    LostLinkEnds
