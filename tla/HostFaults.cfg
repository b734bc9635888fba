CONSTANTS
    a1 = a1
    a2 = a2
    a3 = a3
    b1 = b1
    b2 = b2
    Msg <- MCFewer
    FromA <- MCPairA
    FromB <- MCFromB
    ForA <- MCForA
    PROPLIMIT = 1
    SendOnly = {FALSE, TRUE}
    Buffered = TRUE
    Ax25 = TRUE
    Faults = {"drop", "kill", "db", "reap", "age", "timeout"}
    MaxFaults = 2
SPECIFICATION FairSpec
INVARIANTS
    NoDuplicate
    NoLoss
    RecordedIsDelivered
PROPERTIES
    NothingTaken
    
