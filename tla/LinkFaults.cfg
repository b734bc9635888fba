CONSTANTS
    a1 = a1
    a2 = a2
    a3 = a3
    b1 = b1
    b2 = b2
    Msg <- MCMsg
    FromA <- MCFromA
    FromB <- MCFromB
    ForA <- MCForA
    PROPLIMIT = 2
    SendOnly = {FALSE}
    Buffered = TRUE
    Ax25 = TRUE
    Faults = {"drop", "mail", "unlink"}
    MaxFaults = 2
SPECIFICATION FairSpec
INVARIANTS
    AtMostOnce
    StallIsReadAhead
    CleanSessionDrains
PROPERTIES
    Implements
    
