CONSTANTS
    o1 = o1
    o2 = o2
    i1 = i1
    Msg <- MCMsg
    Outgoing <- MCOutgoing
    Qualified <- MCQualified
    PROPLIMIT = 1
    Role = "client"
    SendOnly = {FALSE, TRUE}
    Buffered = FALSE
    Ax25 = FALSE
    Login = "serial"
    Faults = {"kill", "timeout", "mail", "reap", "age", "unlink"}
    MaxFaults = 1
    PeerLine <- MCLines
    MaxRx = 1
SPECIFICATION Spec
INVARIANTS
    TypeOK
    OutboxKept
    UnansweredKept
PROPERTIES
    DeletedOnCommand
