CONSTANTS
    Word <- MCWord
    Upper <- MCUpper
    Colon <- MCColon
    Long <- MCLong
    Mails <- MCMails
    Calls = {"W1AW", "N7NIX"}
SPECIFICATION Spec
CHECK_DEADLOCK FALSE
INVARIANTS
    PartsKept
    HeadersKept
    PeerAlone
