------------------------------- MODULE Exchange -------------------------------
(***************************************************************************)
(* One endpoint of a B2F mail session: wl2k_exchange() (the programs        *)
(* wl2kax25, wl2ktelnet and wl2kserial, Role = "client") or                 *)
(* wl2kd_exchange() (wl2kax25d, Role = "daemon"), with everything they call *)
(* in src/wl2k.c and src/mid.c that changes state.                          *)
(*                                                                         *)
(* The peer and the link are shared variables (rx, tx, link): AnyPeer.tla   *)
(* drives them with an arbitrary peer, PeerToPeer.tla connects a client to  *)
(* a daemon.  One step is what the program does between two places where it *)
(* blocks or can be killed with a visible difference.                       *)
(***************************************************************************)
EXTENDS Integers, Sequences, FiniteSets

CONSTANTS
    Msg,         \* message identifiers (MIDs); a message is named by its MID
    Outgoing,    \* the messages composed on this host
    Qualified,   \* those p2p_qualify() accepts for the calling station
    PROPLIMIT,   \* proposals in one block
    Role,        \* "client" or "daemon"
    SendOnly,    \* the values of the -s flag a session may be started with
    Buffered,    \* the input FILE reads ahead (FALSE after setbuf(fp, NULL))
    Ax25,        \* cfg->ax25sock is a connected socket (wl2kax25 only)
    Login,       \* who is logged in to before the exchange: nobody ("none"),
                 \* a telnet server (wl2ktelnet) or a modem (wl2kserial)
    Faults,      \* the kinds of fault that may happen
    MaxFaults    \* bound: how many of them

FaultKind == {"drop", "kill", "timeout", "mail", "reap", "db", "age", "unlink"}

ASSUME ConstantsAssumption ==
    /\ IsFiniteSet(Msg)
    /\ Outgoing \subseteq Msg
    /\ Qualified \subseteq Msg
    /\ PROPLIMIT \in Nat \ {0}
    /\ Role \in {"client", "daemon"}
    /\ SendOnly \subseteq BOOLEAN
    /\ {Buffered, Ax25} \subseteq BOOLEAN
    /\ Login \in {"none", "telnet", "serial"}
    /\ Faults \subseteq FaultKind
    /\ MaxFaults \in Nat

VARIABLES
    \* the session
    pc,        \* where the program is (see PC below)
    ret,       \* where b2outboundproposal() returns to: "wait" or "parser"
    sendonly,  \* gsendmsgonly_flag
    olist,     \* oproplist: the messages listed at the start, in readdir order
    nprop,     \* nproplist: how many of them are behind the list pointer
    del,       \* the messages whose prop->delete is set
    unsent,    \* indices of the current batch still to be transmitted
    iprops,    \* ipropary[0 .. proposals-1]
    todo,      \* indices of iprops accepted and not yet received
    ahead,     \* how many lines of rx are already in the stdio buffer
    \* the host: files that outlive the program
    outbox,    \* files in the outbox directory
    middb,     \* MIDs in the MID database
    old,       \* those of them stored more than MID_EXPIREDAYS ago
    mailbox,   \* copies of each message handed to sendmail with success
    \* the connection
    rx, tx,    \* lines on their way to and from this endpoint
    link,      \* "up" or "closed"
    faults,    \* faults still allowed
    \* history, read by no guard
    settled,   \* messages the peer refused or this endpoint sent in full
    orphan,    \* messages delivered here whose MID was not stored, or expired
    missed     \* messages taken for delivered here after an error: refused
               \* though not in the database, or their sendmail's status lost

outVars  == <<olist, nprop, del, unsent>>
inVars   == <<iprops, todo>>
dbVars   == <<middb, old, orphan, missed>>
hostVars == <<outbox, mailbox, settled>>
netVars  == <<rx, tx, link, ahead>>
vars     == <<pc, ret, sendonly, outVars, inVars, dbVars, hostVars, netVars, faults>>

(* "idle": not running.  "login1", "login2": waiting for the first and the   *)
(* second prompt.  "greet", "sid": the handshake, before and after the       *)
(* peer's SID.  "answer", "answerFW": waiting for the FS line.  "send":      *)
(* putcompressed() of a batch.  "wait": wl2k_wait_for_response().  "parser": *)
(* the loop of inbound_parser().  "receive": between two getcompressed().    *)
(* "record": sendmail has returned, record_mid() has not.                    *)
PC == {"idle", "login1", "login2", "greet", "sid", "answer", "answerFW", "send",
       "wait", "parser", "receive", "record"}

InSession == pc \notin {"idle", "login1", "login2"}

-------------------------------------------------------------------------------
(* The lines of the protocol.  A message body is one DATA line; "FCbad" is a *)
(* malformed proposal, "SIDbad" a SID without B2F, "QTC" the comment a       *)
(* client greets with, ">" any line that ends in a prompt, "?" any other     *)
(* line; empty lines, skipped everywhere ";" is, count as ";".  Prompt: what *)
(* a telnet server and a modem ask for in the login.                         *)

Prompt == {"Callsign", "Password", "cmd:"}
Bare   == {"SID", "SIDbad", "QTC", ";", ";PM", ";FW", ">", "FF", "FQ", "B",
           "FCbad", "?"} \cup Prompt
Kind   == Bare \cup {"FC", "DATA", "F>", "FS"}
Answer == {"Y", "N", "L", "A", "E"}

Line == [t : Bare]
   \cup [t : {"FC", "DATA"}, m : Msg]
   \cup [t : {"F>"}, sum : [Msg -> Nat]]
   \cup [t : {"FS"}, ans : Seq(Answer)]

Just(kind) == <<[t |-> kind]>>
Comment == {"QTC", ";", ";PM", ";FW"}

(* The checksum of a block: a sum over its proposals, so blind to order.     *)
Cksum(s) == [m \in Msg |-> Cardinality({i \in 1..Len(s) : s[i] = m})]

(* The next index of a loop that still has those of S to do (none if empty). *)
NextOf(S) == {i \in S : \A j \in S : i =< j}

-------------------------------------------------------------------------------
(* Reading, writing, stopping.                                               *)

Fault(kind) == kind \in Faults /\ faults > 0 /\ faults' = faults - 1

(* wl2kgetline() returns a line of one of the kinds.  A read that finds the  *)
(* stdio buffer empty also fetches some of what has arrived behind it.       *)
Reads(kinds) ==
    /\ rx # <<>>
    /\ Head(rx).t \in kinds
    /\ rx' = Tail(rx)
    /\ ahead' \in IF ahead > 0 THEN {ahead - 1}
                  ELSE IF Buffered THEN 0 .. Len(rx) - 1 ELSE {0}

(* fprintf(ofp, ..) and fflush(ofp); what is written to a dead link is lost. *)
Says(lines) == tx' = IF link = "up" THEN tx \o lines ELSE tx

(* exit(), _exit() or a return to main(): the descriptors close.             *)
Exit == pc' = "idle" /\ link' = "closed"

Reading == {"login1", "login2", "greet", "sid", "answer", "answerFW", "parser", "receive"}
AtRead  == pc \in Reading /\ (pc = "receive" => todo # {})

-------------------------------------------------------------------------------
(* Sending: b2outboundproposal(), putcompressed() and dodelete().            *)

Remaining == Len(olist) - nprop
BatchSize == IF Remaining < PROPLIMIT THEN Remaining ELSE PROPLIMIT

Block == LET b == [k \in 1..BatchSize |-> olist[nprop + k]]
         IN  [k \in 1..BatchSize |-> [t |-> "FC", m |-> b[k]]]
               \o <<[t |-> "F>", sum |-> Cksum(b)]>>

(* The first part of b2outboundproposal(): the block, FQ or FF, and, when a  *)
(* block was sent, the wait for its answer.  "greeting" is what the caller   *)
(* wrote just before.                                                        *)
B2Out(greeting, lastcommand, to) ==
    /\ UNCHANGED sendonly
    /\ \/ /\ Remaining > 0
          /\ Says(greeting \o Block)
          /\ pc' = "answer" /\ ret' = to
          /\ UNCHANGED link
       \/ /\ Remaining = 0 /\ lastcommand # "FF"
          /\ Says(greeting \o Just("FF"))
          /\ pc' = to
          /\ UNCHANGED <<ret, link>>
       \/ /\ Remaining = 0 /\ lastcommand = "FF"
          /\ Says(greeting \o Just("FQ"))
          /\ Exit
          /\ UNCHANGED ret

(* Mutants: the whole list is searched; a batch counts as behind the pointer *)
(* before it was answered, flagged or not; the last file is not reached.     *)
Deletable_WholeList == {olist[i] : i \in 1..Len(olist)} \cap del
Deletable_TooSoon   == {olist[i] : i \in 1 .. nprop + BatchSize}
Deletable_OneShort  == {olist[i] : i \in 1 .. nprop - 1} \cap del

(* dodelete(): unlink what is flagged in front of the list pointer.  A       *)
(* failing unlink() is logged and the flag cleared all the same.             *)
Deletable == {olist[i] : i \in 1..nprop} \cap del
DoDelete ==
    /\ del' = del \ Deletable
    /\ UNCHANGED <<olist, nprop, unsent>>
    /\ \/ outbox' = outbox \ Deletable /\ UNCHANGED faults
       \/ /\ Fault("unlink")
          /\ \E kept \in SUBSET Deletable \ {{}} :
                outbox' = outbox \ (Deletable \ kept)

(* ";PM:" lines are skipped, then ";FW:" lines.                              *)
AnswerSkip ==
    /\ \/ pc = "answer" /\ Reads({";PM"}) /\ UNCHANGED pc
       \/ pc \in {"answer", "answerFW"} /\ Reads({";FW"}) /\ pc' = "answerFW"
    /\ UNCHANGED <<ret, sendonly, outVars, inVars, dbVars, hostVars, tx, link, faults>>

(* What the scan of an FS line makes of the k-th remaining proposal.  After  *)
(* strtoul() on an "A" the pointer has not moved, so the scan sees the same  *)
(* "A" for every later proposal; a line that ends early leaves the rest      *)
(* unanswered; a long one reaches proposals of later blocks.                 *)
Heard(ans, k) == IF \E j \in 1..Len(ans) : j =< k /\ ans[j] = "A" THEN "A"
                 ELSE IF k =< Len(ans) THEN ans[k] ELSE "none"
HeardAs(ans, letters) ==
    {olist[nprop + k] : k \in {j \in 1..Remaining : Heard(ans, j) \in letters}}

AnswerFS ==
    /\ pc \in {"answer", "answerFW"}
    /\ Reads({"FS"})
    /\ LET ans     == Head(rx).ans
           refused == HeardAs(ans, {"N"})
           flagged == (del \ HeardAs(ans, Answer)) \cup refused
       IN  \/ /\ HeardAs(ans, {"E"}) # {}            \* B2 protocol error 3
              /\ Exit
              /\ UNCHANGED <<outVars, settled>>
           \/ /\ HeardAs(ans, {"E"}) = {}
              /\ del' = flagged
              /\ unsent' = {i \in nprop+1 .. nprop+BatchSize : olist[i] \notin flagged}
              /\ settled' = settled \cup refused
              /\ pc' = "send"
              /\ UNCHANGED <<olist, nprop, link>>
    /\ UNCHANGED <<ret, sendonly, inVars, dbVars, outbox, mailbox, tx, faults>>

AnswerError ==                                        \* B2 protocol error 1
    /\ \/ pc = "answer" /\ Reads(Kind \ {"FS", ";PM", ";FW"})
       \/ pc = "answerFW" /\ Reads(Kind \ {"FS", ";FW"})
    /\ Exit
    /\ UNCHANGED <<ret, sendonly, outVars, inVars, dbVars, hostVars, tx, faults>>

(* Everything of the batch not flagged is transmitted, whatever was answered,*)
(* and flagged.                                                              *)
PutCompressed ==
    /\ pc = "send"
    /\ \E i \in NextOf(unsent) :
           /\ Says(<<[t |-> "DATA", m |-> olist[i]]>>)
           /\ unsent' = unsent \ {i}
           /\ del' = del \cup {olist[i]}
           /\ settled' = settled \cup {olist[i]}
    /\ UNCHANGED <<pc, ret, sendonly, olist, nprop, inVars, dbVars, outbox, mailbox,
                   rx, ahead, link, faults>>

(* Mutants: the batch is unlinked as soon as it was transmitted; the turn is *)
(* handed over at once; the pointer runs past the end of the list.           *)
BatchDone_Deletes ==
    /\ pc = "send" /\ unsent = {}
    /\ nprop' = nprop + BatchSize
    /\ pc' = ret
    /\ outbox' = outbox \ {olist[i] : i \in 1 .. nprop + BatchSize}
    /\ UNCHANGED <<ret, sendonly, olist, del, unsent, inVars, dbVars, mailbox, settled,
                   netVars, faults>>
BatchDone_HandsOver ==
    /\ pc = "send" /\ unsent = {}
    /\ nprop' = nprop + BatchSize
    /\ pc' = ret
    /\ Says(Just("FF"))
    /\ UNCHANGED <<ret, sendonly, olist, del, unsent, inVars, dbVars, hostVars, rx, link,
                   ahead, faults>>
BatchDone_Overruns ==
    /\ pc = "send" /\ unsent = {}
    /\ nprop' = nprop + BatchSize + 1
    /\ pc' = ret
    /\ UNCHANGED <<ret, sendonly, olist, del, unsent, inVars, dbVars, hostVars, netVars,
                   faults>>

BatchDone ==
    /\ pc = "send" /\ unsent = {}
    /\ nprop' = nprop + BatchSize
    /\ pc' = ret
    /\ UNCHANGED <<ret, sendonly, olist, del, unsent, inVars, dbVars, hostVars, netVars,
                   faults>>

-------------------------------------------------------------------------------
(* Starting a session: expire_mids(), prepare_outbound_proposals() and the   *)
(* handshake.                                                                *)

Listed == IF Role = "daemon" THEN outbox \cap Qualified ELSE outbox
Listings(S) == {s \in [1..Cardinality(S) -> S] :
                   \A i, j \in 1..Cardinality(S) : s[i] = s[j] => i = j}

(* What the daemon has written when it first reads: its SID, capabilities    *)
(* and banner, and the prompt of p2p_startmsg().                             *)
(* A modem is woken up with an empty line.                                   *)
Greeting == IF Role = "daemon" THEN Just("SID") \o Just("?") \o Just(">")
            ELSE IF Login = "serial" THEN Just(";") ELSE <<>>

Begin ==
    /\ middb' = middb \ old /\ orphan' = orphan \cup old /\ old' = {}
    /\ olist' \in Listings(Listed)
    /\ nprop' = 0 /\ del' = {} /\ unsent' = {}
    /\ iprops' = <<>> /\ todo' = {}
    /\ ret' = "wait"
    /\ sendonly' \in SendOnly
    /\ pc' = "greet"
    /\ UNCHANGED <<missed, hostVars, faults>>

(* The connection itself (rx, tx, link) is made by the composing module.     *)
Start ==
    /\ pc = "idle" /\ ahead' = 0
    /\ \/ Login = "none" /\ Begin
       \/ /\ Login # "none" /\ pc' = "login1"
          /\ UNCHANGED <<ret, sendonly, outVars, inVars, dbVars, hostVars, faults>>

(* The login scripts of wl2ktelnet and wl2kserial: nothing is listed or      *)
(* expired before they are through.                                          *)
Asked == IF Login = "serial" THEN "cmd:"
         ELSE IF pc = "login1" THEN "Callsign" ELSE "Password"

(* At the first prompt, the modem is sent another empty line.                *)
LoginWaits ==
    /\ pc \in {"login1", "login2"}
    /\ Reads(Kind \ {Asked})
    /\ Says(IF Login = "serial" /\ pc = "login1" THEN Just(";") ELSE <<>>)
    /\ UNCHANGED <<pc, ret, sendonly, outVars, inVars, dbVars, hostVars, link, faults>>

LoginAnswers ==
    /\ pc = "login1" /\ Reads({Asked})
    /\ Says(Just("?")) /\ pc' = "login2"
    /\ UNCHANGED <<ret, sendonly, outVars, inVars, dbVars, hostVars, link, faults>>

LoginDone ==
    /\ pc = "login2" /\ Reads({Asked})
    /\ Says(Just("?")) /\ Begin
    /\ UNCHANGED link

(* Lines the handshake loop reads and drops: all comments at a client, but   *)
(* only the QTC greeting (and ";FW:") at a daemon, and whatever is neither a *)
(* SID, a comment nor a prompt.                                              *)
Dropped == (Kind \ (Comment \cup {"SID", "SIDbad", ">"}))
           \cup (IF Role = "client" THEN Comment ELSE {"QTC", ";FW"})

GreetIgnored ==
    /\ pc \in {"greet", "sid"}
    /\ Reads(Dropped)
    /\ UNCHANGED <<pc, ret, sendonly, outVars, inVars, dbVars, hostVars, tx, link, faults>>

(* Only a client waits for the prompt behind the SID; the daemon takes a     *)
(* foreign comment too for the end of the handshake.                         *)
GreetSID ==
    /\ pc \in {"greet", "sid"}
    /\ Reads(IF Role = "client" THEN {"SID"} ELSE {"SID", ";", ";PM"})
    /\ pc' = IF Role = "client" THEN "sid" ELSE "parser"
    /\ UNCHANGED <<ret, sendonly, outVars, inVars, dbVars, hostVars, tx, link, faults>>

GreetPrompt ==
    /\ pc = "sid"
    /\ Reads({">"})
    /\ B2Out(Just("QTC") \o Just("SID"), ">", "wait")
    /\ UNCHANGED <<outVars, inVars, dbVars, hostVars, faults>>

GreetError ==
    /\ \/ pc \in {"greet", "sid"} /\ Reads({"SIDbad"})
       \/ pc = "greet" /\ Reads({">"})                \* inboundsidcodes not set
    /\ Exit
    /\ UNCHANGED <<ret, sendonly, outVars, inVars, dbVars, hostVars, tx, faults>>

-------------------------------------------------------------------------------
(* Mutant: end of file does not wake the wait.                               *)
OnDescriptor_NoEof == Len(rx) > ahead

(* wl2k_wait_for_response(): select() looks at the descriptor only, so lines *)
(* already in the stdio buffer do not wake it; end of file does.             *)
OnDescriptor == Len(rx) > ahead \/ link # "up"

WaitReadable ==
    /\ pc = "wait" /\ OnDescriptor
    /\ pc' = "parser"
    /\ UNCHANGED <<ret, sendonly, outVars, inVars, dbVars, hostVars, netVars, faults>>

(* Nothing for timeoutsecs/2 and no AX.25 socket: the session is over.       *)
WaitGivesUp ==
    /\ pc = "wait" /\ ~OnDescriptor /\ ~Ax25
    /\ Exit
    /\ UNCHANGED <<ret, sendonly, outVars, inVars, dbVars, hostVars, rx, tx, ahead>>

-------------------------------------------------------------------------------
(* Receiving: inbound_parser(), check_mid(), getcompressed(), record_mid().  *)

ParseComment ==
    /\ pc = "parser" /\ Reads(Comment)
    /\ UNCHANGED <<pc, ret, sendonly, outVars, inVars, dbVars, hostVars, tx, link, faults>>

ParseFC ==
    /\ pc = "parser" /\ Reads({"FC", "FCbad"})
    /\ DoDelete
    /\ IF Head(rx).t = "FC" /\ Len(iprops) < PROPLIMIT
       THEN /\ iprops' = Append(iprops, Head(rx).m)
            /\ UNCHANGED <<pc, link>>
       ELSE Exit /\ UNCHANGED iprops      \* too many proposals, or malformed
    /\ UNCHANGED <<ret, sendonly, todo, dbVars, mailbox, settled, tx>>

(* Mutant: dodelete() is forgotten.                                          *)
ParseFF_NoDelete ==
    /\ pc = "parser" /\ Reads({"FF"})
    /\ B2Out(<<>>, "FF", "parser")
    /\ UNCHANGED <<outVars, inVars, dbVars, hostVars, faults>>

ParseFF ==
    /\ pc = "parser" /\ Reads({"FF"})
    /\ DoDelete
    /\ B2Out(<<>>, "FF", "parser")
    /\ UNCHANGED <<inVars, dbVars, mailbox, settled>>

ParseFQ ==
    /\ pc = "parser" /\ Reads({"FQ"})
    /\ DoDelete
    /\ Exit
    /\ UNCHANGED <<ret, sendonly, inVars, dbVars, mailbox, settled, tx>>

ParseB ==
    /\ pc = "parser" /\ Reads({"B"})
    /\ Exit
    /\ UNCHANGED <<ret, sendonly, outVars, inVars, dbVars, hostVars, tx, faults>>

(* What is left is taken for a prompt or not recognised.  The test for "the  *)
(* line ends in '>'" looks at line[strlen(line - 1)], a byte outside the     *)
(* line, so either may happen to any of these lines.                         *)
Unknown == {"SID", "SIDbad", ">", "?", "FS", "DATA"} \cup Prompt

ParsePrompt ==
    /\ pc = "parser" /\ Reads(Unknown)
    /\ DoDelete
    /\ B2Out(<<>>, ">", "parser")
    /\ UNCHANGED <<inVars, dbVars, mailbox, settled>>

ParseUnrecognized ==
    /\ pc = "parser" /\ Reads(Unknown)
    /\ Exit
    /\ UNCHANGED <<ret, sendonly, outVars, inVars, dbVars, hostVars, tx, faults>>

(* Mutant: the block is refused instead, and the turn taken.                 *)
ParseBlockSendOnly_Refuses ==
    /\ pc = "parser" /\ sendonly /\ Reads({"F>"})
    /\ Says(<<[t |-> "FS", ans |-> [i \in 1..Len(iprops) |-> "N"]]>> \o Just("FF"))
    /\ iprops' = <<>>
    /\ UNCHANGED <<pc, ret, sendonly, outVars, todo, dbVars, hostVars, link, faults>>

(* Send messages only: the block is answered with FF, and kept.              *)
ParseBlockSendOnly ==
    /\ pc = "parser" /\ sendonly /\ Reads({"F>"})
    /\ Says(Just("FF"))
    /\ UNCHANGED <<pc, ret, sendonly, outVars, inVars, dbVars, hostVars, link, faults>>

ParseBlockMismatch ==
    /\ pc = "parser" /\ ~sendonly /\ Reads({"F>"})
    /\ Head(rx).sum # Cksum(iprops)
    /\ Exit
    /\ UNCHANGED <<ret, sendonly, outVars, inVars, dbVars, hostVars, tx, faults>>

(* The proposals whose MID was looked up and not found.                      *)
Fresh(checked) == {i \in checked : iprops[i] \notin middb \ old}

(* Mutant: a MID is stored when its message is accepted.                     *)
ParseBlock_Records ==
    /\ pc = "parser" /\ ~sendonly /\ Reads({"F>"})
    /\ Head(rx).sum = Cksum(iprops)
    /\ todo' = Fresh(1..Len(iprops))
    /\ middb' = middb \cup {iprops[i] : i \in todo'}
    /\ Says(<<[t |-> "FS", ans |-> [i \in 1..Len(iprops) |->
                                     IF i \in todo' THEN "Y" ELSE "N"]]>>)
    /\ pc' = "receive"
    /\ UNCHANGED <<ret, sendonly, outVars, iprops, old, orphan, missed, hostVars, link, faults>>

(* Every MID of the block is looked up before any message is received.       *)
(* check_mid() drops an expired entry and reports it as not found; on a      *)
(* database error it returns -1, which is as good as "found".                *)
ParseBlock ==
    /\ pc = "parser" /\ ~sendonly /\ Reads({"F>"})
    /\ Head(rx).sum = Cksum(iprops)
    /\ \E failed \in SUBSET (1..Len(iprops)) :
          LET checked == (1..Len(iprops)) \ failed
              expired == old \cap {iprops[i] : i \in checked}
              fresh   == Fresh(checked)
          IN  /\ IF failed = {} THEN UNCHANGED faults ELSE Fault("db")
              /\ middb' = middb \ expired /\ old' = old \ expired
              /\ orphan' = orphan \cup expired
              /\ missed' = missed \cup ({iprops[i] : i \in failed} \ middb)
              /\ todo' = fresh
              /\ Says(IF iprops = <<>> THEN <<>>
                      ELSE <<[t |-> "FS",
                              ans |-> [i \in 1..Len(iprops) |->
                                         IF i \in fresh THEN "Y" ELSE "N"]]>>)
    /\ pc' = "receive"
    /\ UNCHANGED <<ret, sendonly, outVars, iprops, hostVars, link>>

(* getcompressed(), decoding and sendmail.  A sendmail whose exit status was *)
(* lost (ECHILD) counts as a success, though it may have failed.             *)
Receive ==
    /\ pc = "receive" /\ todo # {}
    /\ Reads({"DATA"})
    /\ LET m == Head(rx).m
           delivered == [mailbox EXCEPT ![m] = @ + 1]
       IN  \/ /\ mailbox' = delivered /\ pc' = "record"
              /\ UNCHANGED <<missed, link, faults>>
           \/ /\ Fault("mail")
              /\ Exit /\ UNCHANGED <<missed, mailbox>>
           \/ /\ Fault("reap")
              /\ missed' = missed \cup {m}
              /\ pc' = "record" /\ UNCHANGED <<mailbox, link>>
    /\ UNCHANGED <<ret, sendonly, outVars, inVars, middb, old, orphan, outbox, settled, tx>>

ReceiveError ==
    /\ pc = "receive" /\ todo # {}
    /\ Reads(Kind \ {"DATA"})
    /\ Exit
    /\ UNCHANGED <<ret, sendonly, outVars, inVars, dbVars, hostVars, tx, faults>>

(* Mutant: the MID is not stored.                                            *)
Record_Nothing ==
    /\ pc = "record"
    /\ todo' = todo \ NextOf(todo)
    /\ pc' = "receive"
    /\ UNCHANGED <<ret, sendonly, outVars, iprops, dbVars, hostVars, netVars, faults>>

(* record_mid(): its result is ignored.                                      *)
Record ==
    /\ pc = "record"
    /\ \E i \in NextOf(todo) :
           /\ todo' = todo \ {i}
           /\ \/ /\ middb' = middb \cup {iprops[i]} /\ old' = old \ {iprops[i]}
                 /\ UNCHANGED <<orphan, faults>>
              \/ /\ Fault("db")
                 /\ orphan' = orphan \cup {iprops[i]}
                 /\ UNCHANGED <<middb, old>>
    /\ pc' = "receive"
    /\ UNCHANGED <<ret, sendonly, outVars, iprops, missed, hostVars, netVars>>

(* Mutant: nothing is said after a block was received.                       *)
BlockDone_Silent ==
    /\ pc = "receive" /\ todo = {}
    /\ iprops' = <<>> /\ pc' = "parser"
    /\ UNCHANGED <<ret, sendonly, outVars, todo, dbVars, hostVars, netVars, faults>>

BlockDone ==
    /\ pc = "receive" /\ todo = {}
    /\ iprops' = <<>>
    /\ B2Out(<<>>, "F>", "parser")
    /\ UNCHANGED <<outVars, todo, dbVars, hostVars, rx, ahead, faults>>

-------------------------------------------------------------------------------
(* Stopping without having decided to.                                       *)

(* fgetc() returned EOF.                                                     *)
EndOfFile ==
    /\ AtRead /\ rx = <<>> /\ link # "up"
    /\ Exit
    /\ UNCHANGED <<ret, sendonly, outVars, inVars, dbVars, hostVars, rx, tx, ahead, faults>>

(* The program dies; a message delivered but not recorded becomes an orphan. *)
Die ==
    /\ Exit
    /\ orphan' = IF pc = "record" THEN orphan \cup {iprops[i] : i \in NextOf(todo)}
                 ELSE orphan
    /\ UNCHANGED <<ret, sendonly, outVars, inVars, middb, old, missed, hostVars, rx, tx,
                   ahead>>

(* SIGALRM: the peer was silent for too long, or sendmail took too long.     *)
AlarmDue == (AtRead /\ rx = <<>> /\ link = "up") \/ pc = "record"
Alarm    == AlarmDue /\ Die

Kill == pc # "idle" /\ Die /\ Fault("kill")

(* MID_EXPIREDAYS go by.                                                     *)
Age ==
    /\ Fault("age") /\ old # middb
    /\ old' = middb
    /\ UNCHANGED <<pc, ret, sendonly, outVars, inVars, middb, orphan, missed, hostVars,
                   netVars>>

-------------------------------------------------------------------------------
(* The program's own steps.                                                  *)
Work ==
    \/ LoginWaits \/ LoginAnswers \/ LoginDone
    \/ GreetIgnored \/ GreetSID \/ GreetPrompt \/ GreetError
    \/ AnswerSkip \/ AnswerFS \/ AnswerError \/ PutCompressed \/ BatchDone
    \/ WaitReadable
    \/ ParseComment \/ ParseFC \/ ParseFF \/ ParseFQ \/ ParseB \/ ParsePrompt
    \/ ParseUnrecognized \/ ParseBlockSendOnly \/ ParseBlockMismatch \/ ParseBlock
    \/ Receive \/ ReceiveError \/ Record \/ BlockDone
    \/ EndOfFile

(* Steps that take time the peer may use up.                                 *)
Late   == (Alarm \/ WaitGivesUp) /\ Fault("timeout")
Mishap == Kill \/ Age \/ Late

(* The host before the first session: generate_mid() has recorded the MIDs   *)
(* of the messages in the outbox, or none (mail.wl2k -m, for mail to self).  *)
HostInit ==
    /\ pc = "idle" /\ ret = "wait" /\ sendonly \in SendOnly
    /\ olist = <<>> /\ nprop = 0 /\ del = {} /\ unsent = {}
    /\ iprops = <<>> /\ todo = {} /\ ahead = 0
    /\ outbox = Outgoing /\ middb \in {Outgoing, {}} /\ old = {}
    /\ mailbox = [m \in Msg |-> 0]
    /\ settled = {} /\ orphan = {} /\ missed = {}

TypeOK ==
    /\ pc \in PC /\ ret \in {"wait", "parser"} /\ sendonly \in BOOLEAN
    /\ olist \in Seq(Outgoing) /\ nprop \in 0..Len(olist)
    /\ del \subseteq Outgoing /\ unsent \subseteq 1..Len(olist)
    /\ iprops \in Seq(Msg) /\ todo \subseteq 1..Len(iprops)
    /\ outbox \subseteq Outgoing /\ mailbox \in [Msg -> Nat]
    /\ settled \subseteq Outgoing
    /\ middb \subseteq Msg /\ old \subseteq middb
    /\ orphan \subseteq Msg /\ missed \subseteq Msg
    /\ rx \in Seq(Line) /\ tx \in Seq(Line) /\ ahead \in Nat
    /\ link \in {"up", "closed"} /\ faults \in 0..MaxFaults
    /\ pc = "record" => todo # {}

(* No message is listed twice: readdir() names each file once.               *)
Distinct == \A i, j \in 1..Len(olist) : olist[i] = olist[j] => i = j

(* The messages of this session that are not yet behind the list pointer are *)
(* all still in the outbox: an FS line longer than its block flags messages  *)
(* of later blocks, but dodelete() must not reach them.                      *)
UnansweredKept == InSession => \A i \in nprop+1 .. Len(olist) : olist[i] \in outbox
===============================================================================
