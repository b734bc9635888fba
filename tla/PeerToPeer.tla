------------------------------ MODULE PeerToPeer ------------------------------
(***************************************************************************)
(* A client (wl2k_exchange) and a daemon (wl2kd_exchange) of this package    *)
(* connected to each other, session after session, over a link that can     *)
(* drop.  The two endpoints are two instances of Exchange that share the     *)
(* link and whose rx and tx are crossed.                                     *)
(***************************************************************************)
EXTENDS Integers, Sequences, FiniteSets

CONSTANTS
    Msg, PROPLIMIT, Faults, MaxFaults,
    FromA,        \* composed at the client
    FromB,        \* composed at the daemon
    ForA,         \* those of FromB that p2p_qualify() passes for the client
    SendOnly, Buffered, Ax25      \* of the client; see Exchange

ASSUME PairAssumption ==
    /\ IsFiniteSet(Msg)
    /\ FromA \subseteq Msg /\ FromB \subseteq Msg /\ FromA \cap FromB = {}
    /\ ForA \subseteq FromB
    /\ PROPLIMIT \in Nat \ {0}
    /\ SendOnly \subseteq BOOLEAN
    /\ {Buffered, Ax25} \subseteq BOOLEAN
    /\ Faults \subseteq {"drop", "kill", "timeout", "mail", "reap", "db", "age", "unlink"}
    /\ MaxFaults \in Nat

VARIABLES
    pcA, retA, sendonlyA, olistA, npropA, delA, unsentA, ipropsA, todoA, aheadA,
    outboxA, middbA, oldA, mailboxA, settledA, orphanA, missedA,
    pcB, retB, sendonlyB, olistB, npropB, delB, unsentB, ipropsB, todoB, aheadB,
    outboxB, middbB, oldB, mailboxB, settledB, orphanB, missedB,
    toA, toB,     \* lines on their way
    link, faults

varsA == <<pcA, retA, sendonlyA, olistA, npropA, delA, unsentA, ipropsA, todoA,
           aheadA, outboxA, middbA, oldA, mailboxA, settledA, orphanA, missedA>>
varsB == <<pcB, retB, sendonlyB, olistB, npropB, delB, unsentB, ipropsB, todoB,
           aheadB, outboxB, middbB, oldB, mailboxB, settledB, orphanB, missedB>>
vars  == <<varsA, varsB, toA, toB, link, faults>>

A == INSTANCE Exchange WITH
       Outgoing <- FromA, Qualified <- FromA, Role <- "client", Login <- "none",
       pc <- pcA, ret <- retA, sendonly <- sendonlyA, olist <- olistA,
       nprop <- npropA, del <- delA, unsent <- unsentA, iprops <- ipropsA, todo <- todoA, ahead <- aheadA,
       outbox <- outboxA, middb <- middbA, old <- oldA, mailbox <- mailboxA,
       settled <- settledA, orphan <- orphanA, missed <- missedA,
       rx <- toA, tx <- toB

(* The daemon's standard input is a FILE that reads ahead, but it never      *)
(* waits on the descriptor.                                                  *)
B == INSTANCE Exchange WITH
       Outgoing <- FromB, Qualified <- ForA, Role <- "daemon",
       SendOnly <- {FALSE}, Buffered <- TRUE, Ax25 <- FALSE, Login <- "none",
       pc <- pcB, ret <- retB, sendonly <- sendonlyB, olist <- olistB,
       nprop <- npropB, del <- delB, unsent <- unsentB, iprops <- ipropsB, todo <- todoB, ahead <- aheadB,
       outbox <- outboxB, middb <- middbB, old <- oldB, mailbox <- mailboxB,
       settled <- settledB, orphan <- orphanB, missed <- missedB,
       rx <- toB, tx <- toA

-------------------------------------------------------------------------------
Init ==
    /\ A!HostInit /\ B!HostInit
    /\ toA = <<>> /\ toB = <<>> /\ link = "closed"
    /\ faults = MaxFaults

(* A session starts once both programs of the last one are gone.             *)
Connect ==
    /\ A!Start /\ B!Start
    /\ link' = "up"
    /\ toA' = B!Greeting /\ toB' = A!Greeting

(* The link goes down, and what was in flight is lost from some point on;    *)
(* what is already in a stdio buffer stays.                                  *)
Drop ==
    /\ A!Fault("drop")
    /\ pcA # "idle" \/ pcB # "idle"
    /\ link' = "closed"
    /\ \E n \in aheadA .. Len(toA) : toA' = SubSeq(toA, 1, n)
    /\ \E n \in aheadB .. Len(toB) : toB' = SubSeq(toB, 1, n)
    /\ UNCHANGED <<varsA, varsB>>

(* Neither program can go on before the other does.                          *)
BlockedA == IF pcA = "wait" THEN ~A!OnDescriptor
            ELSE A!AtRead /\ toA = <<>> /\ link = "up"
BlockedB == B!AtRead /\ toB = <<>> /\ link = "up"
Stalled  == BlockedA /\ BlockedB

(* Then it is the clock that ends the session.                               *)
StallEnds ==
    /\ Stalled
    /\ \/ A!WaitGivesUp /\ UNCHANGED varsB
       \/ B!Alarm /\ UNCHANGED varsA
    /\ UNCHANGED <<toA, toB, faults>>

WorkA   == A!Work /\ UNCHANGED varsB
WorkB   == B!Work /\ UNCHANGED varsA
MishapA == A!Mishap /\ UNCHANGED varsB
MishapB == B!Mishap /\ UNCHANGED varsA

Next == Connect \/ WorkB \/ WorkA \/ MishapB \/ MishapA \/ Drop \/ StallEnds

Spec == Init /\ [][Next]_vars

(* Both programs run, alarms go off, and sessions are started again; no      *)
(* fault is ever obliged to happen.                                          *)
Fairness == WF_vars(WorkA) /\ WF_vars(WorkB) /\ WF_vars(StallEnds)
FairSpec == Spec /\ Fairness /\ WF_vars(Connect)

-------------------------------------------------------------------------------
TypeOK == A!TypeOK /\ B!TypeOK

DeliveredAtA == {m \in Msg : mailboxA[m] > 0}
DeliveredAtB == {m \in Msg : mailboxB[m] > 0}

(* No message is lost: one that is gone from the sender's outbox has been    *)
(* handed to sendmail at the other end, whatever went wrong in between,      *)
(* unless the other end took an error for a delivery: check_mid() failed, or *)
(* the status of a sendmail that failed was lost.                            *)
NoLoss ==
    /\ FromA \subseteq outboxA \cup DeliveredAtB \cup missedB
    /\ FromB \subseteq outboxB \cup DeliveredAtA \cup missedA

(* No message is delivered twice, if nothing but the link and sendmail fail. *)
AtMostOnce == \A m \in Msg : mailboxA[m] =< 1 /\ mailboxB[m] =< 1

(* No message is delivered twice unless a copy of it was delivered without   *)
(* its MID being stored (a crash or error between sendmail and record_mid),  *)
(* or the MID had expired.                                                   *)
NoDuplicate ==
    /\ \A m \in Msg : mailboxA[m] > 1 => m \in orphanA
    /\ \A m \in Msg : mailboxB[m] > 1 => m \in orphanB

(* A MID in the database was composed here or delivered here, or its         *)
(* delivery failed unnoticed: the proposal recorded (ipropary[i].mid) is the *)
(* message the peer transmitted.                                             *)
RecordedIsDelivered ==
    /\ middbA \subseteq FromA \cup DeliveredAtA \cup missedA
    /\ middbB \subseteq FromB \cup DeliveredAtB \cup missedB

(* The line is half-duplex: what a program writes is never written while     *)
(* something it has not read is on its way to it.                            *)
HalfDuplex == link = "up" => toA = <<>> \/ toB = <<>>

(* The two programs wait for each other in one case only: the client has     *)
(* read the daemon's next command together with an FS line that refused      *)
(* everything it proposed, and now waits for the descriptor to bring what is *)
(* already in its buffer.  Such a block was taken by the daemon in an        *)
(* earlier session, so a session that meets no fault never stalls.           *)
StallIsReadAhead ==
    Stalled =>
      /\ pcA = "wait" /\ aheadA = Len(toA) /\ aheadA > 0
      /\ \A i \in 1..npropA : olistA[i] \in DeliveredAtB \cup missedB
      /\ faults < MaxFaults

(* A session that meets no fault empties both outboxes of all they may send. *)
CleanSessionDrains ==
    link = "closed" /\ olistA # <<>> /\ faults = MaxFaults /\ pcA = "idle" /\ pcB = "idle"
      => outboxA = {} /\ outboxB \cap ForA = {}

(* Every session comes to an end.                                            *)
SessionEnds == link = "up" ~> pcA = "idle" /\ pcB = "idle"

(* If sessions go on being started, every message gets through and leaves    *)
(* the outbox it was sent from.                                              *)
Drained ==
    <>[](/\ outboxA = {} /\ outboxB \cap ForA = {}
         /\ FromA \subseteq DeliveredAtB /\ ForA \subseteq DeliveredAtA)

(* A client that gives up on a stalled session (wl2ktelnet) does so before   *)
(* it has unlinked what was refused; then the next session may stall again.  *)
DrainedOrStalls == Drained \/ []<>Stalled

(* A client that is started with -s now and then still gets all its own mail *)
(* out, although such a session is broken off if the daemon has mail for it. *)
OwnMailDrained == <>[](outboxA = {} /\ FromA \subseteq DeliveredAtB \cup missedB)

(* A session with -s takes nothing: no message is delivered to the client    *)
(* and the daemon unlinks none of those that are waiting for it.             *)
NothingTaken ==
    [][sendonlyA => UNCHANGED <<mailboxA, outboxB>>]_vars

-------------------------------------------------------------------------------
(* Both directions implement the abstract transfer.                          *)
TransferAB == INSTANCE MailTransfer WITH
    Mail <- FromA, pending <- outboxA, delivered <- DeliveredAtB \cap FromA
TransferBA == INSTANCE MailTransfer WITH
    Mail <- ForA, pending <- outboxB \cap ForA, delivered <- DeliveredAtA \cap ForA
Implements == TransferAB!Spec /\ TransferBA!Spec
===============================================================================
