-------------------------------- MODULE AnyPeer --------------------------------
(***************************************************************************)
(* One endpoint (Exchange) against a peer of which nothing is assumed: it    *)
(* may send any line at any time, or hang up.  What holds here holds         *)
(* whatever gateway the program is connected to.                            *)
(***************************************************************************)
EXTENDS Exchange

CONSTANTS
    PeerLine,    \* the lines the peer may send
    MaxRx        \* bound: lines on their way to the program

ASSUME PeerAssumption == PeerLine \subseteq Line /\ MaxRx \in Nat

Init ==
    /\ HostInit
    /\ rx = <<>> /\ tx = <<>> /\ link = "closed"
    /\ faults = MaxFaults

Connect ==
    /\ Start
    /\ rx' = <<>> /\ tx' = Greeting /\ link' = "up"

(* What the program has said is read before the peer speaks.                 *)
PeerSends ==
    /\ link = "up" /\ Len(rx) < MaxRx
    /\ \E line \in PeerLine : rx' = Append(rx, line)
    /\ tx' = <<>>
    /\ UNCHANGED <<pc, ret, sendonly, outVars, inVars, dbVars, hostVars, link, ahead, faults>>

PeerHangsUp ==
    /\ link = "up"
    /\ link' = "closed"
    /\ UNCHANGED <<pc, ret, sendonly, outVars, inVars, dbVars, hostVars, rx, tx, ahead, faults>>

Next == Connect \/ Work \/ Mishap \/ PeerSends \/ PeerHangsUp

Spec == Init /\ [][Next]_vars

-------------------------------------------------------------------------------
(* A file leaves the outbox only if its message was sent in full or refused  *)
(* by the peer in an FS line (b2outboundproposal, dodelete).                 *)
OutboxKept == Outgoing \ outbox \subseteq settled

(* Deletion waits for the peer's next command: a batch is not deleted while  *)
(* it is transmitted nor while the program waits, only when the peer has     *)
(* come back with a proposal, FF, FQ or a prompt (dodelete's callers).       *)
DeletedOnCommand ==
    [][outbox' # outbox =>
         /\ pc = "parser" /\ rx # <<>> /\ rx' = Tail(rx)
         /\ Head(rx).t \in {"FC", "FCbad", "FF", "FQ"} \cup Unknown]_vars
===============================================================================
