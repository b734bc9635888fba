-------------------------------- MODULE Dialogue --------------------------------
(***************************************************************************)
(* An endpoint (Exchange) whose peer is another endpoint of this package:    *)
(* what their session keeps to, seen from one of them.  PeerToPeerProofs     *)
(* takes it once from the client and once from the daemon, so that only the  *)
(* steps of one need be looked at here.                                      *)
(***************************************************************************)
EXTENDS Exchange

CONSTANTS OutgoingP, QualifiedP, SendOnlyP, BufferedP, Ax25P      \* the peer's

VARIABLES
    pcP, retP, sendonlyP, olistP, npropP, delP, unsentP, ipropsP, todoP, aheadP,
    outboxP, middbP, oldP, mailboxP, settledP, orphanP, missedP

varsP == <<pcP, retP, sendonlyP, olistP, npropP, delP, unsentP, ipropsP, todoP, aheadP,
           outboxP, middbP, oldP, mailboxP, settledP, orphanP, missedP>>

RoleP == IF Role = "client" THEN "daemon" ELSE "client"

P == INSTANCE Exchange WITH
       Outgoing <- OutgoingP, Qualified <- QualifiedP, SendOnly <- SendOnlyP,
       Buffered <- BufferedP, Ax25 <- Ax25P, Role <- RoleP,
       pc <- pcP, ret <- retP, sendonly <- sendonlyP, olist <- olistP, nprop <- npropP,
       del <- delP, unsent <- unsentP, iprops <- ipropsP, todo <- todoP, ahead <- aheadP,
       outbox <- outboxP, middb <- middbP, old <- oldP, mailbox <- mailboxP,
       settled <- settledP, orphan <- orphanP, missed <- missedP, rx <- tx, tx <- rx

(* The mail from the peer to here, and the mail from here to the peer.       *)
In == INSTANCE Turn WITH
        RoleR <- Role, OutgoingW <- OutgoingP,
        pcW <- pcP, olistW <- olistP, npropW <- npropP, delW <- delP, unsentW <- unsentP,
        ipropsW <- ipropsP, outboxW <- outboxP,
        pcR <- pc, olistR <- olist, npropR <- nprop, unsentR <- unsent, ipropsR <- iprops,
        todoR <- todo, sendonlyR <- sendonly, mailboxR <- mailbox, missedR <- missed,
        forth <- rx, back <- tx
Out == INSTANCE Turn WITH
        RoleR <- RoleP, OutgoingW <- Outgoing,
        pcW <- pc, olistW <- olist, npropW <- nprop, delW <- del, unsentW <- unsent,
        ipropsW <- iprops, outboxW <- outbox,
        pcR <- pcP, olistR <- olistP, npropR <- npropP, unsentR <- unsentP,
        ipropsR <- ipropsP, todoR <- todoP, sendonlyR <- sendonlyP, mailboxR <- mailboxP,
        missedR <- missedP,
        forth <- tx, back <- rx

(* What the two endpoints are.                                               *)
Paired ==
    /\ P!ConstantsAssumption /\ Login = "none"
    /\ Outgoing \cap OutgoingP = {}

(* What holds of each of them by itself.                                     *)
Sound ==
    /\ TypeOK /\ P!TypeOK
    /\ Distinct /\ P!Distinct
    /\ UnansweredKept /\ P!UnansweredKept

(* They are in one of the phases of a session as long as the link is up, and *)
(* never talk at the same time.                                              *)
Session ==
    /\ link = "up" => In!Talk \/ Out!Talk
    /\ In!Forth /\ In!Back /\ Out!Forth /\ Out!Back
    /\ rx = <<>> \/ tx = <<>>

-------------------------------------------------------------------------------
(* What was delivered here is in the MID database or explains itself, and    *)
(* what is still to be received is not in it.                                *)
Stored ==
    /\ \A m \in Msg : mailbox[m] > 0 =>
          \/ m \in middb \cup orphan
          \/ pc = "record" /\ \E i \in NextOf(todo) : m = iprops[i]
    /\ \A m \in Msg : mailbox[m] > 1 => m \in orphan
    /\ pc \in {"receive", "record"} => \A i \in In!Rest : iprops[i] \notin middb

(* What is in the MID database, or is about to be, was composed here or      *)
(* counts as delivered here.                                                 *)
Recorded ==
    /\ middb \subseteq Outgoing \cup In!TakenR
    /\ pc = "record" => \A i \in NextOf(todo) : iprops[i] \in In!TakenR
===============================================================================
