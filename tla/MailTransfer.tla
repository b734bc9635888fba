------------------------------ MODULE MailTransfer ------------------------------
(***************************************************************************)
(* What a store-and-forward mail exchange promises in one direction: every   *)
(* message is handed over while its sender still has it, and only a message  *)
(* that was handed over is removed at the sender.                            *)
(***************************************************************************)
CONSTANT Mail
VARIABLES pending,      \* messages the sender still holds
          delivered     \* messages the receiver has passed on

Init == pending = Mail /\ delivered = {}

HandOver(m) ==
    /\ m \in pending \ delivered
    /\ delivered' = delivered \cup {m}
    /\ UNCHANGED pending

Remove(S) ==
    /\ S \subseteq pending \cap delivered
    /\ pending' = pending \ S
    /\ UNCHANGED delivered

Next == (\E m \in Mail : HandOver(m)) \/ (\E S \in SUBSET Mail : Remove(S))

Spec == Init /\ [][Next]_<<pending, delivered>>
===============================================================================
