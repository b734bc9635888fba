---------------------------------- MODULE Turn ----------------------------------
(***************************************************************************)
(* One direction of the mail between two endpoints of this package           *)
(* (Exchange): from W, which proposes and transmits, to R, which answers and *)
(* receives.  What one of them is doing, together with what is on its way,   *)
(* says what the other one may be doing; ExchangeProofs shows that each step *)
(* of either of them keeps to that.                                          *)
(***************************************************************************)
EXTENDS Integers, Sequences, FiniteSets

CONSTANTS Msg, PROPLIMIT, RoleR, OutgoingW

VARIABLES
    pcW, olistW, npropW, delW, unsentW, ipropsW, outboxW,
    pcR, olistR, npropR, unsentR, ipropsR, todoR, sendonlyR, mailboxR, missedR,
    forth, back,       \* lines on their way to R and to W
    link

(* The size of the next block of a list, and its k-th proposal.              *)
SizeOf(olist, nprop) == IF Len(olist) - nprop < PROPLIMIT THEN Len(olist) - nprop
                        ELSE PROPLIMIT
Size        == SizeOf(olistW, npropW)
Proposed(k) == olistW[npropW + k]

(* What R has accepted and not read yet.                                     *)
First(S) == {i \in S : \A j \in S : i =< j}
Rest     == IF pcR = "record" THEN todoR \ First(todoR) ELSE todoR

(* The lines of q are the messages of the proposals p[i], one for each i in  *)
(* S but the last ones, those in late, and in order.                         *)
Carries(q, p, S, late) ==
    /\ late \subseteq S
    /\ \A i \in S \ late, j \in late : i < j
    /\ \E f \in [1..Len(q) -> S \ late] :
          /\ \A k \in 1..Len(q) : q[k] = [t |-> "DATA", m |-> p[f[k]]]
          /\ \A k, l \in 1..Len(q) : k < l => f[k] < f[l]
          /\ \A i \in S \ late : \E k \in 1..Len(q) : f[k] = i

OneToOne(p) == \A i, j \in 1..Len(p) : p[i] = p[j] => i = j

-------------------------------------------------------------------------------
(* The phases of a session whose link is up.                                 *)

(* The client reads the daemon's greeting, and has said nothing.             *)
Greets ==
    /\ RoleR = "client" /\ pcR \in {"greet", "sid"} /\ pcW = "greet"
    /\ ipropsW = <<>> /\ ipropsR = <<>> /\ back = <<>>
    /\ forth # <<>> /\ forth[Len(forth)].t = ">"
    /\ \A k \in 1 .. Len(forth) - 1 : forth[k].t \in {"SID", "?"}

(* W has sent a block of proposals, or FF, and R has not read all of it: in  *)
(* front of it may be what W said before.                                    *)
Asked  == IF pcW = "answer" THEN Size ELSE 0
Before == Len(forth) - 1 - Asked + Len(ipropsR)

Reached ==
    \/ pcR = "parser" /\ Before = 0
    \/ /\ pcR \in {"send", "wait"} /\ Before = 0 /\ ipropsR = <<>>
       /\ pcR = "send" => unsentR = {}
    \/ /\ pcR = "answer" /\ Before = 1 /\ ipropsR = <<>>
       /\ forth[1] = [t |-> "FS", ans |-> [k \in 1..SizeOf(olistR, npropR) |-> "N"]]
    \/ /\ pcR = "greet" /\ RoleR = "daemon" /\ Before > 0 /\ ipropsR = <<>>
       /\ forth[Before].t = "SID"
       /\ \A k \in 1 .. Before - 1 : forth[k].t = "QTC"

Commands ==
    /\ pcW \in {"answer", "wait", "parser"} /\ ipropsW = <<>> /\ back = <<>>
    /\ pcW = "answer" => Size > 0
    /\ Len(ipropsR) =< Asked
    /\ \A k \in 1..Len(ipropsR) : ipropsR[k] = Proposed(k)
    /\ \A k \in Len(ipropsR)+1 .. Asked :
          forth[Before + k - Len(ipropsR)] = [t |-> "FC", m |-> Proposed(k)]
    /\ forth # <<>>
    /\ forth[Len(forth)].t = IF pcW = "answer" THEN "F>" ELSE "FF"
    /\ Reached

(* R has all the proposals of the block, has answered it, and still takes    *)
(* the messages.                                                             *)
Complete ==
    /\ Size > 0 /\ Len(ipropsR) = Size
    /\ \A k \in 1..Size : ipropsR[k] = Proposed(k)

Transmits ==
    /\ pcR \in {"receive", "record"} /\ ipropsW = <<>> /\ OneToOne(ipropsR)
    /\ \/ /\ pcW = "answer" /\ pcR = "receive" /\ Complete /\ forth = <<>>
          /\ back = <<[t |-> "FS",
                       ans |-> [k \in 1..Size |-> IF k \in todoR THEN "Y" ELSE "N"]]>>
       \/ /\ pcW = "send" /\ Complete /\ back = <<>>
          /\ unsentW \subseteq npropW+1 .. npropW+Size
          /\ Carries(forth, ipropsR, Rest, {i \in 1..Size : npropW + i \in unsentW})
       \/ /\ pcW \in {"wait", "parser"} /\ back = <<>>
          /\ Carries(forth, ipropsR, Rest, {})

(* R, which only sends, has answered the block with FF.                      *)
Declined ==
    /\ sendonlyR
    /\ pcW = "answer" /\ ipropsW = <<>> /\ back = <<[t |-> "FF"]>>
    /\ pcR = "parser" /\ OneToOne(ipropsR) /\ forth = <<>>

Talk == Greets \/ Commands \/ Transmits \/ Declined

-------------------------------------------------------------------------------
(* What R and W may count on of the lines on their way to them, whether the  *)
(* link is up, or gone together with the last of the lines.                  *)

Told == {"SID", "?", ">", "QTC", "FC", "F>", "FF", "FQ", "FS"}

Forth ==
    pcR # "idle" =>
      /\ pcR \in {"greet", "sid", "answer", "send", "wait", "parser", "receive", "record"}
      /\ IF pcR \in {"receive", "record"}
         THEN \E late \in SUBSET Rest : Carries(forth, ipropsR, Rest, late)
         ELSE \A k \in 1..Len(forth) : forth[k].t \in Told
      /\ \A k \in 1..Len(forth) : forth[k].t = "F>" => k = Len(forth)
      /\ OneToOne(ipropsR)
      /\ \A k \in 1..Len(forth) : forth[k].t = "FC" =>
            /\ \A l \in 1..Len(forth) : forth[l].t = "FC" /\ forth[k].m = forth[l].m => k = l
            /\ \A i \in 1..Len(ipropsR) : forth[k].m # ipropsR[i]

Back ==
    /\ pcW = "send" /\ unsentW # {} => back = <<>>
    /\ \A k \in 1..Len(back) : pcW # "idle" /\ back[k].t = "FS" =>
          /\ pcW = "answer" /\ k = 1
          /\ back[k].ans \in [1..Size -> {"Y", "N"}]
          /\ Len(back) > 1 => \A j \in 1..Size : back[k].ans[j] = "N"

-------------------------------------------------------------------------------
(* The messages.                                                             *)

(* What R has delivered, and what it counts as delivered.                    *)
DeliveredR == {m \in Msg : mailboxR[m] > 0}
TakenR     == DeliveredR \cup missedR
InFlight   == {forth[k].m : k \in {j \in 1..Len(forth) : forth[j].t = "DATA"}}

(* What W has flagged is taken, or on its way, as long as the link is up;    *)
(* once W has a command to read, which may let it unlink, all is taken.      *)
Flagged ==
    /\ link = "up" => delW \subseteq TakenR \cup InFlight
    /\ pcW # "idle" /\ (\E k \in 1..Len(back) : back[k].t # "FS") => delW \subseteq TakenR

(* What R refuses was taken.                                                 *)
Refused ==
    pcW = "answer" /\ back # <<>> /\ back[1].t = "FS" =>
      \A k \in 1..Size : back[1].ans[k] = "N" => Proposed(k) \in TakenR

Safe ==
    /\ Flagged /\ Refused
    /\ OutgoingW \subseteq outboxW \cup TakenR
    /\ InFlight \subseteq outboxW

(* R takes nothing.                                                          *)
Untaken ==
    sendonlyR => /\ pcR \notin {"receive", "record"}
                 /\ delW = {} /\ pcW # "send"
                 /\ \A k \in 1..Len(back) : back[k].t # "FS"

-------------------------------------------------------------------------------
(* A session that meets no fault.                                            *)

(* The sum of a block, as in Exchange.                                       *)
Sum(s) == [m \in Msg |-> Cardinality({i \in 1..Len(s) : s[i] = m})]

(* What W says is what R goes on with: W ends its turn with FF only when its *)
(* list is at its end, and a block's sum is that of its proposals.           *)
Clean ==
    /\ RoleR = "client" /\ pcR = "greet" => \E k \in 1..Len(forth) : forth[k].t = "SID"
    /\ \A k \in 1..Len(forth) :
          /\ forth[k].t # "FQ"
          /\ forth[k].t = "FF" => pcW \in {"wait", "parser"} /\ npropW = Len(olistW)
          /\ forth[k].t = "F>" =>
                pcW = "answer" /\ forth[k].sum = Sum([i \in 1..Size |-> Proposed(i)])

(* W has said FQ and is gone, and R is about to hear it.                     *)
Parts ==
    /\ pcW = "idle" /\ pcR \in {"wait", "parser"} /\ npropR = Len(olistR)
    /\ forth = <<[t |-> "FQ"]>>
===============================================================================
