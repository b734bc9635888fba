---------------------------- MODULE ExchangeProofs ----------------------------
(***************************************************************************)
(* What every step of an endpoint (Exchange) keeps whatever it is connected  *)
(* to: the types of its variables, the order of its list, and the files it   *)
(* has not proposed yet.  Then what Dialogue says of its session with        *)
(* another endpoint of this package, and at the end what holds against an    *)
(* arbitrary peer (AnyPeer), each for any messages, block size and number of *)
(* faults.  The first part is used by both others, which do not meet.        *)
(***************************************************************************)
EXTENDS Dialogue, AnyPeer, TLAPS, FiniteSetTheorems, SequenceTheorems

-------------------------------------------------------------------------------
(* Lemmas on the operators the actions are built from.                       *)

(* A line carries the fields its kind calls for.                             *)
LEMMA LineFields ==
    ASSUME NEW l \in Line
    PROVE  /\ l.t \in Kind
           /\ l.t \in {"FC", "DATA"} => l.m \in Msg
           /\ l.t = "FS" => l.ans \in Seq(Answer)
  BY DEF Line, Kind, Bare, Prompt

(* The checksum of a sequence of messages is a count for every message.      *)
LEMMA CksumType ==
    ASSUME NEW s, Len(s) \in Nat
    PROVE  Cksum(s) \in [Msg -> Nat]
  <1>1. ASSUME NEW m \in Msg
        PROVE  Cardinality({i \in 1..Len(s) : s[i] = m}) \in Nat
    <2>1. IsFiniteSet(1..Len(s))
      BY FS_Interval
    <2>2. IsFiniteSet({i \in 1..Len(s) : s[i] = m})
      BY <2>1, FS_Subset
    <2>3. QED
      BY <2>2, FS_CardinalityType
  <1>2. QED
    BY <1>1 DEF Cksum

(* What is read was a line, and what is left are lines (wl2kgetline).        *)
LEMMA ReadsType ==
    ASSUME TypeOK, NEW kinds, Reads(kinds)
    PROVE  /\ Head(rx) \in Line /\ Head(rx).t \in kinds
           /\ rx' \in Seq(Line) /\ ahead' \in Nat
  <1>1. rx \in Seq(Line) /\ rx # <<>> /\ ahead \in Nat
    BY DEF TypeOK, Reads
  <1>2. Head(rx) \in Line /\ rx' \in Seq(Line)
    BY <1>1, HeadTailProperties DEF Reads
  <1>3. Len(rx) \in Nat
    BY <1>1, LenProperties
  <1>4. ahead' \in Nat
    BY <1>1, <1>3 DEF Reads
  <1>5. QED
    BY <1>2, <1>4 DEF Reads

(* What is written are lines (fprintf, fflush).                              *)
LEMMA SaysType ==
    ASSUME TypeOK, NEW lines \in Seq(Line), Says(lines)
    PROVE  tx' \in Seq(Line)
  BY ConcatProperties DEF TypeOK, Says

(* So is a line that is no more than its kind.                              *)
LEMMA JustType ==
    ASSUME NEW kind \in Bare
    PROVE  Just(kind) \in Seq(Line)
  BY DEF Just, Line

(* A fault stays within its bound.                                           *)
LEMMA FaultType ==
    ASSUME TypeOK, NEW kind, Fault(kind)
    PROVE  faults' \in 0..MaxFaults
  BY ConstantsAssumption DEF TypeOK, Fault

(* A block is made of lines, and its proposals are in the list               *)
(* (b2outboundproposal).                                                     *)
LEMMA BatchType ==
    ASSUME TypeOK
    PROVE  /\ Remaining \in Nat /\ BatchSize \in Nat /\ BatchSize =< Remaining
           /\ nprop + Remaining = Len(olist) /\ nprop \in Nat
           /\ \A k \in 1..Remaining : olist[nprop + k] \in Outgoing
           /\ Block \in Seq(Line)
  <1>1. olist \in Seq(Outgoing) /\ nprop \in 0..Len(olist) /\ Len(olist) \in Nat
    BY LenProperties DEF TypeOK
  <1>2. /\ Remaining \in Nat /\ BatchSize \in Nat /\ BatchSize =< Remaining
        /\ nprop + Remaining = Len(olist) /\ nprop \in Nat
    BY <1>1, ConstantsAssumption DEF Remaining, BatchSize
  <1>3. \A k \in 1..Remaining : olist[nprop + k] \in Outgoing
    BY <1>1, <1>2, ElementOfSeq
  <1> DEFINE b == [k \in 1..BatchSize |-> olist[nprop + k]]
             fc == [k \in 1..BatchSize |-> [t |-> "FC", m |-> b[k]]]
             last == [t |-> "F>", sum |-> Cksum(b)]
  <1>4. b \in Seq(Msg)
    BY <1>2, <1>3, ConstantsAssumption, SeqDef
  <1>5. fc \in Seq(Line)
    <2>1. \A k \in 1..BatchSize : b[k] \in Msg
      BY <1>2, <1>3, ConstantsAssumption
    <2>2. \A k \in 1..BatchSize : [t |-> "FC", m |-> b[k]] \in Line
      BY <2>1 DEF Line
    <2>3. fc \in [1..BatchSize -> Line]
      BY <2>2
    <2>4. QED
      BY <2>3, <1>2, SeqDef
  <1>6. last \in Line
    <2>1. Cksum(b) \in [Msg -> Nat]
      BY <1>4, LenProperties, CksumType
    <2>2. QED
      BY <2>1 DEF Line
  <1>7. <<last>> \in Seq(Line)
    BY <1>6
  <1>8. Block \in Seq(Line)
    BY <1>5, <1>7, ConcatProperties DEF Block
  <1>9. QED
    BY <1>2, <1>3, <1>8

(* Whatever b2outboundproposal() says, it says in lines.                     *)
LEMMA B2OutType ==
    ASSUME TypeOK, NEW greeting \in Seq(Line), NEW last,
           NEW to \in {"wait", "parser"}, B2Out(greeting, last, to)
    PROVE  /\ tx' \in Seq(Line) /\ link' \in {"up", "closed"}
           /\ pc' \in PC \ {"record"} /\ ret' \in {"wait", "parser"}
           /\ UNCHANGED sendonly
  <1>1. /\ greeting \o Block \in Seq(Line)
        /\ greeting \o Just("FF") \in Seq(Line)
        /\ greeting \o Just("FQ") \in Seq(Line)
    BY BatchType, JustType, ConcatProperties DEF Bare
  <1>2. tx' \in Seq(Line)
    BY <1>1, SaysType DEF B2Out
  <1>3. QED
    BY <1>2 DEF B2Out, Exit, PC, TypeOK

(* dodelete() changes the outbox and the flags, not the list.                *)
LEMMA DoDeleteType ==
    ASSUME TypeOK, DoDelete
    PROVE  /\ outbox' \subseteq Outgoing /\ del' \subseteq Outgoing
           /\ faults' \in 0..MaxFaults
           /\ UNCHANGED <<olist, nprop, unsent>>
  BY FaultType DEF DoDelete, TypeOK

(* The answers of an FS line concern messages of the list.                   *)
LEMMA HeardAsType ==
    ASSUME TypeOK, NEW ans, NEW letters
    PROVE  HeardAs(ans, letters) \subseteq Outgoing
  BY BatchType DEF HeardAs

(* Whatever order readdir() gives, the list holds messages of the outbox.    *)
LEMMA ListingType ==
    ASSUME TypeOK, olist' \in Listings(Listed)
    PROVE  olist' \in Seq(Outgoing) /\ 0 \in 0..Len(olist')
  <1>1. Listed \subseteq Outgoing /\ IsFiniteSet(Listed)
    BY ConstantsAssumption, FS_Subset DEF Listed, TypeOK
  <1>2. Cardinality(Listed) \in Nat
    BY <1>1, FS_CardinalityType
  <1>3. olist' \in [1..Cardinality(Listed) -> Outgoing]
    BY <1>1 DEF Listings
  <1>4. olist' \in Seq(Outgoing)
    BY <1>2, <1>3, SeqDef
  <1>5. QED
    BY <1>4, LenProperties

-------------------------------------------------------------------------------
(* Every step of the program keeps the types.  The steps that read a line    *)
(* and change nothing but pc.                                                *)
LEMMA ReadOnlySteps ==
    ASSUME TypeOK,
           \/ GreetIgnored \/ GreetSID \/ GreetError
           \/ AnswerSkip \/ AnswerError
           \/ ParseComment \/ ParseB \/ ParseUnrecognized
           \/ ParseBlockMismatch \/ ReceiveError
    PROVE  TypeOK'
  <1> DEFINE Kept == UNCHANGED <<ret, sendonly, outVars, inVars, dbVars, hostVars, tx, faults>>
  <1>1. Kept /\ rx' \in Seq(Line) /\ ahead' \in Nat
    BY ReadsType DEF GreetIgnored, GreetSID, GreetError, AnswerSkip,
         AnswerError, ParseComment, ParseB, ParseUnrecognized, ParseBlockMismatch,
         ReceiveError
  <1>2. pc' \in PC \ {"record"} /\ link' \in {"up", "closed"}
    BY DEF TypeOK, PC, Exit, GreetIgnored, GreetSID, GreetError,
         AnswerSkip, AnswerError, ParseComment, ParseB, ParseUnrecognized,
         ParseBlockMismatch, ReceiveError
  <1>3. QED
    BY <1>1, <1>2 DEF TypeOK, outVars, inVars, dbVars, hostVars

(* Those that send a block, FF or FQ.                                        *)
LEMMA TurnSteps ==
    ASSUME TypeOK,
           \/ GreetPrompt \/ ParseFF \/ ParsePrompt \/ ParseBlockSendOnly \/ BlockDone
    PROVE  TypeOK'
  <1>1. CASE GreetPrompt
    <2>1. Just("QTC") \o Just("SID") \in Seq(Line)
      BY JustType, ConcatProperties DEF Bare
    <2>2. QED
      BY <1>1, <2>1, ReadsType, B2OutType
         DEF GreetPrompt, TypeOK, outVars, inVars, dbVars, hostVars
  <1>2. CASE ParseFF
    BY <1>2, ReadsType, B2OutType, DoDeleteType, EmptySeq
       DEF ParseFF, TypeOK, inVars, dbVars
  <1>3. CASE ParsePrompt
    BY <1>3, ReadsType, B2OutType, DoDeleteType, EmptySeq
       DEF ParsePrompt, TypeOK, inVars, dbVars
  <1>4. CASE ParseBlockSendOnly
    BY <1>4, ReadsType, SaysType, JustType
       DEF ParseBlockSendOnly, TypeOK, Bare, outVars, inVars, dbVars, hostVars
  <1>5. CASE BlockDone
    BY <1>5, B2OutType, EmptySeq
       DEF BlockDone, TypeOK, outVars, dbVars, hostVars
  <1>6. QED
    BY <1>1, <1>2, <1>3, <1>4, <1>5

(* Those that transmit.                                                      *)
LEMMA SendSteps ==
    ASSUME TypeOK, AnswerFS \/ PutCompressed \/ BatchDone
    PROVE  TypeOK'
  <1>1. CASE AnswerFS
    <2> DEFINE refused == HeardAs(Head(rx).ans, {"N"})
               flagged == (del \ HeardAs(Head(rx).ans, Answer)) \cup refused
    <2>1. refused \subseteq Outgoing /\ flagged \subseteq Outgoing
      BY HeardAsType DEF TypeOK
    <2>2. /\ UNCHANGED <<olist, nprop>>
          /\ del' = del \/ del' = flagged
          /\ settled' = settled \/ settled' = settled \cup refused
          /\ \/ unsent' = unsent
             \/ unsent' = {i \in nprop+1 .. nprop+BatchSize : olist[i] \notin flagged}
      BY <1>1 DEF AnswerFS, outVars
    <2>3. pc' \in {"idle", "send"} /\ (link' = "closed" \/ link' = link)
      BY <1>1 DEF AnswerFS, Exit
    <2>4. nprop+1 .. nprop+BatchSize \subseteq 1..Len(olist)
      BY BatchType
    <2>5. unsent' \subseteq 1..Len(olist)
      BY <2>2, <2>4 DEF TypeOK
    <2>6. rx' \in Seq(Line) /\ ahead' \in Nat
      BY <1>1, ReadsType DEF AnswerFS
    <2>7. UNCHANGED <<ret, sendonly, inVars, dbVars, outbox, mailbox, tx, faults>>
      BY <1>1 DEF AnswerFS
    <2>8. QED
      BY <2>1, <2>2, <2>3, <2>5, <2>6, <2>7 DEF TypeOK, PC, inVars, dbVars
  <1>2. CASE PutCompressed
    <2>1. PICK i \in NextOf(unsent) :
             /\ Says(<<[t |-> "DATA", m |-> olist[i]]>>)
             /\ unsent' = unsent \ {i}
             /\ del' = del \cup {olist[i]}
             /\ settled' = settled \cup {olist[i]}
      BY <1>2 DEF PutCompressed
    <2>2. olist[i] \in Outgoing
      BY <2>1, ElementOfSeq DEF NextOf, TypeOK
    <2>3. <<[t |-> "DATA", m |-> olist[i]]>> \in Seq(Line)
      BY <2>2, ConstantsAssumption DEF Line
    <2>4. tx' \in Seq(Line)
      BY <2>1, <2>3, SaysType
    <2>5. QED
      BY <1>2, <2>1, <2>2, <2>4 DEF PutCompressed, TypeOK, inVars, dbVars
  <1>3. CASE BatchDone
    <2>1. nprop' \in 0..Len(olist)
      BY <1>3, BatchType DEF BatchDone
    <2>2. pc' \in {"wait", "parser"}
      BY <1>3 DEF BatchDone, TypeOK
    <2>3. UNCHANGED <<ret, sendonly, olist, del, unsent, inVars, dbVars, hostVars, netVars, faults>>
      BY <1>3 DEF BatchDone
    <2>4. QED
      BY <2>1, <2>2, <2>3 DEF TypeOK, PC, inVars, dbVars, hostVars, netVars
  <1>4. QED
    BY <1>1, <1>2, <1>3

(* Those that receive.                                                       *)
LEMMA ReceiveSteps ==
    ASSUME TypeOK,
           ParseFC \/ ParseFQ \/ ParseBlock \/ Receive \/ Record
    PROVE  TypeOK'
  <1>1. CASE ParseFC
    <2> DEFINE m == Head(rx).m
    <2>a. Reads({"FC", "FCbad"}) /\ todo' = todo /\ pc = "parser"
      BY <1>1 DEF ParseFC
    <2>b. Head(rx).t = "FC" => m \in Msg
      BY <2>a, ReadsType, LineFields
    <2>c. /\ pc' \in PC \ {"record"} /\ link' \in {"up", "closed"}
          /\ iprops' = iprops \/ (Head(rx).t = "FC" /\ iprops' = Append(iprops, m))
      BY <1>1 DEF ParseFC, TypeOK, Exit, PC
    <2>1. iprops' \in Seq(Msg) /\ todo' \subseteq 1..Len(iprops')
      <3>1. CASE iprops' = iprops
        BY <3>1, <2>a DEF TypeOK
      <3>2. CASE Head(rx).t = "FC" /\ iprops' = Append(iprops, m)
        <4>1. m \in Msg /\ iprops \in Seq(Msg) /\ todo \subseteq 1..Len(iprops)
          BY <3>2, <2>b DEF TypeOK
        <4>2. iprops' \in Seq(Msg) /\ Len(iprops') = Len(iprops) + 1
          BY <4>1, <3>2
        <4>3. QED
          BY <4>1, <4>2, <2>a, LenProperties
      <3>3. QED
        BY <3>1, <3>2, <2>c
    <2>2. QED
      BY <1>1, <2>a, <2>c, <2>1, ReadsType, DoDeleteType DEF ParseFC, TypeOK, dbVars
  <1>2. CASE ParseFQ
    BY <1>2, ReadsType, DoDeleteType DEF ParseFQ, TypeOK, Exit, PC, inVars, dbVars
  <1>3. CASE ParseBlock
    <2> DEFINE checked(f) == (1..Len(iprops)) \ f
               expired(f) == old \cap {iprops[i] : i \in checked(f)}
               answers(f) == [i \in 1..Len(iprops) |->
                                IF i \in Fresh(checked(f)) THEN "Y" ELSE "N"]
               said(f) == IF iprops = <<>> THEN <<>>
                          ELSE <<[t |-> "FS", ans |-> answers(f)]>>
    <2>1. PICK f \in SUBSET (1..Len(iprops)) :
             /\ IF f = {} THEN UNCHANGED faults ELSE Fault("db")
             /\ middb' = middb \ expired(f) /\ old' = old \ expired(f)
             /\ orphan' = orphan \cup expired(f)
             /\ missed' = missed \cup ({iprops[i] : i \in f} \ middb)
             /\ todo' = Fresh(checked(f))
             /\ Says(said(f))
      BY <1>3 DEF ParseBlock
    <2>2. said(f) \in Seq(Line)
      <3>1. Len(iprops) \in Nat
        BY LenProperties DEF TypeOK
      <3>2. answers(f) \in Seq(Answer)
        BY <3>1, SeqDef DEF Answer
      <3>3. [t |-> "FS", ans |-> answers(f)] \in Line
        BY <3>2 DEF Line
      <3>4. QED
        BY <3>3
    <2>3. tx' \in Seq(Line)
      BY <2>1, <2>2, SaysType
    <2>4. faults' \in 0..MaxFaults
      BY <2>1, FaultType DEF TypeOK
    <2>5. todo' \subseteq 1..Len(iprops) /\ old' \subseteq middb' /\ middb' \subseteq Msg
          /\ orphan' \subseteq Msg
      BY <2>1 DEF TypeOK, Fresh
    <2>5a. missed' \subseteq Msg
      <3>1. \A i \in f : iprops[i] \in Msg
        BY ElementOfSeq DEF TypeOK
      <3>2. QED
        BY <2>1, <3>1 DEF TypeOK
    <2>6. QED
      BY <1>3, <2>3, <2>4, <2>5, <2>5a, ReadsType
         DEF ParseBlock, TypeOK, PC, outVars, hostVars
  <1>4. CASE Receive
    <2>1. Head(rx).m \in Msg
      BY <1>4, ReadsType, LineFields DEF Receive
    <2>a. [mailbox EXCEPT ![Head(rx).m] = @ + 1] \in [Msg -> Nat]
      BY <2>1 DEF TypeOK
    <2>2. /\ mailbox' \in [Msg -> Nat] /\ pc' \in {"record", "idle"}
          /\ link' \in {"up", "closed"} /\ todo # {}
      <3>1. mailbox' = [mailbox EXCEPT ![Head(rx).m] = @ + 1] \/ mailbox' = mailbox
        BY <1>4 DEF Receive
      <3>2. pc' \in {"record", "idle"} /\ (link' = link \/ link' = "closed") /\ todo # {}
        BY <1>4 DEF Receive, Exit
      <3>3. QED
        BY <3>1, <3>2, <2>a DEF TypeOK
    <2>3. faults' \in 0..MaxFaults
      BY <1>4, FaultType DEF Receive, TypeOK
    <2>4. missed' \subseteq Msg
      BY <1>4, <2>1 DEF Receive, TypeOK
    <2>5. QED
      BY <1>4, <2>2, <2>3, <2>4, ReadsType DEF Receive, TypeOK, PC, outVars, inVars
  <1>5. CASE Record
    <2>1. PICK i \in NextOf(todo) :
             /\ todo' = todo \ {i}
             /\ \/ /\ middb' = middb \cup {iprops[i]} /\ old' = old \ {iprops[i]}
                   /\ UNCHANGED <<orphan, faults>>
                \/ /\ Fault("db")
                   /\ orphan' = orphan \cup {iprops[i]}
                   /\ UNCHANGED <<middb, old>>
      BY <1>5 DEF Record
    <2>2. iprops[i] \in Msg
      BY <2>1, ElementOfSeq DEF NextOf, TypeOK
    <2>3. middb' \subseteq Msg /\ old' \subseteq middb' /\ orphan' \subseteq Msg
      BY <2>1, <2>2 DEF TypeOK
    <2>4. faults' \in 0..MaxFaults
      BY <2>1, FaultType DEF TypeOK
    <2>5. QED
      BY <1>5, <2>1, <2>3, <2>4 DEF Record, TypeOK, PC, outVars, hostVars, netVars
  <1>6. QED
    BY <1>1, <1>2, <1>3, <1>4, <1>5

(* Those that wait, and those that stop.                                     *)
LEMMA OtherSteps ==
    ASSUME TypeOK, WaitReadable \/ EndOfFile \/ Mishap
    PROVE  TypeOK'
  <1>1. CASE WaitReadable
    BY <1>1 DEF WaitReadable, TypeOK, PC, outVars, inVars, dbVars, hostVars, netVars
  <1>2. CASE EndOfFile
    BY <1>2 DEF EndOfFile, Exit, TypeOK, PC, outVars, inVars, dbVars, hostVars
  <1>3. CASE Mishap
    <2>1. ASSUME Die PROVE orphan' \subseteq Msg
      <3>1. \A i \in NextOf(todo) : iprops[i] \in Msg
        BY ElementOfSeq DEF TypeOK, NextOf
      <3>2. QED
        BY <2>1, <3>1 DEF Die, TypeOK
    <2>2. ASSUME Die, faults' \in 0..MaxFaults PROVE TypeOK'
      BY <2>1, <2>2 DEF Die, Exit, TypeOK, PC, outVars, inVars, hostVars
    <2>3. CASE Kill
      BY <2>2, <2>3, FaultType DEF Kill
    <2>4. CASE Age
      BY <2>4, FaultType DEF Age, TypeOK, outVars, inVars, hostVars, netVars
    <2>5. CASE Alarm /\ Fault("timeout")
      BY <2>2, <2>5, FaultType DEF Alarm
    <2>6. CASE WaitGivesUp /\ Fault("timeout")
      BY <2>6, FaultType
         DEF WaitGivesUp, Exit, TypeOK, PC, outVars, inVars, dbVars, hostVars
    <2>7. QED
      BY <1>3, <2>3, <2>4, <2>5, <2>6 DEF Mishap, Late
  <1>4. QED
    BY <1>1, <1>2, <1>3

(* A session begins with fresh variables (wl2k_exchange, wl2kd_exchange).    *)
LEMMA BeginType ==
    ASSUME TypeOK, Begin,
           rx' \in Seq(Line), tx' \in Seq(Line), ahead' \in Nat,
           link' \in {"up", "closed"}
    PROVE  TypeOK'
  <1>1. olist' \in Seq(Outgoing) /\ 0 \in 0..Len(olist')
    BY ListingType DEF Begin
  <1>2. orphan' \subseteq Msg /\ old' \subseteq middb' /\ middb' \subseteq Msg
    BY DEF Begin, TypeOK
  <1>3. iprops' \in Seq(Msg) /\ todo' \subseteq 1..Len(iprops') /\ unsent' \subseteq 1..Len(olist')
    BY EmptySeq DEF Begin
  <1>4. QED
    BY <1>1, <1>2, <1>3, ConstantsAssumption DEF Begin, TypeOK, PC, hostVars

(* The start of the program: the login, if there is one, comes first.        *)
LEMMA StartType ==
    ASSUME TypeOK, Start,
           rx' \in Seq(Line), tx' \in Seq(Line), link' \in {"up", "closed"}
    PROVE  TypeOK'
  <1>1. CASE Begin
    BY <1>1, BeginType DEF Start
  <1>2. CASE /\ pc' = "login1"
             /\ UNCHANGED <<ret, sendonly, outVars, inVars, dbVars, hostVars, faults>>
    BY <1>2 DEF Start, TypeOK, PC, outVars, inVars, dbVars, hostVars
  <1>3. QED
    BY <1>1, <1>2 DEF Start

(* The login itself, at whose end the session begins.                        *)
LEMMA LoginSteps ==
    ASSUME TypeOK, LoginWaits \/ LoginAnswers \/ LoginDone
    PROVE  TypeOK'
  <1>1. Just(";") \in Seq(Line) /\ Just("?") \in Seq(Line) /\ <<>> \in Seq(Line)
    BY JustType, EmptySeq DEF Bare
  <1>2. rx' \in Seq(Line) /\ ahead' \in Nat
    BY ReadsType DEF LoginWaits, LoginAnswers, LoginDone
  <1>3. tx' \in Seq(Line)
    BY <1>1, SaysType DEF LoginWaits, LoginAnswers, LoginDone
  <1>4. CASE LoginWaits \/ LoginAnswers
    BY <1>2, <1>3, <1>4
       DEF LoginWaits, LoginAnswers, TypeOK, PC, outVars, inVars, dbVars, hostVars
  <1>5. CASE LoginDone
    <2>1. link' \in {"up", "closed"}
      BY <1>5 DEF LoginDone, TypeOK
    <2>2. QED
      BY <1>2, <1>3, <1>5, <2>1, BeginType DEF LoginDone
  <1>6. QED
    BY <1>4, <1>5

(* Every step of the program.                                                *)
LEMMA WorkSteps ==
    ASSUME TypeOK, Work
    PROVE  TypeOK'
  BY LoginSteps, ReadOnlySteps, TurnSteps, SendSteps, ReceiveSteps, OtherSteps DEF Work

-------------------------------------------------------------------------------
(* What leaves the outbox, and what stays in it.                             *)

(* Only dodelete() unlinks, and only what is flagged in front of the pointer.*)
LEMMA OutboxStep ==
    ASSUME Work \/ Mishap \/ Start
    PROVE  \/ outbox' = outbox
           \/ /\ ParseFC \/ ParseFF \/ ParseFQ \/ ParsePrompt
              /\ DoDelete
  BY DEF hostVars, Start, Begin, Mishap, Late, Kill, Age, Alarm, Die, WaitGivesUp, Work, LoginWaits, LoginAnswers, LoginDone,
       GreetIgnored, GreetSID, GreetPrompt, GreetError,
       AnswerSkip, AnswerFS, AnswerError, PutCompressed, BatchDone, WaitReadable,
       ParseComment, ParseFC, ParseFF, ParseFQ, ParseB, ParsePrompt, ParseUnrecognized,
       ParseBlockSendOnly, ParseBlockMismatch, ParseBlock, Receive, ReceiveError,
       Record, BlockDone, EndOfFile

(* The list is made once per session, and the pointer only moves forward.    *)
LEMMA ListStep ==
    ASSUME TypeOK, Work \/ Mishap \/ Start
    PROVE  \/ Begin
           \/ olist' = olist /\ nprop =< nprop' /\ (InSession' => InSession)
  <1> nprop \in Nat /\ BatchSize \in Nat
    BY BatchType
  <1>1. CASE AnswerFS
    BY <1>1 DEF InSession, AnswerFS, outVars
  <1>2. CASE PutCompressed \/ BatchDone
    BY <1>2 DEF InSession, PutCompressed, BatchDone
  <1>3. CASE ParseFC \/ ParseFF \/ ParseFQ \/ ParsePrompt
    BY <1>3 DEF InSession, ParseFC, ParseFF, ParseFQ, ParsePrompt, DoDelete
  <1>4. CASE \/ GreetIgnored \/ GreetSID \/ GreetPrompt \/ GreetError
             \/ AnswerSkip \/ AnswerError \/ WaitReadable \/ ParseComment \/ ParseB
             \/ ParseUnrecognized \/ ParseBlockSendOnly \/ ParseBlockMismatch
             \/ ParseBlock \/ Receive \/ ReceiveError \/ Record \/ BlockDone
             \/ EndOfFile
    <2>1. UNCHANGED outVars
      BY <1>4 DEF GreetIgnored, GreetSID, GreetPrompt, GreetError,
           AnswerSkip, AnswerError, WaitReadable, ParseComment, ParseB,
           ParseUnrecognized, ParseBlockSendOnly, ParseBlockMismatch, ParseBlock,
           Receive, ReceiveError, Record, BlockDone, EndOfFile
    <2>2. InSession \/ ~InSession'
      BY <1>4 DEF InSession, Exit, AtRead, Reading, GreetIgnored, GreetSID,
           GreetPrompt, GreetError, AnswerSkip, AnswerError, WaitReadable,
           ParseComment, ParseB, ParseUnrecognized, ParseBlockSendOnly,
           ParseBlockMismatch, ParseBlock, Receive, ReceiveError, Record, BlockDone,
           EndOfFile
    <2>3. QED
      BY <2>1, <2>2 DEF outVars
  <1>5. CASE Mishap
    BY <1>5 DEF InSession, outVars, Mishap, Late, Kill,
         Age, Alarm, Die, Exit, WaitGivesUp
  <1>6. CASE Start \/ LoginWaits \/ LoginAnswers \/ LoginDone
    <2>1. CASE Start
      BY <2>1 DEF InSession, outVars, Start
    <2>2. CASE LoginWaits \/ LoginAnswers
      <3>1. UNCHANGED outVars /\ ~InSession'
        BY <2>2 DEF InSession, LoginWaits, LoginAnswers
      <3>2. QED
        BY <3>1 DEF outVars
    <2>3. CASE LoginDone
      BY <2>3 DEF LoginDone
    <2>4. QED
      BY <1>6, <2>1, <2>2, <2>3
  <1>7. QED
    BY <1>1, <1>2, <1>3, <1>4, <1>5, <1>6 DEF Work

(* What is behind a pointer that has moved forward was behind it before.     *)
LEMMA LaterIndices ==
    \A low, high, len \in Nat : low =< high => high+1 .. len \subseteq low+1 .. len
  OBVIOUS

(* UnansweredKept is not inductive: dodelete() works by position, the outbox *)
(* is a set of messages, and only Distinct relates the two.                  *)
LEMMA UnansweredStep ==
    ASSUME TypeOK, TypeOK', Distinct, UnansweredKept, Work \/ Mishap \/ Start
    PROVE  Distinct' /\ UnansweredKept'
  <1>1. CASE Begin
    <2> DEFINE n == Cardinality(Listed)
    <2>1. IsFiniteSet(Listed) /\ Listed \subseteq outbox
      BY ConstantsAssumption, FS_Subset DEF Listed, TypeOK
    <2>2. n \in Nat
      BY <2>1, FS_CardinalityType
    <2>3. /\ olist' \in [1..n -> Listed]
          /\ \A i, j \in 1..n : olist'[i] = olist'[j] => i = j
          /\ nprop' = 0 /\ outbox' = outbox
      BY <1>1 DEF Begin, Listings, hostVars
    <2>4. Len(olist') = n
      BY <2>2, <2>3, LenProperties DEF TypeOK
    <2>5. Distinct'
      BY <2>3, <2>4 DEF Distinct
    <2>6. UnansweredKept'
      BY <2>1, <2>2, <2>3, <2>4 DEF UnansweredKept
    <2>7. QED
      BY <2>5, <2>6
  <1>2. CASE ~Begin
    <2>1. olist' = olist /\ nprop =< nprop' /\ (InSession' => InSession)
      BY <1>2, ListStep
    <2>2. nprop \in Nat /\ nprop' \in Nat /\ Len(olist) \in Nat
      BY LenProperties DEF TypeOK
    <2>3. Distinct'
      BY <2>1 DEF Distinct
    <2>4. nprop'+1 .. Len(olist) \subseteq nprop+1 .. Len(olist)
      BY <2>1, <2>2, LaterIndices
    <2>5. ASSUME InSession', NEW i \in nprop+1 .. Len(olist)
          PROVE  olist[i] \in outbox'
      <3>1. olist[i] \in outbox
        BY <2>1, <2>5 DEF UnansweredKept
      <3>2. olist[i] \notin Deletable
        BY <2>2, <2>5, SMTT(60) DEF Distinct, Deletable, TypeOK
      <3>3. CASE DoDelete
        BY <3>1, <3>2, <3>3 DEF DoDelete
      <3>4. QED
        BY <3>1, <3>3, OutboxStep
    <2>6. UnansweredKept'
      BY <2>1, <2>4, <2>5 DEF UnansweredKept
    <2>7. QED
      BY <2>3, <2>6
  <1>3. QED
    BY <1>1, <1>2

-------------------------------------------------------------------------------
(* The steps of the endpoint, by the place they are taken at.                *)

(* A step that concerns the MID database's clock only.                       *)
Quiet == UNCHANGED <<pc, ret, sendonly, outVars, inVars, middb, orphan, hostVars, netVars>>

(* At which places a program that is not logged in goes on, and how.         *)
GoesOn ==
    \/ Quiet
    \/ pc \in {"greet", "sid"} /\ (GreetIgnored \/ GreetSID \/ GreetPrompt)
    \/ pc = "answer" /\ (AnswerSkip \/ AnswerFS)
    \/ pc = "send" /\ (PutCompressed \/ BatchDone)
    \/ pc = "wait" /\ WaitReadable
    \/ /\ pc = "parser"
       /\ ParseComment \/ ParseFC \/ ParseFF \/ ParsePrompt \/ ParseBlockSendOnly \/ ParseBlock
    \/ pc = "receive" /\ (Receive \/ BlockDone)
    \/ pc = "record" /\ Record

(* A step of the program ends it, or goes on in the order of the code        *)
(* (wl2k_exchange, wl2kd_exchange, inbound_parser).                          *)
LEMMA StepKinds ==
    ASSUME Work \/ Mishap, pc \notin {"login1", "login2", "answerFW"}
    PROVE  Exit \/ GoesOn
  <1>1. CASE Mishap
    BY <1>1 DEF Mishap, Late, Kill, Age, Alarm, Die, WaitGivesUp, GoesOn, Quiet,
         outVars, inVars, hostVars, netVars
  <1>2. CASE LoginWaits \/ LoginAnswers \/ LoginDone
    BY <1>2 DEF LoginWaits, LoginAnswers, LoginDone
  <1>3. CASE \/ GreetError \/ AnswerError \/ ParseFQ \/ ParseB \/ ParseUnrecognized
             \/ ParseBlockMismatch \/ ReceiveError \/ EndOfFile
    BY <1>3 DEF GreetError, AnswerError, ParseFQ, ParseB, ParseUnrecognized,
         ParseBlockMismatch, ReceiveError, EndOfFile
  <1>4. CASE GreetIgnored \/ GreetSID \/ GreetPrompt \/ AnswerSkip \/ AnswerFS
             \/ PutCompressed \/ BatchDone \/ WaitReadable
    BY <1>4 DEF GoesOn, GreetIgnored, GreetSID, GreetPrompt, AnswerSkip, AnswerFS,
         PutCompressed, BatchDone, WaitReadable
  <1>5. CASE \/ ParseComment \/ ParseFC \/ ParseFF \/ ParsePrompt \/ ParseBlockSendOnly
             \/ ParseBlock \/ Receive \/ Record \/ BlockDone
    BY <1>5 DEF GoesOn, ParseComment, ParseFC, ParseFF, ParsePrompt,
         ParseBlockSendOnly, ParseBlock, Receive, Record, BlockDone
  <1>6. QED
    BY <1>1, <1>2, <1>3, <1>4, <1>5 DEF Work

-------------------------------------------------------------------------------
(* What an endpoint may count on of the lines it has not read.               *)

(* Reading takes the first line (wl2kgetline).                               *)
LEMMA ReadShifts ==
    ASSUME TypeOK, rx # <<>>, rx' = Tail(rx)
    PROVE  /\ Len(rx) \in Nat \ {0} /\ Head(rx) = rx[1]
           /\ Len(rx') = Len(rx) - 1
           /\ \A k \in 1..Len(rx') : k + 1 \in 1..Len(rx) /\ rx'[k] = rx[k+1]
  <1>1. rx \in Seq(Line) /\ Len(rx) \in Nat
    BY LenProperties DEF TypeOK
  <1>2. QED
    BY <1>1, HeadTailProperties, EmptySeq

(* What lines there are behind the first.                                    *)
LEMMA LinesBehind ==
    ASSUME NEW q, NEW p, NEW T, Len(q) \in Nat, Len(p) = Len(q) - 1,
           \A k \in 1..Len(p) : k + 1 \in 1..Len(q) /\ p[k] = q[k+1],
           \A k \in 1..Len(q) : q[k].t \in T,
           \A k \in 1..Len(q) : q[k].t = "F>" => k = Len(q)
    PROVE  /\ \A k \in 1..Len(p) : p[k].t \in T
           /\ \A k \in 1..Len(p) : p[k].t = "F>" => k = Len(p)
  OBVIOUS

(* A line other than a message is read.                                      *)
LEMMA HeardRead ==
    ASSUME TypeOK, In!Forth, Out!Back, rx # <<>>, rx' = Tail(rx),
           pc \notin {"idle", "receive", "record"},
           pc' \in {"idle", "greet", "sid", "answer", "send", "wait", "parser"},
           iprops' = iprops \/ iprops' = <<>>,
           pc' = "send" /\ unsent' # {} => rx' = <<>>
    PROVE  In!Forth' /\ Out!Back'
  <1>1. /\ Len(rx) \in Nat \ {0} /\ Len(rx') = Len(rx) - 1
        /\ \A k \in 1..Len(rx') : k + 1 \in 1..Len(rx) /\ rx'[k] = rx[k+1]
    BY ReadShifts
  <1>2. In!Forth'
    <2>1. In!OneToOne(iprops')
      BY EmptySeq DEF In!Forth, In!OneToOne
    <2>2. /\ \A k \in 1..Len(rx') : rx'[k].t \in In!Told
          /\ \A k \in 1..Len(rx') : rx'[k].t = "F>" => k = Len(rx')
      <3>1. /\ \A k \in 1..Len(rx) : rx[k].t \in In!Told
            /\ \A k \in 1..Len(rx) : rx[k].t = "F>" => k = Len(rx)
        BY DEF In!Forth
      <3>2. QED
        BY ONLY <1>1, <3>1, LinesBehind
    <2>3. ASSUME NEW k \in 1..Len(rx'), rx'[k].t = "FC"
          PROVE  /\ \A l \in 1..Len(rx') : rx'[l].t = "FC" /\ rx'[k].m = rx'[l].m => k = l
                 /\ \A i \in 1..Len(iprops') : rx'[k].m # iprops'[i]
      <3>1. k+1 \in 1..Len(rx) /\ rx'[k] = rx[k+1] /\ rx[k+1].t = "FC"
        BY <1>1, <2>3
      <3>2. /\ \A l \in 1..Len(rx) : rx[l].t = "FC" /\ rx[k+1].m = rx[l].m => k+1 = l
            /\ \A i \in 1..Len(iprops) : rx[k+1].m # iprops[i]
        BY <3>1 DEF In!Forth
      <3>3. ASSUME NEW l \in 1..Len(rx'), rx'[l].t = "FC", rx'[k].m = rx'[l].m
            PROVE  k = l
        BY <1>1, <3>1, <3>2, <3>3
      <3>4. Len(<<>>) = 0
        BY EmptySeq
      <3>5. QED
        BY <3>1, <3>2, <3>3, <3>4
    <2>4. QED
      BY <2>1, <2>2, <2>3 DEF In!Forth
  <1>3. Out!Back'
    <2>1. \A k \in 1..Len(rx') : rx'[k].t # "FS"
      BY <1>1 DEF Out!Back
    <2>2. QED
      BY <2>1 DEF Out!Back
  <1>4. QED
    BY <1>2, <1>3

-------------------------------------------------------------------------------
(* The messages on their way, as a subsequence of the proposals.             *)

(* Both directions mean the same by it.                                      *)
LEMMA CarriesSame ==
    ASSUME NEW q, NEW p, NEW S, NEW late
    PROVE  Out!Carries(q, p, S, late) <=> In!Carries(q, p, S, late)
  BY DEF In!Carries, Out!Carries

(* Nothing is on its way if all is late, and only then.                      *)
LEMMA CarriesNothing ==
    ASSUME NEW p, NEW S
    PROVE  /\ In!Carries(<<>>, p, S, S)
           /\ \A q \in Seq(Line) : \A late : In!Carries(q, p, {}, late) => q = <<>> /\ late = {}
           /\ \A q \in Seq(Line) : In!Carries(q, p, S, S) => q = <<>>
  <1>1. In!Carries(<<>>, p, S, S)
    <2> DEFINE f == [k \in 1..0 |-> k]
    <2>1. 1..Len(<<>>) = {} /\ 1..0 = {}
      BY EmptySeq
    <2>2. f \in [1..Len(<<>>) -> S \ S]
      BY <2>1
    <2>3. QED
      BY <2>1, <2>2 DEF In!Carries
  <1>2. ASSUME NEW q \in Seq(Line), NEW T, NEW late, In!Carries(q, p, T, late), T \ late = {}
        PROVE  q = <<>>
    <2>1. PICK f : f \in [1..Len(q) -> T \ late]
      BY <1>2 DEF In!Carries
    <2>2. Len(q) \in Nat
      BY LenProperties
    <2>3. 1 \notin 1..Len(q)
      BY <1>2, <2>1
    <2>4. QED
      BY <2>2, <2>3, EmptySeq
  <1>3. ASSUME NEW q, NEW late, In!Carries(q, p, {}, late)
        PROVE  late = {}
    BY <1>3 DEF In!Carries
  <1>4. QED
    BY <1>1, <1>2, <1>3

(* The first of them is the first proposal that was accepted and not read.   *)
LEMMA CarriesFirst ==
    ASSUME NEW q \in Seq(Line), q # <<>>, NEW p, NEW S \in SUBSET Int, NEW late,
           In!Carries(q, p, S, late), NEW i \in S, \A j \in S : i =< j
    PROVE  /\ Head(q) = [t |-> "DATA", m |-> p[i]]
           /\ In!Carries(Tail(q), p, S \ {i}, late)
  <1>1. Len(q) \in Nat /\ Len(q) > 0 /\ Head(q) = q[1]
    BY LenProperties, EmptySeq, HeadTailProperties
  <1>2. /\ Tail(q) \in Seq(Line) /\ Len(Tail(q)) = Len(q) - 1
        /\ \A k \in 1..Len(q)-1 : Tail(q)[k] = q[k+1]
    BY <1>1, HeadTailProperties
  <1>3. PICK f \in [1..Len(q) -> S \ late] :
           /\ \A k \in 1..Len(q) : q[k] = [t |-> "DATA", m |-> p[f[k]]]
           /\ \A k, l \in 1..Len(q) : k < l => f[k] < f[l]
           /\ \A j \in S \ late : \E k \in 1..Len(q) : f[k] = j
    BY DEF In!Carries
  <1>4. late \subseteq S /\ \A j \in S \ late, l \in late : j < l
    BY DEF In!Carries
  <1>5. 1 \in 1..Len(q) /\ f[1] \in S /\ f[1] \notin late
    BY <1>1, <1>3
  <1>6. i \notin late
    <2>1. i =< f[1]
      BY <1>5
    <2>2. i \in late => f[1] < i
      BY <1>4, <1>5
    <2>3. f[1] \in Int /\ i \in Int
      BY <1>5
    <2>4. QED
      BY <2>1, <2>2, <2>3
  <1>7. f[1] = i
    <2>1. PICK k \in 1..Len(q) : f[k] = i
      BY <1>3, <1>6
    <2>2. 1 < k => f[1] < i
      BY <1>3, <1>5, <2>1
    <2>3. i =< f[1] /\ f[1] \in Int /\ i \in Int /\ k \in 1..Len(q)
      BY <1>5
    <2>4. QED
      BY <1>1, <2>1, <2>2, <2>3
  <1> DEFINE g == [k \in 1..Len(q)-1 |-> f[k+1]]
  <1>8. \A k \in 1..Len(q)-1 : k+1 \in 1..Len(q) /\ f[k+1] \in (S \ {i}) \ late
    <2> SUFFICES ASSUME NEW k \in 1..Len(q)-1
                 PROVE  k+1 \in 1..Len(q) /\ f[k+1] \in (S \ {i}) \ late
      OBVIOUS
    <2>1. k+1 \in 1..Len(q) /\ 1 < k+1
      BY <1>1
    <2>2. f[k+1] \in S \ late /\ f[1] < f[k+1]
      BY <1>3, <1>5, <2>1
    <2>3. QED
      BY <1>7, <2>1, <2>2
  <1>9. g \in [1..Len(q)-1 -> (S \ {i}) \ late]
    BY <1>8
  <1>10. \A k \in 1..Len(q)-1 : Tail(q)[k] = [t |-> "DATA", m |-> p[g[k]]]
    BY <1>2, <1>3, <1>8
  <1>11. \A k, l \in 1..Len(q)-1 : k < l => g[k] < g[l]
    BY <1>3, <1>8
  <1>12. ASSUME NEW j \in (S \ {i}) \ late
         PROVE  \E k \in 1..Len(q)-1 : g[k] = j
    <2>1. PICK k \in 1..Len(q) : f[k] = j
      BY <1>3
    <2>2. k # 1
      BY <1>7, <2>1
    <2>3. k-1 \in 1..Len(q)-1 /\ (k-1)+1 = k
      BY <1>1, <2>2
    <2>4. QED
      BY <2>1, <2>3
  <1>13. In!Carries(Tail(q), p, S \ {i}, late)
    <2>1. late \subseteq S \ {i} /\ \A j \in (S \ {i}) \ late, l \in late : j < l
      BY <1>4, <1>6
    <2>2. \E h \in [1..Len(Tail(q)) -> (S \ {i}) \ late] :
             /\ \A k \in 1..Len(Tail(q)) : Tail(q)[k] = [t |-> "DATA", m |-> p[h[k]]]
             /\ \A k, l \in 1..Len(Tail(q)) : k < l => h[k] < h[l]
             /\ \A j \in (S \ {i}) \ late : \E k \in 1..Len(Tail(q)) : h[k] = j
      <3> HIDE DEF g
      <3>1. QED
        BY <1>2, <1>9, <1>10, <1>11, <1>12, SMTT(60)
    <2>3. QED
      BY <2>1, <2>2 DEF In!Carries
  <1>14. QED
    BY <1>1, <1>3, <1>5, <1>7, <1>13

(* The next message follows those on their way.                              *)
LEMMA CarriesNext ==
    ASSUME NEW q \in Seq(Line), NEW p, NEW S \in SUBSET Int, NEW late,
           In!Carries(q, p, S, late), NEW i \in late, \A j \in late : i =< j,
           NEW r, Len(r) = Len(q) + 1, \A k \in 1..Len(q) : r[k] = q[k],
           r[Len(q) + 1] = [t |-> "DATA", m |-> p[i]]
    PROVE  In!Carries(r, p, S, late \ {i})
  <1>1. Len(q) \in Nat
    BY LenProperties
  <1>2. PICK f \in [1..Len(q) -> S \ late] :
           /\ \A k \in 1..Len(q) : q[k] = [t |-> "DATA", m |-> p[f[k]]]
           /\ \A k, l \in 1..Len(q) : k < l => f[k] < f[l]
           /\ \A j \in S \ late : \E k \in 1..Len(q) : f[k] = j
    BY DEF In!Carries
  <1>3. late \subseteq S /\ \A j \in S \ late, l \in late : j < l
    BY DEF In!Carries
  <1> DEFINE n == Len(q) + 1
             T == S \ (late \ {i})
             g == [k \in 1..n |-> IF k = n THEN i ELSE f[k]]
  <1>4. T = (S \ late) \cup {i} /\ n \in Nat /\ n \in 1..n
    BY <1>1, <1>3
  <1>5. \A k \in 1..n : k = n \/ (k \in 1..Len(q) /\ k # n)
    BY <1>1
  <1>6. g \in [1..n -> T]
    BY <1>2, <1>4, <1>5
  <1>7. \A k \in 1..n : r[k] = [t |-> "DATA", m |-> p[g[k]]]
    BY <1>2, <1>5
  <1>8. ASSUME NEW k \in 1..n, NEW l \in 1..n, k < l PROVE g[k] < g[l]
    <2>1. k \in 1..Len(q) /\ g[k] = f[k] /\ f[k] \in S \ late
      BY <1>1, <1>2, <1>5, <1>8
    <2>2. CASE l = n
      BY <1>3, <2>1, <2>2
    <2>3. CASE l \in 1..Len(q) /\ l # n
      BY <1>2, <1>8, <2>1, <2>3
    <2>4. QED
      BY <1>5, <2>2, <2>3
  <1>9. ASSUME NEW j \in T PROVE \E k \in 1..n : g[k] = j
    <2>1. CASE j = i
      BY <1>4, <2>1
    <2>2. CASE j \in S \ late
      <3>1. PICK k \in 1..Len(q) : f[k] = j
        BY <1>2, <2>2
      <3>2. k \in 1..n /\ k # n
        BY <1>1
      <3>3. QED
        BY <3>1, <3>2
    <2>3. QED
      BY <1>4, <2>1, <2>2
  <1>10. \A j \in T, l \in late \ {i} : j < l
    <2>1. ASSUME NEW l \in late \ {i} PROVE i < l /\ l \in late
      <3>1. i \in Int /\ l \in Int /\ i =< l /\ l # i
        BY <1>3
      <3>2. QED
        BY <3>1
    <2>2. QED
      BY <1>3, <1>4, <2>1
  <1>11. \E h \in [1..n -> T] :
             /\ \A k \in 1..n : r[k] = [t |-> "DATA", m |-> p[h[k]]]
             /\ \A k, l \in 1..n : k < l => h[k] < h[l]
             /\ \A j \in T : \E k \in 1..n : h[k] = j
    <2> HIDE DEF g, T
    <2>1. QED
      BY <1>6, <1>7, <1>8, <1>9
  <1>12. QED
    BY <1>3, <1>10, <1>11 DEF In!Carries

(* What is left when the last of them are lost.                              *)
LEMMA CarriesCut ==
    ASSUME NEW q \in Seq(Line), NEW p, NEW S \in SUBSET Int, NEW late,
           In!Carries(q, p, S, late), NEW n \in 0..Len(q)
    PROVE  \E later \in SUBSET S : In!Carries(SubSeq(q, 1, n), p, S, later)
  <1>1. Len(q) \in Nat
    BY LenProperties
  <1>2. PICK f \in [1..Len(q) -> S \ late] :
           /\ \A k \in 1..Len(q) : q[k] = [t |-> "DATA", m |-> p[f[k]]]
           /\ \A k, l \in 1..Len(q) : k < l => f[k] < f[l]
           /\ \A j \in S \ late : \E k \in 1..Len(q) : f[k] = j
    BY DEF In!Carries
  <1>3. late \subseteq S /\ \A j \in S \ late, l \in late : j < l
    BY DEF In!Carries
  <1> DEFINE r == SubSeq(q, 1, n)
             later == {j \in S : \A k \in 1..n : f[k] < j}
             g == [k \in 1..n |-> f[k]]
  <1>4. Len(r) = n /\ (\A k \in 1..n : r[k] = q[k]) /\ 1..n \subseteq 1..Len(q)
    <2>1. Len(r) = n /\ \A k \in 1..n : r[k] = q[1 + k - 1]
      BY <1>1, SubSeqProperties
    <2>2. \A k \in 1..n : 1 + k - 1 = k
      BY <1>1
    <2>3. 1..n \subseteq 1..Len(q)
      BY <1>1
    <2>4. QED
      BY <2>1, <2>2, <2>3
  <1>5. ASSUME NEW k \in 1..n PROVE f[k] \in S \ later
    <2>1. f[k] \in S
      BY <1>2, <1>4
    <2>2. f[k] \in Int
      BY <2>1
    <2>3. ~(f[k] < f[k])
      BY <2>2
    <2>4. QED
      BY <2>1, <2>3
  <1>6. g \in [1..n -> S \ later]
    BY <1>5
  <1>7. ASSUME NEW j \in S \ later PROVE \E k \in 1..n : f[k] = j
    <2>1. PICK k \in 1..n : ~(f[k] < j)
      BY <1>7
    <2>2. k \in 1..Len(q) /\ f[k] \in S \ late /\ f[k] \in Int /\ j \in Int
      BY <1>2, <1>4
    <2>3. j \notin late
      BY <1>3, <2>1, <2>2
    <2>4. PICK l \in 1..Len(q) : f[l] = j
      BY <1>2, <2>3, <1>7
    <2>5. ~(k < l)
      BY <1>2, <2>1, <2>2, <2>4
    <2>6. l \in 1..n
      BY <1>1, <2>5
    <2>7. QED
      BY <2>4, <2>6
  <1>8. \A j \in S \ later, l \in later : j < l
    BY <1>7
  <1>9. \E h \in [1..n -> S \ later] :
             /\ \A k \in 1..n : r[k] = [t |-> "DATA", m |-> p[h[k]]]
             /\ \A k, l \in 1..n : k < l => h[k] < h[l]
             /\ \A j \in S \ later : \E k \in 1..n : h[k] = j
    <2>1. /\ \A k \in 1..n : r[k] = [t |-> "DATA", m |-> p[g[k]]]
          /\ \A k, l \in 1..n : k < l => g[k] < g[l]
          /\ \A j \in S \ later : \E k \in 1..n : g[k] = j
      BY <1>2, <1>4, <1>7
    <2> HIDE DEF g, later, r
    <2>2. QED
      BY <1>6, <2>1
  <1>10. In!Carries(r, p, S, later)
    <2> HIDE DEF r
    <2>1. later \subseteq S
      OBVIOUS
    <2> HIDE DEF later
    <2>2. QED
      BY <1>4, <1>8, <1>9, <2>1 DEF In!Carries
  <1>11. QED
    BY <1>10

-------------------------------------------------------------------------------
(* What an endpoint may count on stays true in its own steps, whether the    *)
(* link is up or not.                                                        *)

(* Handshake, answer and transmission.                                       *)
LEMMA HeardSending ==
    ASSUME TypeOK, In!Forth, Out!Back,
           \/ pc \in {"greet", "sid"} /\ (GreetIgnored \/ GreetSID \/ GreetPrompt)
           \/ pc = "answer" /\ (AnswerSkip \/ AnswerFS)
           \/ pc = "send" /\ (PutCompressed \/ BatchDone)
           \/ pc = "wait" /\ WaitReadable
    PROVE  In!Forth' /\ Out!Back'
  <1>1. CASE pc \in {"greet", "sid"} /\ (GreetIgnored \/ GreetSID \/ GreetPrompt)
    <2>1. /\ rx # <<>> /\ rx' = Tail(rx) /\ iprops' = iprops
          /\ pc' \in {"greet", "sid", "parser", "answer", "wait", "idle"}
      BY <1>1 DEF GreetIgnored, GreetSID, GreetPrompt, B2Out, Exit, Reads, inVars
    <2>2. QED
      BY <1>1, <2>1, HeardRead
  <1>2. CASE pc = "answer" /\ AnswerSkip
    <2>1. rx # <<>> /\ rx' = Tail(rx) /\ Head(rx).t \in {";PM", ";FW"}
      BY <1>2 DEF AnswerSkip, Reads
    <2>a. Len(rx) \in Nat \ {0} /\ Head(rx) = rx[1]
      BY <2>1, ReadShifts
    <2>2. Head(rx) = rx[1] /\ 1 \in 1..Len(rx)
      BY <2>a
    <2>3. rx[1].t \in In!Told
      BY <1>2, <2>2 DEF In!Forth
    <2>4. QED
      BY <2>1, <2>2, <2>3 DEF In!Told
  <1>3. CASE pc = "answer" /\ AnswerFS
    <2>1. /\ rx # <<>> /\ rx' = Tail(rx) /\ iprops' = iprops /\ Head(rx).t = "FS"
          /\ pc' \in {"idle", "send"}
      BY <1>3 DEF AnswerFS, Exit, Reads, inVars
    <2>2. /\ Len(rx) \in Nat \ {0} /\ Head(rx) = rx[1] /\ Len(rx') = Len(rx) - 1
          /\ rx' \in Seq(Line)
      BY <2>1, ReadShifts, HeadTailProperties DEF TypeOK
    <2>3. ASSUME pc' = "send", rx' # <<>> PROVE unsent' = {}
      <3> DEFINE ans == Head(rx).ans
      <3>1. Len(rx) > 1
        BY <2>2, <2>3, LenProperties, EmptySeq
      <3>2. ans \in [1..Out!Size -> {"Y", "N"}] /\ \A j \in 1..Out!Size : ans[j] = "N"
        BY <1>3, <2>1, <2>2, <3>1 DEF Out!Back
      <3>3. Out!Size = BatchSize /\ BatchSize \in Nat /\ BatchSize =< Remaining /\ Remaining \in Nat
        BY BatchType DEF Out!Size, Out!SizeOf, BatchSize, Remaining
      <3>4. Len(ans) = BatchSize
        BY <3>2, <3>3, SeqDef, LenProperties
      <3>5. \A k \in 1..BatchSize : Heard(ans, k) = "N"
        BY <3>2, <3>3, <3>4 DEF Heard
      <3>6. \A k \in 1..BatchSize : olist[nprop + k] \in HeardAs(ans, {"N"})
        BY <3>3, <3>5 DEF HeardAs
      <3>7. unsent' \subseteq {i \in nprop+1 .. nprop+BatchSize : olist[i] \notin HeardAs(ans, {"N"})}
        BY <1>3, <2>3 DEF AnswerFS, Exit
      <3>8. \A i \in nprop+1 .. nprop+BatchSize : i - nprop \in 1..BatchSize /\ i = nprop + (i - nprop)
        BY <3>3, BatchType
      <3>9. QED
        BY <3>6, <3>7, <3>8
    <2>4. QED
      BY <1>3, <2>1, <2>3, HeardRead
  <1>4. CASE pc = "send" /\ PutCompressed
    <2>1. rx' = rx /\ pc' = pc /\ UNCHANGED <<iprops, todo, olist, nprop>> /\ unsent # {}
      BY <1>4 DEF PutCompressed, NextOf, inVars
    <2>2. rx = <<>>
      BY <1>4, <2>1 DEF Out!Back
    <2>3. QED
      BY <1>4, <2>1, <2>2, EmptySeq DEF In!Forth, Out!Back
  <1>5. CASE (pc = "send" /\ BatchDone) \/ (pc = "wait" /\ WaitReadable)
    <2>1. rx' = rx /\ pc' \in {"wait", "parser"} /\ UNCHANGED <<iprops, todo>>
      BY <1>5 DEF BatchDone, WaitReadable, TypeOK, inVars, netVars
    <2>2. \A k \in 1..Len(rx) : rx[k].t # "FS"
      BY <1>5 DEF Out!Back
    <2>3. QED
      BY <1>5, <2>1, <2>2 DEF In!Forth, Out!Back
  <1>6. QED
    <2>1. CASE pc = "answer" /\ (AnswerSkip \/ AnswerFS)
      BY <2>1, <1>2, <1>3
    <2>2. CASE pc = "send" /\ (PutCompressed \/ BatchDone)
      BY <2>2, <1>4, <1>5
    <2>3. QED
      BY <1>1, <2>1, <2>2, <1>5

(* The command loop (inbound_parser).                                        *)
LEMMA HeardParsing ==
    ASSUME TypeOK, In!Forth, Out!Back, pc = "parser",
           \/ ParseComment \/ ParseFC \/ ParseFF \/ ParsePrompt \/ ParseBlockSendOnly
           \/ ParseBlock
    PROVE  In!Forth' /\ Out!Back'
  <1>1. CASE ParseComment \/ ParseFF \/ ParsePrompt \/ ParseBlockSendOnly
    <2>1. /\ rx # <<>> /\ rx' = Tail(rx) /\ iprops' = iprops
          /\ pc' \in {"parser", "answer", "idle"}
      BY <1>1 DEF ParseComment, ParseFF, ParsePrompt, ParseBlockSendOnly, B2Out, Exit,
           Reads, inVars
    <2>2. QED
      BY <2>1, HeardRead
  <1>2. CASE ParseFC
    <2>1. rx # <<>> /\ rx' = Tail(rx) /\ Head(rx).t \in {"FC", "FCbad"}
      BY <1>2 DEF ParseFC, Reads
    <2>2. /\ Len(rx) \in Nat \ {0} /\ Head(rx) = rx[1] /\ Len(rx') = Len(rx) - 1
          /\ \A k \in 1..Len(rx') : k + 1 \in 1..Len(rx) /\ rx'[k] = rx[k+1]
      BY <2>1, ReadShifts
    <2>3. CASE iprops' = iprops
      <3>1. pc' \in {"parser", "idle"}
        BY <1>2 DEF ParseFC, Exit
      <3>2. QED
        BY <2>1, <2>3, <3>1, HeardRead
    <2>4. CASE Head(rx).t = "FC" /\ iprops' = Append(iprops, Head(rx).m) /\ pc' = "parser"
      <3> DEFINE m == Head(rx).m
                 n == Len(iprops)
      <3>1. iprops \in Seq(Msg) /\ n \in Nat
        BY LenProperties DEF TypeOK
      <3>2. m \in Msg
        BY <2>1, <2>4, HeadTailProperties, LineFields DEF TypeOK
      <3>3. /\ Len(iprops') = n + 1 /\ iprops'[n+1] = m
            /\ \A i \in 1..n : iprops'[i] = iprops[i]
        BY <2>4, <3>1, <3>2, AppendProperties
      <3>4. 1 \in 1..Len(rx) /\ rx[1].t = "FC" /\ rx[1].m = m
        BY <2>2, <2>4
      <3>5. /\ \A l \in 1..Len(rx) : rx[l].t = "FC" /\ rx[l].m = m => l = 1
            /\ \A i \in 1..n : m # iprops[i]
        BY <3>4 DEF In!Forth
      <3>6. In!OneToOne(iprops')
        <4>1. In!OneToOne(iprops)
          BY DEF In!Forth
        <4>2. \A i \in 1..n+1 : i = n+1 \/ i \in 1..n
          BY <3>1
        <4>3. QED
          BY <3>3, <3>5, <4>1, <4>2 DEF In!OneToOne
      <3>7. /\ \A k \in 1..Len(rx') : rx'[k].t \in In!Told
            /\ \A k \in 1..Len(rx') : rx'[k].t = "F>" => k = Len(rx')
        BY <2>2, SMTT(60) DEF In!Forth
      <3>8. ASSUME NEW k \in 1..Len(rx'), rx'[k].t = "FC"
            PROVE  /\ \A l \in 1..Len(rx') : rx'[l].t = "FC" /\ rx'[k].m = rx'[l].m => k = l
                   /\ \A i \in 1..Len(iprops') : rx'[k].m # iprops'[i]
        <4>1. k+1 \in 1..Len(rx) /\ rx'[k] = rx[k+1] /\ rx[k+1].t = "FC"
          BY <2>2, <3>8
        <4>2. /\ \A l \in 1..Len(rx) : rx[l].t = "FC" /\ rx[k+1].m = rx[l].m => k+1 = l
              /\ \A i \in 1..n : rx[k+1].m # iprops[i]
          BY <4>1 DEF In!Forth
        <4>3. ASSUME NEW l \in 1..Len(rx'), rx'[l].t = "FC", rx'[k].m = rx'[l].m
              PROVE  k = l
          BY <2>2, <4>1, <4>2, <4>3, SMTT(60)
        <4>4. k+1 # 1
          BY <2>2
        <4>5. rx'[k].m # m
          BY <3>5, <4>1, <4>4
        <4>6. \A i \in 1..n+1 : i = n+1 \/ i \in 1..n
          BY <3>1
        <4>7. QED
          BY <3>3, <4>1, <4>2, <4>3, <4>5, <4>6
      <3>9. In!Forth'
        BY <2>4, <3>6, <3>7, <3>8 DEF In!Forth
      <3>10. Out!Back'
        <4>1. \A k \in 1..Len(rx') : rx'[k].t # "FS"
          BY <2>2 DEF Out!Back
        <4>2. QED
          BY <2>4, <4>1 DEF Out!Back
      <3>11. QED
        BY <3>9, <3>10
    <2>5. QED
      BY <1>2, <2>3, <2>4 DEF ParseFC
  <1>3. CASE ParseBlock
    <2>1. rx # <<>> /\ rx' = Tail(rx) /\ Head(rx).t = "F>" /\ iprops' = iprops /\ pc' = "receive"
      BY <1>3 DEF ParseBlock, Reads
    <2>2. Len(rx) \in Nat \ {0} /\ Head(rx) = rx[1] /\ Len(rx') = Len(rx) - 1
      BY <2>1, ReadShifts
    <2>3. rx' = <<>>
      <3>1. 1 \in 1..Len(rx)
        BY <2>2
      <3>2. Len(rx) = 1
        BY <2>1, <2>2, <3>1 DEF In!Forth
      <3>3. rx' \in Seq(Line)
        BY <2>1, HeadTailProperties DEF TypeOK
      <3>4. QED
        BY <2>2, <3>2, <3>3, EmptySeq
    <2>4. In!Carries(rx', iprops', In!Rest', todo')
      BY <2>1, <2>3, CarriesNothing DEF In!Rest
    <2>5. In!Rest' = todo'
      BY <2>1 DEF In!Rest
    <2>6. 1..Len(rx') = {}
      BY <2>3, EmptySeq
    <2>7. In!OneToOne(iprops')
      BY <2>1 DEF In!Forth, In!OneToOne
    <2>8. In!Forth'
      BY <2>1, <2>4, <2>5, <2>6, <2>7 DEF In!Forth
    <2>9. Out!Back'
      BY <2>1, <2>6 DEF Out!Back
    <2>10. QED
      BY <2>8, <2>9
  <1>4. QED
    BY <1>1, <1>2, <1>3

(* What comes next of a set of proposals (the loops of inbound_parser).      *)
LEMMA NextOne ==
    ASSUME NEW S \in SUBSET Int, NEW i \in S, \A j \in S : i =< j
    PROVE  NextOf(S) = {i} /\ In!First(S) = {i}
  <1>1. ASSUME NEW k \in S, \A j \in S : k =< j PROVE k = i
    <2>1. k =< i /\ i =< k /\ i \in Int /\ k \in Int
      BY <1>1
    <2>2. QED
      BY <2>1
  <1>2. QED
    BY <1>1 DEF NextOf, In!First

(* A message on its way is that of the first proposal.                       *)
LEMMA CarriesHead ==
    ASSUME NEW q \in Seq(Line), q # <<>>, NEW p, NEW S \in SUBSET Int, NEW late,
           In!Carries(q, p, S, late)
    PROVE  \E i \in S : \A j \in S : i =< j
  <1>1. Len(q) \in Nat /\ Len(q) > 0
    BY LenProperties, EmptySeq
  <1>2. PICK f \in [1..Len(q) -> S \ late] :
           /\ \A k, l \in 1..Len(q) : k < l => f[k] < f[l]
           /\ \A j \in S \ late : \E k \in 1..Len(q) : f[k] = j
    BY DEF In!Carries
  <1>3. late \subseteq S /\ \A j \in S \ late, l \in late : j < l
    BY DEF In!Carries
  <1>a. 1 \in 1..Len(q) /\ f[1] \in S \ late
    BY <1>1, <1>2
  <1>4. 1 \in 1..Len(q) /\ f[1] \in S \ late /\ f[1] \in Int
    BY <1>a
  <1>5. ASSUME NEW j \in S PROVE f[1] =< j
    <2>1. CASE j \in late
      <3>1. f[1] < j /\ j \in Int
        BY <1>3, <1>4, <2>1
      <3>2. QED
        BY <1>4, <3>1
    <2>2. CASE j \notin late
      <3>1. PICK k \in 1..Len(q) : f[k] = j
        BY <1>2, <2>2
      <3>2. k = 1 \/ 1 < k
        BY <1>1
      <3>3. f[1] = j \/ f[1] < j
        BY <1>2, <1>4, <3>1, <3>2
      <3>4. j \in Int
        OBVIOUS
      <3>5. QED
        BY <1>4, <3>3, <3>4
    <2>3. QED
      BY <2>1, <2>2
  <1>6. QED
    BY <1>4, <1>5

(* Receiving (getcompressed, record_mid).                                    *)
LEMMA HeardReceiving ==
    ASSUME TypeOK, In!Forth, Out!Back,
           \/ pc = "receive" /\ (Receive \/ BlockDone)
           \/ pc = "record" /\ Record
    PROVE  In!Forth' /\ Out!Back'
  <1>1. rx \in Seq(Line) /\ todo \in SUBSET Int
    BY LenProperties DEF TypeOK
  <1>2. pc \in {"receive", "record"}
    OBVIOUS
  <1>3. PICK late \in SUBSET In!Rest : In!Carries(rx, iprops, In!Rest, late)
    BY <1>2 DEF In!Forth
  <1>4. In!OneToOne(iprops) /\ \A k \in 1..Len(rx) : rx[k].t = "DATA"
    <2>1. In!OneToOne(iprops)
      BY <1>2 DEF In!Forth
    <2>2. PICK f : \A k \in 1..Len(rx) : rx[k] = [t |-> "DATA", m |-> iprops[f[k]]]
      BY <1>3 DEF In!Carries
    <2>3. ASSUME NEW k \in 1..Len(rx) PROVE rx[k].t = "DATA"
      <3>1. rx[k] = [t |-> "DATA", m |-> iprops[f[k]]]
        BY <2>2
      <3>2. QED
        BY <3>1
    <2>4. QED
      BY <2>1, <2>3
  <1>5. In!Rest \in SUBSET Int
    BY <1>1 DEF In!Rest
  <1>6. CASE pc = "receive" /\ Receive
    <2>1. rx # <<>> /\ rx' = Tail(rx) /\ iprops' = iprops /\ todo' = todo
          /\ pc' \in {"record", "idle"}
      BY <1>6 DEF Receive, Reads, Exit, inVars
    <2>2. In!Rest = todo
      BY <1>6 DEF In!Rest
    <2>3. PICK i \in todo : \A j \in todo : i =< j
      BY <1>1, <1>3, <2>1, <2>2, CarriesHead
    <2>4. In!Carries(rx', iprops, todo \ {i}, late)
      BY <1>1, <1>3, <2>1, <2>2, <2>3, CarriesFirst
    <2>5. In!First(todo) = {i}
      BY <1>1, <2>3, NextOne
    <2>6. /\ Len(rx') = Len(rx) - 1 /\ Len(rx) \in Nat
          /\ \A k \in 1..Len(rx') : k + 1 \in 1..Len(rx) /\ rx'[k] = rx[k+1]
      BY <2>1, ReadShifts
    <2>7. \A k \in 1..Len(rx') : rx'[k].t = "DATA"
      BY <1>4, <2>6
    <2>8. pc' = "record" => In!Rest' = todo \ {i}
      BY <2>1, <2>5 DEF In!Rest, In!First
    <2>9. late \subseteq todo \ {i}
      BY <2>4 DEF In!Carries
    <2>10. pc' = "record" => \E l \in SUBSET In!Rest' : In!Carries(rx', iprops', In!Rest', l)
      BY <2>1, <2>4, <2>8, <2>9
    <2>11. In!OneToOne(iprops')
      BY <1>4, <2>1
    <2>12. In!Forth'
      BY <2>1, <2>7, <2>10, <2>11 DEF In!Forth
    <2>13. Out!Back'
      BY <2>1, <2>7 DEF Out!Back
    <2>14. QED
      BY <2>12, <2>13
  <1>7. CASE pc = "receive" /\ BlockDone
    <2>1. rx' = rx /\ iprops' = <<>> /\ todo = {} /\ pc' \in {"answer", "parser", "idle"}
      BY <1>7 DEF BlockDone, B2Out, Exit
    <2>2. rx = <<>>
      BY <1>1, <1>3, <1>7, <2>1, CarriesNothing DEF In!Rest, In!First
    <2>3. 1..Len(rx') = {} /\ 1..Len(iprops') = {}
      BY <2>1, <2>2, EmptySeq
    <2>4. In!OneToOne(iprops')
      BY <2>3 DEF In!OneToOne
    <2>5. In!Forth'
      BY <2>1, <2>3, <2>4 DEF In!Forth
    <2>6. Out!Back'
      BY <2>1, <2>3 DEF Out!Back
    <2>7. QED
      BY <2>5, <2>6
  <1>8. CASE pc = "record" /\ Record
    <2>1. PICK i \in NextOf(todo) : todo' = todo \ {i}
      BY <1>8 DEF Record
    <2>2. rx' = rx /\ iprops' = iprops /\ pc' = "receive"
      BY <1>8 DEF Record, netVars
    <2>3. In!First(todo) = {i}
      BY <1>1, <2>1, NextOne DEF NextOf
    <2>4. In!Rest' = In!Rest
      BY <1>8, <2>1, <2>2, <2>3 DEF In!Rest, In!First
    <2>5. In!Carries(rx', iprops', In!Rest', late) /\ late \in SUBSET In!Rest'
      BY <1>3, <2>2, <2>4
    <2>6. In!OneToOne(iprops')
      BY <1>4, <2>2
    <2>7. In!Forth'
      BY <1>4, <2>2, <2>5, <2>6 DEF In!Forth
    <2>8. Out!Back'
      BY <1>4, <2>2 DEF Out!Back
    <2>9. QED
      BY <2>7, <2>8
  <1>9. QED
    BY <1>6, <1>7, <1>8

(* Every step.                                                               *)
LEMMA HeardStep ==
    ASSUME TypeOK, In!Forth, Out!Back, Work \/ Mishap
    PROVE  In!Forth' /\ Out!Back'
  <1>1. CASE Exit
    BY <1>1 DEF Exit, In!Forth, Out!Back
  <1>2. CASE Quiet
    <2>1. UNCHANGED <<pc, iprops, todo, rx, olist, nprop, unsent>>
      BY <1>2 DEF Quiet, outVars, inVars, netVars
    <2>2. In!Rest' = In!Rest /\ Out!Size' = Out!Size
      BY <2>1 DEF In!Rest, In!First, Out!Size, Out!SizeOf
    <2>3. In!Forth'
      BY <2>1, <2>2 DEF In!Forth
    <2>4. Out!Back'
      BY <2>1, <2>2 DEF Out!Back
    <2>5. QED
      BY <2>3, <2>4
  <1>3. CASE ~Exit /\ ~Quiet
    <2>1. pc \notin {"login1", "login2", "answerFW"}
      BY <1>3 DEF In!Forth
    <2>2. GoesOn
      BY <1>3, <2>1, StepKinds
    <2>3. CASE \/ pc \in {"greet", "sid"} /\ (GreetIgnored \/ GreetSID \/ GreetPrompt)
               \/ pc = "answer" /\ (AnswerSkip \/ AnswerFS)
               \/ pc = "send" /\ (PutCompressed \/ BatchDone)
               \/ pc = "wait" /\ WaitReadable
      BY <2>3, HeardSending
    <2>4. CASE /\ pc = "parser"
               /\ \/ ParseComment \/ ParseFC \/ ParseFF \/ ParsePrompt
                  \/ ParseBlockSendOnly \/ ParseBlock
      BY <2>4, HeardParsing
    <2>5. CASE \/ pc = "receive" /\ (Receive \/ BlockDone)
               \/ pc = "record" /\ Record
      BY <2>5, HeardReceiving
    <2>6. QED
      BY <1>3, <2>2, <2>3, <2>4, <2>5 DEF GoesOn
  <1>4. QED
    BY <1>1, <1>2, <1>3

-------------------------------------------------------------------------------
(* The phases of the session (Talk) say what each program may hear of the    *)
(* other.                                                                    *)

(* The peer's turn: it has heard all, or has one answer to read.             *)
LEMMA TalkIn ==
    In!Talk => Out!Forth /\ In!Back /\ (rx = <<>> \/ tx = <<>>)
  <1> SUFFICES ASSUME In!Talk
               PROVE  Out!Forth /\ In!Back /\ (rx = <<>> \/ tx = <<>>)
    OBVIOUS
  <1>1. CASE tx = <<>> /\ ipropsP = <<>> /\ pcP \in {"greet", "answer", "send", "wait", "parser"}
    <2>1. 1..Len(tx) = {} /\ 1..Len(ipropsP) = {}
      BY <1>1, EmptySeq
    <2>2. Out!Forth
      BY <1>1, <2>1 DEF Out!Forth, Out!OneToOne
    <2>3. In!Back
      BY <1>1, <2>1 DEF In!Back
    <2>4. QED
      BY <1>1, <2>2, <2>3
  <1>2. CASE /\ pcP = "answer" /\ ipropsP = <<>> /\ rx = <<>>
             /\ \/ tx = <<[t |-> "FF"]>>
                \/ tx = <<[t |-> "FS",
                           ans |-> [k \in 1..In!Size |-> IF k \in todo THEN "Y" ELSE "N"]]>>
    <2> DEFINE ans == [k \in 1..In!Size |-> IF k \in todo THEN "Y" ELSE "N"]
               fs == [t |-> "FS", ans |-> ans]
               ff == [t |-> "FF"]
    <2>a. 1..Len(ipropsP) = {}
      BY <1>2, EmptySeq
    <2>b. tx = <<ff>> \/ tx = <<fs>>
      BY <1>2
    <2>c. ff.t = "FF" /\ fs.t = "FS" /\ fs.ans = ans
      OBVIOUS
    <2> HIDE DEF ff, fs, ans
    <2>d. Len(tx) = 1 /\ (tx[1] = ff \/ tx[1] = fs)
      BY <2>b
    <2>1. 1..Len(ipropsP) = {} /\ Len(tx) = 1 /\ \A k \in 1..Len(tx) : k = 1
      BY <2>a, <2>d
    <2>2. /\ tx[1].t \in {"FF", "FS"}
          /\ tx[1].t = "FS" => tx[1].ans = ans
      BY <2>c, <2>d
    <2>3. Out!Forth
      BY <1>2, <2>1, <2>2 DEF Out!Forth, Out!OneToOne, Out!Told
    <2>4. ans \in [1..In!Size -> {"Y", "N"}]
      BY DEF ans
    <2>5. In!Back
      BY <1>2, <2>1, <2>2, <2>4 DEF In!Back
    <2>6. QED
      BY <1>2, <2>3, <2>5
  <1>3. QED
    BY <1>1, <1>2 DEF In!Talk, In!Greets, In!Commands, In!Transmits, In!Declined

(* What there is in a block that was not read to the end (b2outboundproposal)*)
LEMMA CommandLines ==
    ASSUME TypeOK, P!TypeOK, Out!Commands
    PROVE  /\ Out!Asked \in Nat /\ Len(tx) \in Nat \ {0} /\ Len(ipropsP) \in 0..Out!Asked
           /\ Out!Before \in Nat
           /\ \A k \in 1..Out!Asked : nprop + k \in 1..Len(olist)
           /\ \A j \in 1..Len(tx) :
                \/ j \in 1..Out!Before
                \/ /\ j - Out!Before + Len(ipropsP) \in Len(ipropsP)+1 .. Out!Asked
                   /\ tx[j].t = "FC"
                   /\ tx[j].m = Out!Proposed(j - Out!Before + Len(ipropsP))
                \/ j = Len(tx) /\ tx[j].t \in {"F>", "FF"}
           /\ \A j \in 1..Out!Before : tx[j].t \in {"FS", "SID", "QTC"}
  <1>1. /\ olist \in Seq(Outgoing) /\ Len(olist) \in Nat /\ nprop \in 0..Len(olist)
        /\ Len(tx) \in Nat /\ Len(ipropsP) \in Nat /\ PROPLIMIT \in Nat
    BY LenProperties, ConstantsAssumption DEF TypeOK, P!TypeOK
  <1>2. Out!Asked \in Nat /\ Out!Asked =< Len(olist) - nprop
    BY <1>1 DEF Out!Asked, Out!Size, Out!SizeOf
  <1>3. Len(tx) \in Nat \ {0}
    BY <1>1, EmptySeq DEF Out!Commands, TypeOK
  <1>4. Len(ipropsP) \in 0..Out!Asked
    BY <1>1, <1>2 DEF Out!Commands
  <1>5. Out!Before \in Int /\ Out!Before = Len(tx) - 1 - Out!Asked + Len(ipropsP)
    BY <1>1, <1>2 DEF Out!Before
  <1>6. Out!Before \in Nat /\ \A j \in 1..Out!Before : tx[j].t \in {"FS", "SID", "QTC"}
    <2>1. CASE Out!Before = 0
      BY <2>1
    <2>2. CASE /\ Out!Before = 1
               /\ tx[1] = [t |-> "FS", ans |-> [k \in 1..Out!SizeOf(olistP, npropP) |-> "N"]]
      BY <2>2
    <2>3. CASE /\ Out!Before > 0 /\ tx[Out!Before].t = "SID"
               /\ \A k \in 1..Out!Before - 1 : tx[k].t = "QTC"
      <3>1. \A j \in 1..Out!Before : j = Out!Before \/ j \in 1..Out!Before - 1
        BY <1>5
      <3>2. QED
        BY <1>5, <2>3, <3>1
    <2>4. QED
      BY <2>1, <2>2, <2>3 DEF Out!Commands, Out!Reached
  <1>7. ASSUME NEW j \in 1..Len(tx), j \notin 1..Out!Before, j # Len(tx)
        PROVE  /\ j - Out!Before + Len(ipropsP) \in Len(ipropsP)+1 .. Out!Asked
               /\ tx[j].t = "FC"
               /\ tx[j].m = Out!Proposed(j - Out!Before + Len(ipropsP))
    <2> DEFINE k == j - Out!Before + Len(ipropsP)
    <2>1. k \in Len(ipropsP)+1 .. Out!Asked /\ Out!Before + k - Len(ipropsP) = j
      BY <1>1, <1>2, <1>3, <1>5, <1>6, <1>7
    <2>2. tx[Out!Before + k - Len(ipropsP)] = [t |-> "FC", m |-> Out!Proposed(k)]
      BY <2>1 DEF Out!Commands
    <2>3. QED
      BY <2>1, <2>2
  <1>8. tx[Len(tx)].t \in {"F>", "FF"}
    BY DEF Out!Commands
  <1>9. QED
    BY <1>1, <1>2, <1>3, <1>4, <1>6, <1>7, <1>8, SMTT(60)

(* This program's turn: the peer may still have to read all that was said.   *)
LEMMA TalkOut ==
    TypeOK /\ P!TypeOK /\ Distinct /\ Out!Talk
      => Out!Forth /\ In!Back /\ (rx = <<>> \/ tx = <<>>)
  <1> SUFFICES ASSUME TypeOK, P!TypeOK, Distinct, Out!Talk
               PROVE  Out!Forth /\ In!Back /\ (rx = <<>> \/ tx = <<>>)
    OBVIOUS
  <1>1. CASE Out!Greets
    <2>1. tx \in Seq(Line) /\ Len(tx) \in Nat /\ 1..Len(ipropsP) = {}
      BY <1>1, LenProperties, EmptySeq DEF Out!Greets, TypeOK
    <2>2. \A k \in 1..Len(tx) : tx[k].t \in {"SID", "?", ">"}
      <3>1. \A k \in 1..Len(tx) : k = Len(tx) \/ k \in 1..Len(tx)-1
        BY <2>1
      <3>2. QED
        BY <1>1, <3>1 DEF Out!Greets
    <2>3. Out!Forth
      BY <1>1, <2>1, <2>2 DEF Out!Forth, Out!OneToOne, Out!Told, Out!Greets
    <2>4. In!Back
      BY <1>1, <2>2 DEF In!Back, Out!Greets
    <2>5. QED
      BY <1>1, <2>3, <2>4 DEF Out!Greets
  <1>2. CASE Out!Commands
    <2> DEFINE n == Len(ipropsP)
               at(j) == j - Out!Before + n
    <2>1. /\ Out!Asked \in Nat /\ Len(tx) \in Nat \ {0} /\ n \in 0..Out!Asked
          /\ Out!Before \in Nat
          /\ \A k \in 1..Out!Asked : nprop + k \in 1..Len(olist)
          /\ \A j \in 1..Len(tx) :
               \/ j \in 1..Out!Before
               \/ at(j) \in n+1 .. Out!Asked /\ tx[j].t = "FC" /\ tx[j].m = Out!Proposed(at(j))
               \/ j = Len(tx) /\ tx[j].t \in {"F>", "FF"}
          /\ \A j \in 1..Out!Before : tx[j].t \in {"FS", "SID", "QTC"}
      BY <1>2, CommandLines
    <2>2. Len(olist) \in Nat /\ nprop \in Nat
      BY LenProperties DEF TypeOK
    <2>3. ASSUME NEW k \in 1..Out!Asked, NEW l \in 1..Out!Asked, Out!Proposed(k) = Out!Proposed(l)
          PROVE  k = l
      <3>1. nprop + k = nprop + l
        BY <2>1, <2>3 DEF Distinct, Out!Proposed
      <3>2. QED
        BY <2>1, <2>2, <3>1
    <2>4. \A i \in 1..n : i \in 1..Out!Asked /\ ipropsP[i] = Out!Proposed(i)
      BY <1>2, <2>1 DEF Out!Commands
    <2>5. \A j \in 1..Len(tx) : tx[j].t \in Out!Told
      <3>1. ASSUME NEW j \in 1..Len(tx) PROVE tx[j].t \in {"FS", "SID", "QTC", "FC", "F>", "FF"}
        BY <2>1
      <3>2. QED
        BY <3>1 DEF Out!Told
    <2>6. \A j \in 1..Len(tx) : tx[j].t = "F>" => j = Len(tx)
      BY <2>1
    <2>7. ASSUME NEW j \in 1..Len(tx), tx[j].t = "FC"
          PROVE  at(j) \in n+1 .. Out!Asked /\ tx[j].m = Out!Proposed(at(j))
      BY <2>1, <2>7
    <2>8. Out!OneToOne(ipropsP)
      BY <2>3, <2>4 DEF Out!OneToOne
    <2>9. ASSUME NEW j \in 1..Len(tx), tx[j].t = "FC"
          PROVE  /\ \A l \in 1..Len(tx) : tx[l].t = "FC" /\ tx[j].m = tx[l].m => j = l
                 /\ \A i \in 1..n : tx[j].m # ipropsP[i]
      <3>1. at(j) \in n+1 .. Out!Asked /\ tx[j].m = Out!Proposed(at(j))
        BY <2>7, <2>9
      <3>2. at(j) \in 1..Out!Asked
        BY <2>1, <3>1
      <3>3. ASSUME NEW l \in 1..Len(tx), tx[l].t = "FC", tx[j].m = tx[l].m
            PROVE  j = l
        <4>1. at(l) \in n+1 .. Out!Asked /\ tx[l].m = Out!Proposed(at(l))
          BY <2>7, <3>3
        <4>2. at(l) \in 1..Out!Asked
          BY <2>1, <4>1
        <4>3. at(j) = at(l)
          BY <2>3, <3>1, <3>2, <3>3, <4>1, <4>2
        <4>4. QED
          BY <2>1, <4>3
      <3>4. ASSUME NEW i \in 1..n PROVE tx[j].m # ipropsP[i]
        <4>1. i # at(j) /\ i \in 1..Out!Asked
          BY <2>1, <3>1
        <4>2. QED
          BY <2>3, <2>4, <3>1, <3>2, <4>1
      <3>5. QED
        BY <3>3, <3>4
    <2>10. pcP \in {"greet", "answer", "send", "wait", "parser"}
      BY <1>2 DEF Out!Commands, Out!Reached
    <2>11. Out!Forth
      <3> HIDE DEF n, at
      <3>1. QED
        BY <2>5, <2>6, <2>8, <2>9, <2>10 DEF Out!Forth, n
    <2>12. In!Back
      <3>1. CASE pcP = "answer"
        <4>1. /\ Out!Before = 1
              /\ tx[1] = [t |-> "FS", ans |-> [k \in 1..In!Size |-> "N"]]
          BY <1>2, <3>1 DEF Out!Commands, Out!Reached, In!Size, In!SizeOf, Out!SizeOf
        <4>2. \A j \in 1..Len(tx) : tx[j].t = "FS" => j = 1
          BY <2>1, <4>1
        <4> DEFINE ans == [k \in 1..In!Size |-> "N"]
        <4>3. ans \in [1..In!Size -> {"Y", "N"}] /\ \A k \in 1..In!Size : ans[k] = "N"
          OBVIOUS
        <4>4. tx[1].ans = ans
          BY <4>1
        <4> HIDE DEF ans
        <4>5. QED
          BY <3>1, <4>2, <4>3, <4>4 DEF In!Back
      <3>2. CASE pcP # "answer"
        <4>1. \A j \in 1..Out!Before : tx[j].t # "FS"
          <5>1. CASE Out!Before = 0
            BY <5>1
          <5>2. CASE tx[Out!Before].t = "SID" /\ \A k \in 1..Out!Before - 1 : tx[k].t = "QTC"
            <6>1. \A j \in 1..Out!Before : j = Out!Before \/ j \in 1..Out!Before - 1
              BY <2>1
            <6>2. QED
              BY <5>2, <6>1
          <5>3. QED
            BY <1>2, <3>2, <5>1, <5>2 DEF Out!Commands, Out!Reached
        <4>2. \A j \in 1..Len(tx) : tx[j].t # "FS"
          BY <2>1, <4>1
        <4>3. pcP = "send" => unsentP = {}
          BY <1>2 DEF Out!Commands, Out!Reached
        <4>4. QED
          BY <4>2, <4>3 DEF In!Back
      <3>3. QED
        BY <3>1, <3>2
    <2>13. QED
      BY <1>2, <2>11, <2>12 DEF Out!Commands
  <1>3. CASE Out!Transmits
    <2>1. pcP \in {"receive", "record"} /\ Out!OneToOne(ipropsP) /\ (rx = <<>> \/ tx = <<>>)
      BY <1>3 DEF Out!Transmits
    <2>2. PICK late \in SUBSET Out!Rest : Out!Carries(tx, ipropsP, Out!Rest, late)
      <3>1. CASE tx = <<>>
        <4>1. Out!Carries(tx, ipropsP, Out!Rest, Out!Rest)
          BY <3>1, CarriesNothing, CarriesSame
        <4>2. QED
          BY <4>1
      <3>2. CASE tx # <<>>
        <4>1. PICK late : Out!Carries(tx, ipropsP, Out!Rest, late)
          BY <1>3, <3>2 DEF Out!Transmits
        <4>2. late \subseteq Out!Rest
          BY <4>1 DEF Out!Carries
        <4>3. QED
          BY <4>1, <4>2
      <3>3. QED
        BY <3>1, <3>2
    <2>3. PICK f : \A k \in 1..Len(tx) : tx[k] = [t |-> "DATA", m |-> ipropsP[f[k]]]
      BY <2>2 DEF Out!Carries
    <2>4. ASSUME NEW k \in 1..Len(tx) PROVE tx[k].t = "DATA"
      <3>1. tx[k] = [t |-> "DATA", m |-> ipropsP[f[k]]]
        BY <2>3
      <3>2. QED
        BY <3>1
    <2>5. Out!Forth
      BY <2>1, <2>2, <2>4 DEF Out!Forth
    <2>6. In!Back
      BY <2>1, <2>4 DEF In!Back
    <2>7. QED
      BY <2>1, <2>5, <2>6
  <1>4. CASE Out!Declined
    <2>1. tx = <<>> /\ pcP = "parser" /\ 1..Len(tx) = {} /\ Out!OneToOne(ipropsP)
      BY <1>4, EmptySeq DEF Out!Declined
    <2>2. Out!Forth
      BY <2>1 DEF Out!Forth
    <2>3. In!Back
      BY <2>1 DEF In!Back
    <2>4. QED
      BY <2>1, <2>2, <2>3
  <1>5. QED
    BY <1>1, <1>2, <1>3, <1>4 DEF Out!Talk

-------------------------------------------------------------------------------
(* The phases of a session, in the order a step takes it through them while  *)
(* the link stays up.                                                        *)

(* The peer does not move.                                                   *)
PeerStill == UNCHANGED <<pcP, sendonlyP, olistP, npropP, unsentP, ipropsP, todoP>>

(* Nor does anything else that matters.                                      *)
LEMMA TalkSame ==
    ASSUME UNCHANGED <<pc, sendonly, olist, nprop, unsent, iprops, todo, rx, tx>>, PeerStill,
           In!Talk \/ Out!Talk
    PROVE  In!Talk' \/ Out!Talk'
  <1>1. UNCHANGED <<pcP, sendonlyP, olistP, npropP, unsentP, ipropsP, todoP>>
    BY DEF PeerStill
  <1>2. In!Size' = In!Size /\ Out!Size' = Out!Size /\ In!Rest' = In!Rest /\ Out!Rest' = Out!Rest
    BY <1>1 DEF In!Size, Out!Size, In!SizeOf, Out!SizeOf, In!Rest, Out!Rest, In!First, Out!First
  <1>3. In!Asked' = In!Asked /\ Out!Asked' = Out!Asked
    BY <1>1, <1>2 DEF In!Asked, Out!Asked
  <1>4. In!Before' = In!Before /\ Out!Before' = Out!Before
    BY <1>1, <1>3 DEF In!Before, Out!Before
  <1>5. \A k : In!Proposed(k)' = In!Proposed(k) /\ Out!Proposed(k)' = Out!Proposed(k)
    BY <1>1 DEF In!Proposed, Out!Proposed
  <1>6. In!Complete' = In!Complete /\ Out!Complete' = Out!Complete
    BY <1>1, <1>2, <1>5 DEF In!Complete, Out!Complete
  <1>7. In!Reached' = In!Reached /\ Out!Reached' = Out!Reached
    BY <1>1, <1>4 DEF In!Reached, Out!Reached, In!SizeOf, Out!SizeOf
  <1>8. (In!Greets => In!Greets') /\ (Out!Greets => Out!Greets')
    BY <1>1 DEF In!Greets, Out!Greets
  <1>9. (In!Declined => In!Declined') /\ (Out!Declined => Out!Declined')
    BY <1>1 DEF In!Declined, Out!Declined, In!OneToOne, Out!OneToOne
  <1>10. (In!Commands => In!Commands') /\ (Out!Commands => Out!Commands')
    BY <1>1, <1>2, <1>3, <1>4, <1>5, <1>7 DEF In!Commands, Out!Commands
  <1>11. In!Transmits => In!Transmits'
    BY <1>1, <1>2, <1>6 DEF In!Transmits, In!OneToOne
  <1>12. Out!Transmits => Out!Transmits'
    BY <1>1, <1>2, <1>6 DEF Out!Transmits, Out!OneToOne
  <1>13. QED
    BY <1>8, <1>9, <1>10, <1>11, <1>12 DEF In!Talk, Out!Talk

(* What is said after something else (fprintf).                              *)
LEMMA SaidAfter ==
    ASSUME NEW p \in Seq(Line), NEW q \in Seq(Line)
    PROVE  /\ p \o q \in Seq(Line) /\ Len(p \o q) = Len(p) + Len(q)
           /\ \A k \in 1..Len(p) : (p \o q)[k] = p[k]
           /\ \A k \in 1..Len(q) : (p \o q)[Len(p) + k] = q[k]
  <1>1. Len(p) \in Nat /\ Len(q) \in Nat
    BY LenProperties
  <1>2. /\ p \o q \in Seq(Line) /\ Len(p \o q) = Len(p) + Len(q)
        /\ \A i \in 1..Len(p) + Len(q) :
              (p \o q)[i] = IF i =< Len(p) THEN p[i] ELSE q[i - Len(p)]
    BY ConcatProperties
  <1>3. \A k \in 1..Len(p) : (p \o q)[k] = p[k]
    BY <1>1, <1>2
  <1>4. ASSUME NEW k \in 1..Len(q) PROVE (p \o q)[Len(p) + k] = q[k]
    <2>1. Len(p) + k \in 1..Len(p) + Len(q) /\ ~(Len(p) + k =< Len(p)) /\ Len(p) + k - Len(p) = k
      BY <1>1
    <2>2. QED
      BY <1>2, <2>1
  <1>5. QED
    BY <1>2, <1>3, <1>4

(* The lines of a block (b2outboundproposal).                                *)
LEMMA BlockLines ==
    ASSUME TypeOK
    PROVE  /\ Block \in Seq(Line) /\ Len(Block) = BatchSize + 1
           /\ \A k \in 1..BatchSize : Block[k] = [t |-> "FC", m |-> olist[nprop + k]]
           /\ Block[BatchSize + 1].t = "F>"
           /\ Block[BatchSize + 1].sum = Cksum([k \in 1..BatchSize |-> olist[nprop + k]])
  <1> DEFINE b == [k \in 1..BatchSize |-> olist[nprop + k]]
             fc == [k \in 1..BatchSize |-> [t |-> "FC", m |-> b[k]]]
             end == [t |-> "F>", sum |-> Cksum(b)]
             T == {fc[k] : k \in 1..BatchSize} \cup {end}
  <1>1. BatchSize \in Nat /\ Block \in Seq(Line)
    BY BatchType
  <1>2. Block = fc \o <<end>>
    BY DEF Block
  <1>3. \A k \in 1..BatchSize : fc[k] = [t |-> "FC", m |-> olist[nprop + k]]
    OBVIOUS
  <1>4. end.t = "F>" /\ end.sum = Cksum([k \in 1..BatchSize |-> olist[nprop + k]])
    OBVIOUS
  <1>5. fc \in [1..BatchSize -> T]
    OBVIOUS
  <1> HIDE DEF b, fc, end, T
  <1>6. fc \in Seq(T) /\ Len(fc) = BatchSize
    <2>1. fc \in Seq(T)
      BY <1>1, <1>5, SeqDef
    <2>2. DOMAIN fc = 1..BatchSize
      BY <1>5
    <2>3. QED
      BY <1>1, <2>1, <2>2, LenProperties
  <1>7. <<end>> \in Seq(T) /\ Len(<<end>>) = 1 /\ <<end>>[1] = end
    <2>1. end \in T
      BY DEF T
    <2>2. QED
      BY <2>1
  <1>8. /\ Len(fc \o <<end>>) = BatchSize + 1
        /\ \A i \in 1..BatchSize + 1 :
              (fc \o <<end>>)[i] = IF i =< BatchSize THEN fc[i] ELSE <<end>>[i - BatchSize]
    BY <1>6, <1>7, ConcatProperties
  <1>9. \A k \in 1..BatchSize : Block[k] = fc[k]
    BY <1>1, <1>2, <1>8
  <1>10. Block[BatchSize + 1] = end
    BY <1>1, <1>2, <1>7, <1>8
  <1>11. QED
    BY <1>1, <1>2, <1>3, <1>4, <1>8, <1>9, <1>10

(* A block of proposals, or FF, is said (b2outboundproposal).                *)
LEMMA BlockSaid ==
    ASSUME TypeOK, link = "up", ~Exit, NEW greeting \in Seq(Line), NEW last,
           NEW to \in {"wait", "parser"}, B2Out(greeting, last, to),
           UNCHANGED <<olist, nprop>>,
           rx' = <<>>, iprops' = <<>>, ipropsP' = <<>>,
           NEW pre, pre = tx \o greeting
    PROVE  /\ Out!Before' = Len(pre) /\ \A k \in 1..Len(pre) : tx'[k] = pre[k]
           /\ Out!Reached' => Out!Commands'
  <1> DEFINE n == Out!Asked'
             tail == IF pc' = "answer" THEN Block ELSE Just("FF")
  <1>1. UNCHANGED <<olist, nprop>>
    OBVIOUS
  <1>2. /\ BatchSize \in Nat /\ Remaining \in Nat /\ nprop \in Nat
        /\ Remaining > 0 => BatchSize > 0
    <2>1. BatchSize \in Nat /\ Remaining \in Nat /\ nprop \in Nat
      BY BatchType
    <2>2. Remaining > 0 => BatchSize > 0
      BY <2>1, ConstantsAssumption DEF BatchSize
    <2>3. QED
      BY <2>1, <2>2
  <1>3. Out!Size' = BatchSize
    BY <1>1 DEF Out!Size, Out!SizeOf, BatchSize, Remaining
  <1>4. /\ tx' = tx \o (greeting \o tail)
        /\ pc' \in {"answer", "wait", "parser"}
        /\ pc' = "answer" => Remaining > 0
    BY DEF B2Out, Says
  <1>5. n = IF pc' = "answer" THEN BatchSize ELSE 0
    BY <1>3 DEF Out!Asked
  <1>6. /\ tail \in Seq(Line) /\ Len(tail) = n + 1
        /\ \A k \in 1..n : tail[k] = [t |-> "FC", m |-> olist[nprop + k]]
        /\ tail[n+1].t = IF pc' = "answer" THEN "F>" ELSE "FF"
    <2>1. CASE pc' = "answer"
      BY <1>5, <2>1, BlockLines
    <2>2. CASE pc' # "answer"
      <3>1. tail = <<[t |-> "FF"]>> /\ n = 0
        BY <1>5, <2>2 DEF Just
      <3> DEFINE ff == [t |-> "FF"]
      <3>2. ff \in Line /\ ff.t = "FF"
        BY DEF Line, Bare
      <3>3. tail = <<ff>>
        BY <3>1
      <3> HIDE DEF ff, tail
      <3>4. tail \in Seq(Line) /\ Len(tail) = 1 /\ tail[1] = ff
        BY <3>2, <3>3
      <3>5. QED
        BY <2>2, <3>1, <3>2, <3>4
    <2>3. QED
      BY <2>1, <2>2
  <1> HIDE DEF tail, n
  <1>7. /\ n \in Nat /\ Len(pre) \in Nat /\ Len(tx') = Len(pre) + n + 1
        /\ \A k \in 1..Len(pre) : tx'[k] = pre[k]
        /\ \A k \in 1..n+1 : tx'[Len(pre) + k] = tail[k]
    <2>1. tx \in Seq(Line) /\ n \in Nat /\ tail \in Seq(Line) /\ Len(tail) = n + 1
      BY <1>2, <1>5, <1>6 DEF TypeOK
    <2>2. pre \in Seq(Line) /\ Len(pre) \in Nat
      BY <2>1, ConcatProperties, LenProperties
    <2>3. tx' = pre \o tail
      <3>1. (tx \o greeting) \o tail = tx \o (greeting \o tail)
        BY <2>1, ConcatAssociative, SMTT(60)
      <3>2. QED
        BY <1>4, <3>1
    <2> DEFINE all == pre \o tail
    <2>4. /\ Len(all) = Len(pre) + Len(tail)
          /\ \A k \in 1..Len(pre) : all[k] = pre[k]
          /\ \A k \in 1..Len(tail) : all[Len(pre) + k] = tail[k]
      BY <2>1, <2>2, SaidAfter
    <2>5. tx' = all
      BY <2>3
    <2> HIDE DEF all
    <2>6. QED
      BY <2>1, <2>2, <2>4, <2>5
  <1>8. Out!Before' = Len(pre)
    <2>1. Len(ipropsP') = 0
      BY EmptySeq
    <2>2. Out!Before' = Len(tx') - 1 - n + Len(ipropsP')
      BY DEF Out!Before, n
    <2>3. QED
      BY <1>7, <2>1, <2>2
  <1>9. ASSUME Out!Reached' PROVE Out!Commands'
    <2>1. Len(ipropsP') = 0 /\ 1..Len(ipropsP') = {}
      BY EmptySeq
    <2>2. \A k \in Len(ipropsP')+1 .. n :
             tx'[Out!Before' + k - Len(ipropsP')] = [t |-> "FC", m |-> Out!Proposed(k)']
      <3> SUFFICES ASSUME NEW k \in 1..n
                   PROVE  tx'[Len(pre) + k] = [t |-> "FC", m |-> Out!Proposed(k)']
        <4>1. \A k \in Len(ipropsP')+1 .. n :
                 k \in 1..n /\ Out!Before' + k - Len(ipropsP') = Len(pre) + k
          BY <1>7, <1>8, <2>1
        <4>2. QED
          BY <4>1
      <3>1. k \in 1..n+1
        BY <1>7
      <3>2. Out!Proposed(k)' = olist[nprop + k]
        BY <1>1 DEF Out!Proposed
      <3>3. QED
        BY <1>6, <1>7, <3>1, <3>2
    <2>3. tx'[Len(tx')].t = IF pc' = "answer" THEN "F>" ELSE "FF"
      <3>1. n+1 \in 1..n+1 /\ Len(tx') = Len(pre) + (n+1)
        BY <1>7
      <3>2. QED
        BY <1>6, <1>7, <3>1
    <2>4. tx' # <<>>
      BY <1>7, EmptySeq
    <2>5. pc' = "answer" => Out!Size' > 0
      BY <1>2, <1>3, <1>4
    <2>6. Len(ipropsP') =< n
      BY <1>7, <2>1
    <2>7. QED
      BY <1>4, <1>9, <2>1, <2>2, <2>3, <2>4, <2>5, <2>6 DEF Out!Commands, n
  <1>10. QED
    BY <1>7, <1>8, <1>9

(* The client reads the greeting, and then has its turn (wl2k_exchange).     *)
LEMMA GreetsStep ==
    ASSUME TypeOK, link = "up", ~Exit, PeerStill, In!Greets,
           GreetIgnored \/ GreetSID \/ GreetPrompt
    PROVE  In!Greets' \/ Out!Commands'
  <1>1. /\ Role = "client" /\ pc \in {"greet", "sid"} /\ pcP = "greet"
        /\ ipropsP = <<>> /\ iprops = <<>> /\ tx = <<>>
        /\ rx # <<>> /\ rx[Len(rx)].t = ">"
        /\ \A k \in 1 .. Len(rx) - 1 : rx[k].t \in {"SID", "?"}
    BY DEF In!Greets
  <1>2. rx' = Tail(rx) /\ iprops' = iprops
    BY DEF GreetIgnored, GreetSID, GreetPrompt, Reads, inVars
  <1>3. /\ Len(rx) \in Nat \ {0} /\ Head(rx) = rx[1] /\ Len(rx') = Len(rx) - 1
        /\ \A k \in 1..Len(rx') : k + 1 \in 1..Len(rx) /\ rx'[k] = rx[k+1]
        /\ rx' \in Seq(Line)
    BY <1>1, <1>2, ReadShifts, HeadTailProperties DEF TypeOK
  <1>4. pcP' = "greet" /\ ipropsP' = <<>>
    BY <1>1 DEF PeerStill
  <1>5. CASE GreetIgnored \/ GreetSID
    <2>1. pc' \in {"greet", "sid"} /\ tx' = tx /\ Head(rx).t # ">"
      <3>1. CASE GreetIgnored
        BY <1>1, <3>1 DEF GreetIgnored, Reads, Dropped, Comment
      <3>2. CASE GreetSID
        BY <1>1, <3>2 DEF GreetSID, Reads
      <3>3. QED
        BY <1>5, <3>1, <3>2
    <2>2. Len(rx) # 1
      BY <1>1, <1>3, <2>1
    <2>3. Len(rx') \in Nat \ {0} /\ Len(rx') + 1 = Len(rx)
      BY <1>3, <2>2
    <2>4. rx' # <<>> /\ rx'[Len(rx')].t = ">"
      BY <1>1, <1>3, <2>3, EmptySeq
    <2>5. \A k \in 1 .. Len(rx') - 1 : rx'[k].t \in {"SID", "?"}
      <3>1. \A k \in 1 .. Len(rx') - 1 : k \in 1..Len(rx') /\ k+1 \in 1 .. Len(rx) - 1
        BY <2>3
      <3>2. QED
        BY <1>1, <1>3, <3>1
    <2>6. QED
      BY <1>1, <1>2, <1>4, <2>1, <2>4, <2>5 DEF In!Greets
  <1>6. CASE GreetPrompt
    <2> DEFINE qtc == [t |-> "QTC"]
               sid == [t |-> "SID"]
               greeting == Just("QTC") \o Just("SID")
    <2>1. qtc \in Line /\ sid \in Line /\ qtc.t = "QTC" /\ sid.t = "SID"
      BY DEF Line, Bare
    <2>2. greeting = <<qtc>> \o <<sid>>
      BY DEF Just
    <2> HIDE DEF qtc, sid, greeting
    <2>3. greeting \in Seq(Line) /\ Len(greeting) = 2 /\ greeting[1] = qtc /\ greeting[2] = sid
      <3>1. /\ <<qtc>> \in Seq(Line) /\ Len(<<qtc>>) = 1 /\ <<qtc>>[1] = qtc
            /\ <<sid>> \in Seq(Line) /\ Len(<<sid>>) = 1 /\ <<sid>>[1] = sid
        BY <2>1
      <3>2. /\ greeting \in Seq(Line) /\ Len(greeting) = 1 + 1
            /\ \A k \in 1..1 : greeting[k] = <<qtc>>[k]
            /\ \A k \in 1..1 : greeting[1 + k] = <<sid>>[k]
        BY <2>2, <3>1, SaidAfter
      <3>3. QED
        BY <3>1, <3>2
    <2>4. tx \o greeting = greeting
      BY <1>1, <2>3, ConcatEmptySeq
    <2>5. Head(rx).t = ">" /\ B2Out(greeting, ">", "wait") /\ UNCHANGED <<olist, nprop>>
      BY <1>6 DEF GreetPrompt, Reads, greeting, outVars
    <2>6. rx' = <<>>
      <3>1. Len(rx) = 1
        BY <1>1, <1>3, <2>5
      <3>2. QED
        BY <1>3, <3>1, EmptySeq
    <2>7. /\ Out!Before' = 2 /\ \A k \in 1..2 : tx'[k] = greeting[k]
          /\ Out!Reached' => Out!Commands'
      BY <1>1, <1>2, <1>4, <2>3, <2>4, <2>5, <2>6, BlockSaid
    <2>8. tx'[1].t = "QTC" /\ tx'[2].t = "SID"
      BY <2>1, <2>3, <2>7
    <2>9. Out!Reached'
      BY <1>1, <1>4, <2>7, <2>8 DEF Out!Reached, RoleP
    <2>10. QED
      BY <2>7, <2>9
  <1>7. QED
    BY <1>5, <1>6

(* Nothing to read, or an FF where an answer was expected: the program waits,*)
(* for input at the most (wl2k_wait_for_response).                           *)
LEMMA WaitingStep ==
    ASSUME TypeOK, P!TypeOK, ~Exit, PeerStill, GoesOn,
           Out!Greets \/ Out!Commands \/ In!Declined \/ Out!Declined
    PROVE  In!Talk' \/ Out!Talk'
  <1>1. CASE Quiet
    <2>1. UNCHANGED <<pc, sendonly, olist, nprop, unsent, iprops, todo, rx, tx>>
      BY <1>1 DEF Quiet, outVars, inVars, netVars
    <2>2. In!Talk \/ Out!Talk
      BY DEF In!Talk, Out!Talk
    <2>3. QED
      BY <2>1, <2>2, TalkSame
  <1>2. CASE ~Quiet /\ rx = <<>>
    <2>1. Out!Commands /\ pc = "wait" /\ WaitReadable
      <3>1. pc \in {"greet", "answer", "wait", "parser"}
        BY <1>2 DEF Out!Greets, Out!Commands, In!Declined, Out!Declined
      <3>2. pc = "wait" => Out!Commands
        BY DEF Out!Greets, Out!Commands, In!Declined, Out!Declined
      <3>3. CASE pc = "greet"
        BY <1>2, <3>3 DEF GoesOn, GreetIgnored, GreetSID, GreetPrompt, Reads
      <3>4. CASE pc = "answer"
        BY <1>2, <3>4 DEF GoesOn, AnswerSkip, AnswerFS, Reads
      <3>5. CASE pc = "parser"
        BY <1>2, <3>5 DEF GoesOn, ParseComment, ParseFC, ParseFF, ParsePrompt,
             ParseBlockSendOnly, ParseBlock, Reads
      <3>6. CASE pc = "wait"
        BY <1>2, <3>2, <3>6 DEF GoesOn
      <3>7. QED
        BY <3>1, <3>3, <3>4, <3>5, <3>6
    <2>2. pc' = "parser" /\ UNCHANGED <<iprops, rx, tx, olist, nprop>>
      BY <2>1 DEF WaitReadable, outVars, inVars, netVars
    <2>3. UNCHANGED <<pcP, olistP, npropP, unsentP, ipropsP, todoP>>
      BY DEF PeerStill
    <2>4. Out!Asked = 0 /\ Out!Asked' = 0
      BY <2>1, <2>2 DEF Out!Asked
    <2>5. Out!Before' = Out!Before
      BY <2>2, <2>3, <2>4 DEF Out!Before
    <2>6. Out!Reached'
      <3>1. Out!Reached
        BY <2>1 DEF Out!Commands
      <3>2. Out!SizeOf(olistP, npropP)' = Out!SizeOf(olistP, npropP)
        BY <2>3 DEF Out!SizeOf
      <3>3. QED
        BY <2>2, <2>3, <2>5, <3>1, <3>2 DEF Out!Reached, Out!SizeOf
    <2>7. \A k : Out!Proposed(k)' = Out!Proposed(k)
      BY <2>2 DEF Out!Proposed
    <2>8. Out!Commands'
      BY <2>1, <2>2, <2>3, <2>4, <2>5, <2>6, <2>7 DEF Out!Commands
    <2>9. QED
      BY <2>8 DEF Out!Talk
  <1>3. CASE ~Quiet /\ rx # <<>>
    <2>1. /\ pc = "answer" /\ rx = <<[t |-> "FF"]>>
      BY <1>3 DEF Out!Greets, Out!Commands, In!Declined, Out!Declined
    <2>2. Head(rx).t = "FF"
      BY <2>1
    <2>3. QED
      BY <1>3, <2>1, <2>2 DEF GoesOn, AnswerSkip, AnswerFS, Reads
  <1>4. QED
    BY <1>1, <1>2, <1>3

(* What is in front of this program while it reads a block (inbound_parser). *)
LEMMA AskedLines ==
    ASSUME TypeOK, P!TypeOK, In!Commands
    PROVE  /\ In!Asked \in Nat /\ Len(rx) \in Nat \ {0} /\ Len(iprops) \in 0..In!Asked
           /\ In!Before \in Nat
           /\ \A k \in 1..In!Asked : npropP + k \in 1..Len(olistP)
           /\ \A j \in 1..Len(rx) :
                \/ j \in 1..In!Before
                \/ /\ j - In!Before + Len(iprops) \in Len(iprops)+1 .. In!Asked
                   /\ rx[j].t = "FC"
                   /\ rx[j].m = In!Proposed(j - In!Before + Len(iprops))
                \/ j = Len(rx) /\ rx[j].t \in {"F>", "FF"}
           /\ \A j \in 1..In!Before : rx[j].t \in {"FS", "SID", "QTC"}
  <1>1. /\ olistP \in Seq(OutgoingP) /\ Len(olistP) \in Nat /\ npropP \in 0..Len(olistP)
        /\ Len(rx) \in Nat /\ Len(iprops) \in Nat /\ PROPLIMIT \in Nat
    BY LenProperties, ConstantsAssumption DEF TypeOK, P!TypeOK
  <1>2. In!Asked \in Nat /\ In!Asked =< Len(olistP) - npropP
    BY <1>1 DEF In!Asked, In!Size, In!SizeOf
  <1>3. Len(rx) \in Nat \ {0}
    BY <1>1, EmptySeq DEF In!Commands, TypeOK
  <1>4. Len(iprops) \in 0..In!Asked
    BY <1>1, <1>2 DEF In!Commands
  <1>5. In!Before \in Int /\ In!Before = Len(rx) - 1 - In!Asked + Len(iprops)
    BY <1>1, <1>2 DEF In!Before
  <1>6. In!Before \in Nat /\ \A j \in 1..In!Before : rx[j].t \in {"FS", "SID", "QTC"}
    <2>1. CASE In!Before = 0
      BY <2>1
    <2>2. CASE /\ In!Before = 1
               /\ rx[1] = [t |-> "FS", ans |-> [k \in 1..In!SizeOf(olist, nprop) |-> "N"]]
      BY <2>2
    <2>3. CASE /\ In!Before > 0 /\ rx[In!Before].t = "SID"
               /\ \A k \in 1..In!Before - 1 : rx[k].t = "QTC"
      <3>1. \A j \in 1..In!Before : j = In!Before \/ j \in 1..In!Before - 1
        BY <1>5
      <3>2. QED
        BY <1>5, <2>3, <3>1
    <2>4. QED
      BY <2>1, <2>2, <2>3 DEF In!Commands, In!Reached
  <1>7. ASSUME NEW j \in 1..Len(rx), j \notin 1..In!Before, j # Len(rx)
        PROVE  /\ j - In!Before + Len(iprops) \in Len(iprops)+1 .. In!Asked
               /\ rx[j].t = "FC"
               /\ rx[j].m = In!Proposed(j - In!Before + Len(iprops))
    <2> DEFINE k == j - In!Before + Len(iprops)
    <2>1. k \in Len(iprops)+1 .. In!Asked /\ In!Before + k - Len(iprops) = j
      BY <1>1, <1>2, <1>3, <1>5, <1>6, <1>7
    <2>2. rx[In!Before + k - Len(iprops)] = [t |-> "FC", m |-> In!Proposed(k)]
      BY <2>1 DEF In!Commands
    <2>3. QED
      BY <2>1, <2>2
  <1>8. rx[Len(rx)].t \in {"F>", "FF"}
    BY DEF In!Commands
  <1>9. QED
    BY <1>1, <1>2, <1>3, <1>4, <1>6, <1>7, <1>8, SMTT(60)

(* What the peer said before its block is read.                              *)
LEMMA AskedMore ==
    ASSUME TypeOK, P!TypeOK, PeerStill, In!Commands, In!Before > 0, iprops = <<>>,
           rx' = Tail(rx), UNCHANGED <<iprops, tx>>
    PROVE  /\ In!Before' = In!Before - 1 /\ rx' # <<>>
           /\ \A k \in 1..In!Before' : k + 1 \in 1..In!Before /\ rx'[k] = rx[k+1]
           /\ In!Reached' => In!Commands'
  <1>1. UNCHANGED <<pcP, olistP, npropP, unsentP, ipropsP, todoP>>
    BY DEF PeerStill
  <1>2. /\ In!Asked \in Nat /\ Len(rx) \in Nat \ {0} /\ In!Before \in Nat
        /\ rx # <<>> /\ Len(iprops) = 0 /\ 1..Len(iprops) = {}
    <2>1. In!Asked \in Nat /\ In!Before \in Nat /\ rx # <<>>
      BY AskedLines DEF In!Commands
    <2>2. Len(iprops) = 0
      BY EmptySeq
    <2>3. Len(rx) \in Nat \ {0}
      BY AskedLines
    <2>4. QED
      BY <2>1, <2>2, <2>3
  <1>3. /\ Len(rx') = Len(rx) - 1
        /\ \A k \in 1..Len(rx') : k + 1 \in 1..Len(rx) /\ rx'[k] = rx[k+1]
    BY <1>2, ReadShifts
  <1>4. In!Asked' = In!Asked
    BY <1>1 DEF In!Asked, In!Size, In!SizeOf
  <1>5. In!Before = Len(rx) - 1 - In!Asked /\ In!Before' = In!Before - 1
    <2>1. In!Before = Len(rx) - 1 - In!Asked + Len(iprops)
      BY DEF In!Before
    <2>2. In!Before' = Len(rx') - 1 - In!Asked' + Len(iprops')
      BY DEF In!Before
    <2>3. QED
      BY <1>2, <1>3, <1>4, <2>1, <2>2
  <1>6. Len(rx') \in Nat \ {0} /\ Len(rx') + 1 = Len(rx)
    BY <1>2, <1>3, <1>5
  <1>7. \A k \in 1..In!Before' : k + 1 \in 1..In!Before /\ rx'[k] = rx[k+1]
    <2>1. \A k \in 1..In!Before' : k + 1 \in 1..In!Before /\ k \in 1..Len(rx')
      BY <1>2, <1>5, <1>6
    <2>2. QED
      BY <1>3, <2>1
  <1>8. rx' # <<>>
    BY <1>6, EmptySeq
  <1>9. rx'[Len(rx')] = rx[Len(rx)]
    <2>1. \A k \in Nat \ {0} : k \in 1..k
      OBVIOUS
    <2>2. Len(rx') \in 1..Len(rx')
      BY <1>6, <2>1
    <2>3. QED
      BY <1>3, <1>6, <2>2
  <1>10. \A k \in 1..In!Asked : rx'[In!Before' + k] = [t |-> "FC", m |-> In!Proposed(k)']
    <2> SUFFICES ASSUME NEW k \in 1..In!Asked
                 PROVE  rx'[In!Before' + k] = [t |-> "FC", m |-> In!Proposed(k)']
      OBVIOUS
    <2>1. In!Before' + k \in 1..Len(rx') /\ In!Before' + k + 1 = In!Before + k - 0
      BY <1>2, <1>5, <1>6
    <2>2. rx'[In!Before' + k] = rx[In!Before + k - 0]
      BY <1>3, <2>1
    <2>3. k \in Len(iprops)+1 .. In!Asked /\ Len(iprops) = 0
      BY <1>2
    <2>4. rx[In!Before + k - 0] = [t |-> "FC", m |-> In!Proposed(k)]
      BY <2>3 DEF In!Commands
    <2>5. In!Proposed(k)' = In!Proposed(k)
      BY <1>1 DEF In!Proposed
    <2>6. QED
      BY <2>2, <2>4, <2>5
  <1>11. ASSUME In!Reached' PROVE In!Commands'
    <2>1. \A k \in Len(iprops')+1 .. In!Asked' :
             rx'[In!Before' + k - Len(iprops')] = [t |-> "FC", m |-> In!Proposed(k)']
      <3>1. \A k \in Len(iprops')+1 .. In!Asked' :
               k \in 1..In!Asked /\ In!Before' + k - Len(iprops') = In!Before' + k
        BY <1>2, <1>4, <1>5
      <3>2. QED
        BY <1>10, <3>1
    <2>2. In!Size' = In!Size
      BY <1>1 DEF In!Size, In!SizeOf
    <2>3. QED
      BY <1>1, <1>2, <1>4, <1>8, <1>9, <1>11, <2>1, <2>2 DEF In!Commands
  <1>12. QED
    BY <1>5, <1>7, <1>8, <1>11

(* A proposal is read (inbound_parser, F_C).                                 *)
LEMMA AskedFC ==
    ASSUME TypeOK, P!TypeOK, PeerStill, ~Exit, In!Commands, pc = "parser", ParseFC
    PROVE  In!Commands'
  <1> DEFINE n == Len(iprops)
  <1>1. UNCHANGED <<pcP, olistP, npropP, unsentP, ipropsP, todoP>>
    BY DEF PeerStill
  <1>2. /\ In!Asked \in Nat /\ Len(rx) \in Nat \ {0} /\ n \in 0..In!Asked
        /\ In!Before = 0
    BY AskedLines DEF In!Commands, In!Reached
  <1>3. rx # <<>> /\ rx' = Tail(rx) /\ Head(rx).t \in {"FC", "FCbad"}
    BY DEF ParseFC, Reads
  <1>4. /\ Head(rx) = rx[1] /\ Len(rx') = Len(rx) - 1 /\ 1 \in 1..Len(rx)
        /\ \A k \in 1..Len(rx') : k + 1 \in 1..Len(rx) /\ rx'[k] = rx[k+1]
    <2>1. /\ Head(rx) = rx[1] /\ Len(rx') = Len(rx) - 1
          /\ \A k \in 1..Len(rx') : k + 1 \in 1..Len(rx) /\ rx'[k] = rx[k+1]
      BY <1>3, ReadShifts
    <2>2. 1 \in 1..Len(rx)
      BY <1>2
    <2>3. QED
      BY <2>1, <2>2
  <1>5. /\ 1 - In!Before + n \in n+1 .. In!Asked
        /\ rx[1].t = "FC" /\ rx[1].m = In!Proposed(1 - In!Before + n)
    BY <1>2, <1>3, <1>4, AskedLines
  <1>6. n+1 \in 1..In!Asked /\ rx[1].m = In!Proposed(n+1)
    <2>1. 1 - In!Before + n = n+1
      BY <1>2
    <2>2. QED
      BY <1>2, <1>5, <2>1
  <1>7. pc' = "parser" /\ tx' = tx /\ iprops' = Append(iprops, rx[1].m)
    BY <1>4, <1>5 DEF ParseFC
  <1>8. /\ Len(iprops') = n+1 /\ iprops'[n+1] = In!Proposed(n+1)
        /\ \A i \in 1..n : iprops'[i] = iprops[i]
    <2>1. iprops \in Seq(Msg) /\ Head(rx) \in Line
      BY <1>3, HeadTailProperties DEF TypeOK
    <2>2. rx[1].m \in Msg
      BY <1>4, <1>5, <2>1, LineFields
    <2>3. QED
      BY <1>6, <1>7, <2>1, <2>2, AppendProperties
  <1>9. In!Asked' = In!Asked /\ In!Size' = In!Size /\ \A k : In!Proposed(k)' = In!Proposed(k)
    BY <1>1 DEF In!Asked, In!Size, In!SizeOf, In!Proposed
  <1>10. In!Before = Len(rx) - 1 - In!Asked + n /\ In!Before' = 0
    <2>1. In!Before = Len(rx) - 1 - In!Asked + n
      BY DEF In!Before
    <2>2. In!Before' = Len(rx') - 1 - In!Asked' + Len(iprops')
      BY DEF In!Before
    <2>3. QED
      BY <1>2, <1>4, <1>8, <1>9, <2>1, <2>2
  <1>11. Len(rx') \in Nat \ {0} /\ Len(rx') + 1 = Len(rx)
    BY <1>2, <1>4, <1>6, <1>10
  <1>12. rx' # <<>> /\ rx'[Len(rx')] = rx[Len(rx)]
    <2>1. Len(rx') \in 1..Len(rx')
      BY <1>11
    <2>2. QED
      BY <1>4, <1>11, <2>1, EmptySeq
  <1>13. ASSUME NEW k \in n+2 .. In!Asked
         PROVE  rx'[0 + k - (n+1)] = [t |-> "FC", m |-> In!Proposed(k)]
    <2>1. 0 + k - (n+1) \in 1..Len(rx') /\ 0 + k - (n+1) + 1 = In!Before + k - n
      BY <1>2, <1>10, <1>11
    <2>2. rx'[0 + k - (n+1)] = rx[In!Before + k - n]
      BY <1>4, <2>1
    <2>3. k \in n+1 .. In!Asked
      BY <1>2
    <2>4. rx[In!Before + k - n] = [t |-> "FC", m |-> In!Proposed(k)]
      BY <2>3 DEF In!Commands
    <2>5. QED
      BY <2>2, <2>4
  <1>14. \A k \in Len(iprops')+1 .. In!Asked' :
            rx'[In!Before' + k - Len(iprops')] = [t |-> "FC", m |-> In!Proposed(k)']
    <2>1. \A k \in Len(iprops')+1 .. In!Asked' :
             k \in n+2 .. In!Asked /\ In!Before' + k - Len(iprops') = 0 + k - (n+1)
      BY <1>2, <1>8, <1>9, <1>10
    <2>2. QED
      BY <1>9, <1>13, <2>1
  <1>15. \A k \in 1..Len(iprops') : iprops'[k] = In!Proposed(k)'
    <2>1. \A k \in 1..Len(iprops') : k = n+1 \/ k \in 1..n
      BY <1>2, <1>8
    <2>2. \A k \in 1..n : iprops[k] = In!Proposed(k)
      BY DEF In!Commands
    <2>3. QED
      BY <1>8, <1>9, <2>1, <2>2
  <1>16. Len(iprops') =< In!Asked'
    BY <1>2, <1>6, <1>8, <1>9
  <1>17. In!Reached'
    BY <1>7, <1>10 DEF In!Reached
  <1>18. QED
    BY <1>1, <1>7, <1>9, <1>12, <1>14, <1>15, <1>16, <1>17 DEF In!Commands

(* The last line of what the peer said is read.                              *)
LEMMA AskedLast ==
    ASSUME TypeOK, P!TypeOK, In!Commands, pc = "parser", NEW kind \in {"F>", "FF"},
           Reads({kind})
    PROVE  /\ rx' = <<>> /\ (kind = "F>" <=> pcP = "answer")
           /\ Len(iprops) = In!Asked
  <1>1. /\ In!Asked \in Nat /\ Len(rx) \in Nat \ {0} /\ Len(iprops) \in 0..In!Asked
        /\ In!Before = 0
    BY AskedLines DEF In!Commands, In!Reached
  <1>2. rx # <<>> /\ rx' = Tail(rx) /\ Head(rx).t = kind
    BY DEF Reads
  <1>3. Head(rx) = rx[1] /\ Len(rx') = Len(rx) - 1 /\ rx' \in Seq(Line)
    BY <1>2, ReadShifts, HeadTailProperties DEF TypeOK
  <1>4. 1 \in 1..Len(rx) /\ rx[1].t # "FC" /\ 1 \notin 1..In!Before
    BY <1>1, <1>2, <1>3
  <1>5. Len(rx) = 1
    BY <1>4, AskedLines
  <1>6. rx' = <<>>
    <2>1. Len(rx') = 0
      BY <1>3, <1>5
    <2>2. QED
      BY <1>3, <2>1, EmptySeq
  <1>7. kind = "F>" <=> pcP = "answer"
    BY <1>2, <1>3, <1>5 DEF In!Commands
  <1>8. In!Before = Len(rx) - 1 - In!Asked + Len(iprops)
    BY DEF In!Before
  <1>9. Len(iprops) = In!Asked
    <2>1. In!Before = 0 /\ In!Asked \in Int /\ Len(iprops) \in Int
      BY <1>1
    <2>2. 0 = 1 - 1 - In!Asked + Len(iprops)
      BY <1>5, <1>8, <2>1
    <2>3. QED
      BY <2>1, <2>2
  <1>10. QED
    BY <1>6, <1>7, <1>9

(* The turn is this program's.                                               *)
LEMMA AskedFF ==
    ASSUME TypeOK, P!TypeOK, link = "up", PeerStill, ~Exit, In!Commands, pc = "parser",
           ParseFF
    PROVE  Out!Commands'
  <1>1. /\ Reads({"FF"}) /\ B2Out(<<>>, "FF", "parser") /\ UNCHANGED <<olist, nprop>>
        /\ iprops' = iprops
    BY DEF ParseFF, DoDelete, inVars
  <1>2. rx' = <<>> /\ pcP # "answer" /\ Len(iprops) = In!Asked
    BY <1>1, AskedLast
  <1>3. iprops' = <<>>
    <2>1. Len(iprops) = 0
      BY <1>2 DEF In!Asked
    <2>2. QED
      BY <1>1, <2>1, EmptySeq DEF TypeOK
  <1>4. pcP' \in {"wait", "parser"} /\ ipropsP' = <<>> /\ tx = <<>>
    BY <1>2 DEF In!Commands, PeerStill
  <1>5. <<>> \in Seq(Line) /\ tx \o <<>> = <<>> /\ Len(<<>>) = 0
    BY <1>4, EmptySeq, ConcatEmptySeq
  <1>6. Out!Before' = 0 /\ (Out!Reached' => Out!Commands')
    <2>1. \E pre : pre = tx \o <<>> /\ pre = <<>>
      BY <1>5
    <2>2. QED
      BY <1>1, <1>2, <1>3, <1>4, <1>5, <2>1, BlockSaid
  <1>7. Out!Reached'
    BY <1>4, <1>6 DEF Out!Reached
  <1>8. QED
    BY <1>6, <1>7

(* The block is answered.                                                    *)
LEMMA AskedBlock ==
    ASSUME TypeOK, P!TypeOK, link = "up", PeerStill, In!Forth, In!Commands, pc = "parser",
           ParseBlock \/ ParseBlockSendOnly
    PROVE  In!Transmits' \/ In!Declined'
  <1>1. UNCHANGED <<pcP, olistP, npropP, unsentP, ipropsP, todoP>>
    BY DEF PeerStill
  <1>2. Reads({"F>"}) /\ iprops' = iprops
    BY DEF ParseBlock, ParseBlockSendOnly, inVars
  <1>3. rx' = <<>> /\ pcP = "answer" /\ Len(iprops) = In!Asked
    BY <1>2, AskedLast
  <1>4. /\ In!Size' = In!Size /\ Len(iprops) = In!Size /\ In!Size > 0
        /\ tx = <<>> /\ ipropsP = <<>>
        /\ \A k \in 1..In!Size : iprops[k] = In!Proposed(k)
    BY <1>1, <1>3 DEF In!Commands, In!Asked, In!Size, In!SizeOf
  <1>5. In!OneToOne(iprops')
    <2>1. In!OneToOne(iprops)
      BY DEF In!Forth
    <2>2. QED
      BY <1>2, <2>1
  <1>6. CASE ParseBlock
    <2>1. PICK fresh : /\ todo' = fresh
                       /\ Says(IF iprops = <<>> THEN <<>>
                               ELSE <<[t |-> "FS", ans |-> [i \in 1..Len(iprops) |->
                                          IF i \in fresh THEN "Y" ELSE "N"]]>>)
      BY <1>6 DEF ParseBlock
    <2> DEFINE fs == [t |-> "FS", ans |-> [i \in 1..Len(iprops) |->
                                              IF i \in fresh THEN "Y" ELSE "N"]]
    <2>2. iprops # <<>>
      BY <1>4, EmptySeq
    <2>3. tx' = tx \o <<fs>>
      BY <2>1, <2>2 DEF Says
    <2>4. fs = [t |-> "FS", ans |-> [k \in 1..In!Size' |-> IF k \in todo' THEN "Y" ELSE "N"]]
      BY <1>4, <2>1
    <2> HIDE DEF fs
    <2>5. tx' = <<fs>>
      <3>1. <<fs>> \in Seq({fs})
        BY DEF fs
      <3>2. <<>> \o <<fs>> = <<fs>>
        BY <3>1, ConcatEmptySeq
      <3>3. QED
        BY <1>4, <2>3, <3>2
    <2>6. pc' = "receive"
      BY <1>6 DEF ParseBlock
    <2>7. In!Complete'
      <3>1. \A k : In!Proposed(k)' = In!Proposed(k)
        BY <1>1 DEF In!Proposed
      <3>2. QED
        BY <1>2, <1>4, <3>1 DEF In!Complete
    <2>8. In!Transmits'
      BY <1>1, <1>3, <1>4, <1>5, <2>4, <2>5, <2>6, <2>7 DEF In!Transmits
    <2>9. QED
      BY <2>8
  <1>7. CASE ParseBlockSendOnly
    <2> DEFINE ff == [t |-> "FF"]
    <2>1. tx' = tx \o <<ff>> /\ pc' = "parser" /\ sendonly'
      BY <1>7 DEF ParseBlockSendOnly, Says, Just
    <2>2. <<ff>> \in Seq({ff})
      OBVIOUS
    <2>3. tx' = <<ff>>
      BY <1>4, <2>1, <2>2, ConcatEmptySeq
    <2>4. In!Declined'
      BY <1>1, <1>3, <1>4, <1>5, <2>1, <2>3 DEF In!Declined
    <2>5. QED
      BY <2>4
  <1>8. QED
    BY <1>6, <1>7

(* What the peer said is read on.                                            *)
LEMMA AskedStep ==
    ASSUME TypeOK, P!TypeOK, link = "up", PeerStill, ~Exit, In!Forth, Out!Back', In!Commands,
           GoesOn
    PROVE  In!Talk' \/ Out!Talk'
  <1>1. /\ tx = <<>> /\ Len(rx) \in Nat \ {0} /\ In!Before \in Nat
        /\ \A j \in 1..In!Before : rx[j].t \in {"FS", "SID", "QTC"}
    BY AskedLines DEF In!Commands
  <1>2. CASE Quiet
    <2>1. UNCHANGED <<pc, sendonly, olist, nprop, unsent, iprops, todo, rx, tx>>
      BY <1>2 DEF Quiet, outVars, inVars, netVars
    <2>2. In!Talk \/ Out!Talk
      BY DEF In!Talk, Out!Talk
    <2>3. QED
      BY <2>1, <2>2, TalkSame
  <1>3. CASE ~Quiet /\ pc = "parser"
    <2>1. CASE ParseComment \/ ParsePrompt
      <3>1. rx # <<>> /\ rx' = Tail(rx) /\ Head(rx).t \in Comment \cup Unknown
        BY <2>1 DEF ParseComment, ParsePrompt, Reads
      <3>2. Head(rx) = rx[1] /\ 1 \in 1..Len(rx)
        BY <1>1, <3>1, ReadShifts
      <3>3. In!Before = 0
        BY <1>3 DEF In!Commands, In!Reached
      <3>4. rx[1].t \in {"FC", "F>", "FF"}
        BY <3>2, <3>3, AskedLines
      <3>5. QED
        BY <3>1, <3>2, <3>4 DEF Comment, Unknown, Prompt
    <2>2. CASE ParseFC
      BY <1>3, <2>2, AskedFC DEF In!Talk
    <2>3. CASE ParseFF
      BY <1>3, <2>3, AskedFF DEF Out!Talk
    <2>4. CASE ParseBlock \/ ParseBlockSendOnly
      BY <1>3, <2>4, AskedBlock DEF In!Talk
    <2>5. QED
      BY <1>3, <2>1, <2>2, <2>3, <2>4 DEF GoesOn
  <1>4. CASE ~Quiet /\ pc \in {"send", "wait"}
    <2>1. /\ In!Before = 0 /\ iprops = <<>> /\ (pc = "send" => unsent = {})
      BY <1>4 DEF In!Commands, In!Reached
    <2>2. (pc = "send" /\ BatchDone) \/ (pc = "wait" /\ WaitReadable)
      <3>1. unsent = {} => ~PutCompressed
        BY DEF PutCompressed, NextOf
      <3>2. QED
        BY <1>4, <2>1, <3>1 DEF GoesOn
    <2>3. pc' \in {"wait", "parser"} /\ UNCHANGED <<iprops, rx, tx>>
      BY <2>2 DEF BatchDone, WaitReadable, TypeOK, inVars, netVars
    <2>4. UNCHANGED <<pcP, olistP, npropP, unsentP, ipropsP, todoP>>
      BY DEF PeerStill
    <2>5. In!Asked' = In!Asked /\ In!Size' = In!Size /\ \A k : In!Proposed(k)' = In!Proposed(k)
      BY <2>4 DEF In!Asked, In!Size, In!SizeOf, In!Proposed
    <2>6. In!Before' = In!Before
      BY <2>3, <2>5 DEF In!Before
    <2>7. In!Reached'
      BY <2>1, <2>3, <2>6 DEF In!Reached
    <2>8. In!Commands'
      BY <2>3, <2>4, <2>5, <2>6, <2>7 DEF In!Commands
    <2>9. QED
      BY <2>8 DEF In!Talk
  <1>5. CASE ~Quiet /\ pc = "answer"
    <2>1. In!Before = 1 /\ rx[1].t = "FS" /\ iprops = <<>>
      BY <1>5 DEF In!Commands, In!Reached
    <2>2. AnswerFS
      <3>1. ASSUME AnswerSkip PROVE FALSE
        <4>1. rx # <<>> /\ rx' = Tail(rx) /\ Head(rx).t \in {";PM", ";FW"}
          BY <3>1 DEF AnswerSkip, Reads
        <4>2. Head(rx) = rx[1]
          BY <4>1, ReadShifts
        <4>3. QED
          BY <2>1, <4>1, <4>2
      <3>2. QED
        BY <1>5, <3>1 DEF GoesOn
    <2>3. pc' = "send" /\ rx' = Tail(rx) /\ UNCHANGED <<iprops, tx>>
      BY <2>2 DEF AnswerFS, Reads, inVars
    <2>4. rx' # <<>> /\ In!Before' = 0 /\ (In!Reached' => In!Commands')
      BY <2>1, <2>3, AskedMore
    <2>5. unsent' = {}
      BY <2>3, <2>4 DEF Out!Back
    <2>6. In!Reached'
      BY <2>1, <2>3, <2>4, <2>5 DEF In!Reached
    <2>7. QED
      BY <2>4, <2>6 DEF In!Talk
  <1>6. CASE ~Quiet /\ pc = "greet"
    <2>1. /\ Role = "daemon" /\ In!Before > 0 /\ iprops = <<>> /\ rx[In!Before].t = "SID"
          /\ \A k \in 1 .. In!Before - 1 : rx[k].t = "QTC"
      BY <1>6 DEF In!Commands, In!Reached
    <2>2. GreetIgnored \/ GreetSID
      BY <1>6 DEF GoesOn, GreetPrompt
    <2>3. rx # <<>> /\ rx' = Tail(rx) /\ UNCHANGED <<iprops, tx>>
      BY <2>2 DEF GreetIgnored, GreetSID, Reads, inVars
    <2>4. /\ In!Before' = In!Before - 1
          /\ \A k \in 1..In!Before' : k + 1 \in 1..In!Before /\ rx'[k] = rx[k+1]
          /\ In!Reached' => In!Commands'
      BY <2>1, <2>3, AskedMore
    <2>5. Head(rx) = rx[1]
      BY <2>3, ReadShifts
    <2>6. CASE In!Before = 1
      <3>1. Head(rx).t = "SID"
        BY <2>1, <2>5, <2>6
      <3>2. pc' = "parser"
        <4>1. ~GreetIgnored
          BY <3>1 DEF GreetIgnored, Reads, Dropped, Comment
        <4>2. QED
          BY <2>1, <2>2, <4>1 DEF GreetSID
      <3>3. In!Reached'
        BY <2>4, <2>6, <3>2 DEF In!Reached
      <3>4. QED
        BY <2>4, <3>3 DEF In!Talk
    <2>7. CASE In!Before > 1
      <3>1. Head(rx).t = "QTC"
        BY <1>1, <2>1, <2>5, <2>7
      <3>2. pc' = "greet"
        <4>1. ~GreetSID
          BY <2>1, <3>1 DEF GreetSID, Reads
        <4>2. QED
          BY <1>6, <2>2, <4>1 DEF GreetIgnored
      <3>3. In!Before' \in 1..In!Before' /\ In!Before' + 1 = In!Before /\ In!Before' > 0
        BY <1>1, <2>4, <2>7
      <3>4. rx'[In!Before'].t = "SID"
        BY <2>1, <2>4, <3>3
      <3>5. \A k \in 1 .. In!Before' - 1 : rx'[k].t = "QTC"
        <4>1. \A k \in 1 .. In!Before' - 1 : k \in 1..In!Before' /\ k + 1 \in 1 .. In!Before - 1
          BY <1>1, <2>4
        <4>2. QED
          BY <2>1, <2>4, <4>1
      <3>6. In!Reached'
        BY <2>1, <2>3, <3>2, <3>3, <3>4, <3>5 DEF In!Reached
      <3>7. QED
        BY <2>4, <3>6 DEF In!Talk
    <2>8. QED
      BY <1>1, <2>1, <2>6, <2>7
  <1>7. pc \in {"parser", "send", "wait", "answer", "greet"}
    BY DEF In!Commands, In!Reached
  <1>8. QED
    BY <1>2, <1>3, <1>4, <1>5, <1>6, <1>7

(* The messages of a block are taken, and then it is this program's turn     *)
(* (getcompressed, record_mid, inbound_parser).                              *)
LEMMA TakesStep ==
    ASSUME TypeOK, P!TypeOK, link = "up", PeerStill, ~Exit, In!Transmits, GoesOn, ~Quiet
    PROVE  In!Talk' \/ Out!Talk'
  <1>1. UNCHANGED <<pcP, olistP, npropP, unsentP, ipropsP, todoP>>
    BY DEF PeerStill
  <1>2. /\ pc \in {"receive", "record"} /\ ipropsP = <<>> /\ In!OneToOne(iprops)
        /\ rx \in Seq(Line) /\ todo \in SUBSET Int /\ In!Rest \in SUBSET Int
    <2>1. rx \in Seq(Line) /\ todo \in SUBSET Int
      BY LenProperties DEF TypeOK
    <2>2. In!Rest \in SUBSET Int
      BY <2>1 DEF In!Rest
    <2>3. QED
      BY <2>1, <2>2 DEF In!Transmits
  <1>3. In!Size' = In!Size /\ \A k : In!Proposed(k)' = In!Proposed(k)
    BY <1>1 DEF In!Size, In!SizeOf, In!Proposed
  <1> DEFINE late == IF pcP = "send" THEN {i \in 1..In!Size : npropP + i \in unsentP} ELSE {}
             Carrying == /\ pcP \in {"send", "wait", "parser"} /\ tx = <<>>
                         /\ pcP = "send" => /\ In!Complete
                                            /\ unsentP \subseteq npropP+1 .. npropP+In!Size
                         /\ In!Carries(rx, iprops, In!Rest, late)
  <1>4. ASSUME Carrying', pc' \in {"receive", "record"}, iprops' = iprops
        PROVE  In!Transmits'
    <2>1. In!OneToOne(iprops')
      BY <1>2, <1>4
    <2>2. ipropsP' = <<>>
      BY <1>1, <1>2
    <2>3. QED
      BY <1>4, <2>1, <2>2 DEF In!Transmits
  <1>5. CASE pc = "receive" /\ Receive
    <2>1. /\ rx # <<>> /\ rx' = Tail(rx) /\ pc' = "record"
          /\ UNCHANGED <<iprops, todo, tx>>
      BY <1>5 DEF Receive, Reads, inVars
    <2>2. Carrying
      BY <2>1 DEF In!Transmits
    <2>3. In!Rest = todo
      BY <1>5 DEF In!Rest
    <2> HIDE DEF late
    <2>4. PICK i \in todo : \A j \in todo : i =< j
      BY <1>2, <2>1, <2>2, <2>3, CarriesHead
    <2>5. In!Carries(rx', iprops, todo \ {i}, late)
      BY <1>2, <2>1, <2>2, <2>3, <2>4, CarriesFirst
    <2>6. In!First(todo) = {i}
      BY <1>2, <2>4, NextOne
    <2>7. In!Rest' = todo \ {i}
      BY <2>1, <2>6 DEF In!Rest, In!First
    <2>8. late' = late
      BY <1>1, <1>3 DEF late
    <2>9. In!Complete' = In!Complete
      BY <1>3, <2>1 DEF In!Complete
    <2>10. Carrying'
      BY <1>1, <1>3, <2>1, <2>2, <2>5, <2>7, <2>8, <2>9
    <2>11. QED
      BY <1>4, <2>1, <2>10 DEF In!Talk
  <1>6. CASE pc = "record" /\ Record
    <2>1. PICK i \in NextOf(todo) : todo' = todo \ {i}
      BY <1>6 DEF Record
    <2>2. pc' = "receive" /\ UNCHANGED <<iprops, rx, tx>>
      BY <1>6 DEF Record, netVars
    <2>3. Carrying
      BY <1>6 DEF In!Transmits
    <2>4. In!First(todo) = {i}
      BY <1>2, <2>1, NextOne DEF NextOf
    <2>5. In!Rest' = In!Rest
      BY <1>6, <2>1, <2>2, <2>4 DEF In!Rest, In!First
    <2> HIDE DEF late
    <2>6. late' = late
      BY <1>1, <1>3 DEF late
    <2>7. In!Complete' = In!Complete
      BY <1>3, <2>2 DEF In!Complete
    <2>8. In!Carries(rx', iprops', In!Rest', late')
      BY <2>2, <2>3, <2>5, <2>6
    <2>9. Carrying'
      BY <1>1, <1>3, <2>2, <2>3, <2>7, <2>8
    <2>10. QED
      BY <1>4, <2>2, <2>9 DEF In!Talk
  <1>7. CASE pc = "receive" /\ BlockDone
    <2>1. /\ todo = {} /\ rx' = rx /\ iprops' = <<>> /\ B2Out(<<>>, "F>", "parser")
          /\ UNCHANGED <<olist, nprop>>
      BY <1>7 DEF BlockDone, outVars
    <2>2. In!Rest = {}
      BY <1>7, <2>1 DEF In!Rest
    <2>3. rx = <<>> /\ (Carrying => late = {})
      <3>1. CASE Carrying
        <4> HIDE DEF late
        <4>1. In!Carries(rx, iprops, {}, late)
          BY <2>2, <3>1
        <4>2. QED
          BY <1>2, <4>1, CarriesNothing
      <3>2. CASE ~Carrying
        BY <3>2 DEF In!Transmits
      <3>3. QED
        BY <3>1, <3>2
    <2>4. ipropsP' = <<>> /\ pcP' = pcP
      BY <1>1, <1>2
    <2>5. tx \in Seq(Line) /\ <<>> \in Seq(Line) /\ tx \o <<>> = tx
      BY EmptySeq, ConcatEmptySeq DEF TypeOK
    <2>6. /\ Out!Before' = Len(tx) /\ \A k \in 1..Len(tx) : tx'[k] = tx[k]
          /\ Out!Reached' => Out!Commands'
      <3>1. \E pre : pre = tx \o <<>> /\ pre = tx
        BY <2>5
      <3>2. QED
        BY <2>1, <2>3, <2>4, <2>5, <3>1, BlockSaid
    <2>7. Out!Reached'
      <3>1. CASE Carrying
        <4>1. Len(tx) = 0
          BY <3>1, EmptySeq
        <4>2. pcP = "send" => unsentP = {}
          <5>1. ASSUME pcP = "send", NEW j \in unsentP PROVE FALSE
            <6>1. npropP \in Nat /\ In!Size \in Nat /\ j \in npropP+1 .. npropP+In!Size
              BY <3>1, <5>1, LenProperties DEF P!TypeOK, In!Complete
            <6>2. j - npropP \in 1..In!Size /\ npropP + (j - npropP) = j
              BY <6>1
            <6>3. j - npropP \in late
              BY <5>1, <6>2
            <6>4. QED
              BY <2>3, <3>1, <6>3
          <5>2. QED
            BY <5>1
        <4>3. QED
          BY <1>1, <2>4, <2>6, <3>1, <4>1, <4>2 DEF Out!Reached
      <3>2. CASE ~Carrying
        <4> DEFINE ans == [k \in 1..In!Size |-> IF k \in todo THEN "Y" ELSE "N"]
                   none == [k \in 1..Out!SizeOf(olistP, npropP)' |-> "N"]
                   fs == [t |-> "FS", ans |-> ans]
        <4>1. pcP = "answer" /\ tx = <<fs>>
          BY <3>2 DEF In!Transmits
        <4>2. In!Size = Out!SizeOf(olistP, npropP)'
          BY <1>1 DEF In!Size, In!SizeOf, Out!SizeOf
        <4>3. ans = none
          BY <2>1, <4>2
        <4>4. fs = [t |-> "FS", ans |-> none]
          BY <4>3
        <4> HIDE DEF fs
        <4>5. Len(tx) = 1 /\ tx[1] = fs
          BY <4>1
        <4>6. Out!Before' = 1 /\ tx'[1] = fs
          BY <2>6, <4>5
        <4>7. QED
          BY <2>4, <4>1, <4>4, <4>6 DEF Out!Reached, Out!SizeOf
      <3>3. QED
        BY <3>1, <3>2
    <2>8. QED
      BY <2>6, <2>7 DEF Out!Talk
  <1>8. QED
    BY <1>2, <1>5, <1>6, <1>7 DEF GoesOn

(* What was accepted is to be transmitted, and nothing else (FS in             *)
(* b2outboundproposal).                                                      *)
LEMMA HeardAnswer ==
    ASSUME TypeOK, P!TypeOK, Distinct, AnswerFS, ~Exit,
           NEW todoR, Head(rx).ans = [k \in 1..BatchSize |-> IF k \in todoR THEN "Y" ELSE "N"]
    PROVE  /\ pc' = "send" /\ unsent' \subseteq nprop+1 .. nprop+BatchSize
           /\ \A k \in 1..BatchSize : nprop + k \in unsent' <=> k \in todoR
  <1> DEFINE ans     == Head(rx).ans
             refused == HeardAs(ans, {"N"})
             flagged == (del \ HeardAs(ans, Answer)) \cup refused
  <1>1. /\ pc' = "send"
        /\ unsent' = {i \in nprop+1 .. nprop+BatchSize : olist[i] \notin flagged}
    BY DEF AnswerFS
  <1>2. /\ BatchSize \in Nat /\ Remaining \in Nat /\ BatchSize =< Remaining
        /\ nprop \in Nat /\ nprop + Remaining = Len(olist)
    BY BatchType
  <1>3. Len(ans) = BatchSize /\ \A k \in 1..BatchSize : ans[k] = IF k \in todoR THEN "Y" ELSE "N"
    <2>1. /\ ans \in [1..BatchSize -> {"Y", "N"}]
          /\ \A k \in 1..BatchSize : ans[k] = IF k \in todoR THEN "Y" ELSE "N"
      OBVIOUS
    <2>2. QED
      BY <1>2, <2>1, SeqDef, LenProperties
  <1>4. \A k \in 1..BatchSize : Heard(ans, k) = IF k \in todoR THEN "Y" ELSE "N"
    <2>1. \A j \in 1..BatchSize : ans[j] # "A"
      BY <1>3
    <2>2. QED
      BY <1>2, <1>3, <2>1 DEF Heard
  <1>5. \A k \in 1..BatchSize : k \in 1..Remaining /\ nprop + k \in 1..Len(olist)
    BY <1>2
  <1>6. ASSUME NEW k \in 1..BatchSize
        PROVE  olist[nprop + k] \in flagged <=> k \notin todoR
    <2>1. olist[nprop + k] \in HeardAs(ans, Answer)
      BY <1>4, <1>5 DEF HeardAs, Answer
    <2>2. olist[nprop + k] \in refused <=> k \notin todoR
      <3>1. CASE k \in todoR
        <4>1. ASSUME NEW j \in 1..Remaining, Heard(ans, j) = "N", olist[nprop + j] = olist[nprop + k]
              PROVE  FALSE
          <5>1. nprop + j \in 1..Len(olist) /\ nprop + k \in 1..Len(olist)
            BY <1>2, <1>5
          <5>2. nprop + j = nprop + k
            BY <4>1, <5>1 DEF Distinct
          <5>3. j = k
            BY <1>2, <5>2
          <5>4. QED
            BY <1>4, <3>1, <4>1, <5>3
        <4>2. QED
          BY <3>1, <4>1 DEF HeardAs
      <3>2. CASE k \notin todoR
        BY <1>4, <1>5, <3>2 DEF HeardAs
      <3>3. QED
        BY <3>1, <3>2
    <2>3. QED
      BY <2>1, <2>2
  <1>7. \A k \in 1..BatchSize : nprop + k \in nprop+1 .. nprop+BatchSize
    BY <1>2
  <1> HIDE DEF flagged
  <1>8. QED
    BY <1>1, <1>6, <1>7

(* The answer is heard, and what was accepted is transmitted.                *)
LEMMA AnsweredStep ==
    ASSUME TypeOK, P!TypeOK, Distinct, link = "up", PeerStill, ~Exit, Out!Transmits, GoesOn,
           ~Quiet
    PROVE  Out!Transmits'
  <1> DEFINE size == Out!Size
             late == {i \in 1..size : nprop + i \in unsent}
  <1>1. UNCHANGED <<pcP, olistP, npropP, unsentP, ipropsP, todoP>>
    BY DEF PeerStill
  <1>2. /\ pcP \in {"receive", "record"} /\ iprops = <<>> /\ Out!OneToOne(ipropsP)
        /\ pc \in {"answer", "send", "wait", "parser"}
    BY DEF Out!Transmits
  <1>3. Out!Rest' = Out!Rest /\ Out!OneToOne(ipropsP')
    BY <1>1, <1>2 DEF Out!Rest, Out!First
  <1>4. /\ size = BatchSize /\ size \in Nat /\ nprop \in Nat /\ nprop + size =< Len(olist)
        /\ Len(olist) \in Nat
    <2>1. size = BatchSize
      BY DEF Out!Size, Out!SizeOf, BatchSize, Remaining
    <2>2. /\ BatchSize \in Nat /\ nprop \in Nat /\ nprop + BatchSize =< Len(olist)
          /\ Len(olist) \in Nat
      BY BatchType, LenProperties, SMTT(60) DEF TypeOK
    <2>3. QED
      BY <2>1, <2>2
  <1>5. ASSUME UNCHANGED <<olist, nprop>>, Out!Complete PROVE Out!Size' = size /\ Out!Complete'
    BY <1>1, <1>5 DEF Out!Complete, Out!Proposed, Out!Size, Out!SizeOf
  <1>6. CASE pc = "answer"
    <2> DEFINE fs == [t |-> "FS", ans |-> [k \in 1..size |-> IF k \in todoP THEN "Y" ELSE "N"]]
    <2>1. /\ pcP = "receive" /\ Out!Complete /\ tx = <<>> /\ rx = <<fs>>
      BY <1>6 DEF Out!Transmits
    <2>2. fs.t = "FS" /\ fs.ans = [k \in 1..BatchSize |-> IF k \in todoP THEN "Y" ELSE "N"]
      BY <1>4
    <2> HIDE DEF fs
    <2>3. Head(rx) = fs /\ Tail(rx) = <<>>
      BY <2>1
    <2>4. AnswerFS
      BY <1>6, <2>2, <2>3 DEF GoesOn, AnswerSkip, Reads
    <2>5. /\ rx' = <<>> /\ UNCHANGED <<iprops, tx, olist, nprop>>
      BY <2>3, <2>4 DEF AnswerFS, Reads, Exit, inVars
    <2>6. /\ pc' = "send" /\ unsent' \subseteq nprop+1 .. nprop+BatchSize
          /\ \A k \in 1..BatchSize : nprop + k \in unsent' <=> k \in todoP
      BY <2>2, <2>3, <2>4, HeardAnswer
    <2>7. Out!Size' = size /\ Out!Complete'
      BY <1>5, <2>1, <2>5
    <2>8. Out!Rest' = todoP
      BY <1>3, <2>1 DEF Out!Rest
    <2>9. todoP \subseteq 1..size
      BY <2>1 DEF P!TypeOK, Out!Complete
    <2>10. {i \in 1..size : nprop + i \in unsent'} = todoP
      BY <1>4, <2>6, <2>9
    <2>11. Out!Carries(tx', ipropsP', todoP, todoP)
      BY <2>1, <2>5, CarriesNothing, CarriesSame
    <2>12. Out!Carries(tx', ipropsP', Out!Rest', {i \in 1..Out!Size' : nprop' + i \in unsent'})
      BY <2>5, <2>7, <2>8, <2>10, <2>11
    <2>13. unsent' \subseteq nprop'+1 .. nprop'+Out!Size'
      BY <1>4, <2>5, <2>6, <2>7
    <2>14. QED
      BY <1>1, <1>2, <1>3, <2>5, <2>6, <2>7, <2>12, <2>13 DEF Out!Transmits
  <1>7. CASE pc = "send" /\ PutCompressed
    <2>1. /\ Out!Complete /\ rx = <<>> /\ unsent \subseteq nprop+1 .. nprop+size
          /\ Out!Carries(tx, ipropsP, Out!Rest, late)
      BY <1>7 DEF Out!Transmits
    <2>2. PICK i \in NextOf(unsent) : /\ tx' = tx \o <<[t |-> "DATA", m |-> olist[i]]>>
                                      /\ unsent' = unsent \ {i}
      BY <1>7 DEF PutCompressed, Says
    <2>3. pc' = "send" /\ rx' = rx /\ UNCHANGED <<iprops, olist, nprop>>
      BY <1>7 DEF PutCompressed, inVars
    <2> DEFINE k == i - nprop
               data == [t |-> "DATA", m |-> olist[i]]
    <2>4. i \in unsent /\ (\A j \in unsent : i =< j) /\ k \in 1..size /\ nprop + k = i
      <3>1. i \in unsent /\ \A j \in unsent : i =< j
        BY <2>2 DEF NextOf
      <3>2. i \in nprop+1 .. nprop+size
        BY <2>1, <3>1
      <3>3. QED
        BY <1>4, <3>1, <3>2
    <2>5. k \in late /\ \A j \in late : k =< j
      BY <1>4, <2>4
    <2>6. data = [t |-> "DATA", m |-> ipropsP[k]] /\ data \in Line
      <3>1. ipropsP[k] = olist[i]
        BY <2>1, <2>4 DEF Out!Complete, Out!Proposed
      <3>2. i \in 1..Len(olist)
        BY <1>4, <2>4
      <3>3. olist[i] \in Msg
        BY <3>2, ElementOfSeq, ConstantsAssumption DEF TypeOK
      <3>4. QED
        BY <3>1, <3>3 DEF Line
    <2> HIDE DEF data
    <2>7. /\ Len(tx') = Len(tx) + 1 /\ tx'[Len(tx) + 1] = data
          /\ \A j \in 1..Len(tx) : tx'[j] = tx[j]
      <3>1. tx \in Seq(Line) /\ <<data>> \in Seq(Line) /\ Len(<<data>>) = 1 /\ <<data>>[1] = data
        BY <2>6 DEF TypeOK
      <3>2. tx' = tx \o <<data>>
        BY <2>2 DEF data
      <3>3. QED
        BY <3>1, <3>2, SaidAfter
    <2>8. Out!Rest \in SUBSET Int
      <3>1. todoP \in SUBSET Int
        BY LenProperties DEF P!TypeOK
      <3>2. QED
        BY <3>1 DEF Out!Rest
    <2>9. In!Carries(tx, ipropsP, Out!Rest, late)
      BY <2>1, CarriesSame
    <2> HIDE DEF late, k
    <2>10. In!Carries(tx', ipropsP, Out!Rest, late \ {k})
      <3>1. tx \in Seq(Line) /\ late \subseteq Out!Rest
        BY <2>9 DEF TypeOK, In!Carries
      <3>2. QED
        BY <2>5, <2>6, <2>7, <2>8, <2>9, <3>1, CarriesNext
    <2>11. Out!Size' = size /\ Out!Complete'
      BY <1>5, <2>1, <2>3
    <2>12. {j \in 1..Out!Size' : nprop' + j \in unsent'} = late \ {k}
      <3>1. \A j \in 1..size : nprop + j = i <=> j = k
        BY <1>4, <2>4
      <3>2. QED
        BY <2>2, <2>3, <2>11, <3>1 DEF late
    <2>13. Out!Carries(tx', ipropsP', Out!Rest', {j \in 1..Out!Size' : nprop' + j \in unsent'})
      BY <1>1, <1>3, <2>10, <2>12, CarriesSame
    <2>14. unsent' \subseteq nprop'+1 .. nprop'+Out!Size'
      BY <2>1, <2>2, <2>3, <2>11
    <2>15. QED
      BY <1>1, <1>2, <1>3, <2>1, <2>3, <2>11, <2>13, <2>14 DEF Out!Transmits
  <1>8. CASE pc = "send" /\ BatchDone
    <2>1. /\ rx = <<>> /\ Out!Carries(tx, ipropsP, Out!Rest, late)
      BY <1>8 DEF Out!Transmits
    <2>2. /\ unsent = {} /\ pc' \in {"wait", "parser"} /\ UNCHANGED <<iprops, rx, tx>>
      BY <1>8 DEF BatchDone, TypeOK, inVars, netVars
    <2>3. late = {}
      BY <2>2
    <2>4. Out!Carries(tx', ipropsP', Out!Rest', {})
      BY <1>1, <1>3, <2>1, <2>2, <2>3
    <2>5. QED
      BY <1>1, <1>2, <1>3, <2>1, <2>2, <2>4 DEF Out!Transmits
  <1>9. CASE pc \in {"wait", "parser"}
    <2>1. rx = <<>> /\ Out!Carries(tx, ipropsP, Out!Rest, {})
      BY <1>9 DEF Out!Transmits
    <2>2. pc = "wait" /\ WaitReadable
      BY <1>9, <2>1 DEF GoesOn, ParseComment, ParseFC, ParseFF, ParsePrompt,
           ParseBlockSendOnly, ParseBlock, Reads
    <2>3. pc' = "parser" /\ UNCHANGED <<iprops, rx, tx>>
      BY <2>2 DEF WaitReadable, inVars, netVars
    <2>4. Out!Carries(tx', ipropsP', Out!Rest', {})
      BY <1>1, <1>3, <2>1, <2>3
    <2>5. QED
      BY <1>1, <1>2, <1>3, <2>1, <2>3, <2>4 DEF Out!Transmits
  <1>10. QED
    BY <1>2, <1>6, <1>7, <1>8, <1>9 DEF GoesOn

(* Every step that leaves the link up.                                       *)
LEMMA SessionUp ==
    ASSUME TypeOK, P!TypeOK, Distinct, In!Forth, Out!Back, In!Talk \/ Out!Talk,
           link = "up", link' = "up", UNCHANGED varsP, Work \/ Mishap
    PROVE  In!Talk' \/ Out!Talk'
  <1>1. ~Exit
    BY DEF Exit
  <1>2. PeerStill
    BY DEF PeerStill, varsP
  <1>3. Out!Back'
    BY HeardStep
  <1>4. pc \notin {"login1", "login2", "answerFW"}
    BY DEF In!Talk, In!Greets, In!Commands, In!Reached, In!Transmits, In!Declined,
         Out!Talk, Out!Greets, Out!Commands, Out!Transmits, Out!Declined
  <1>5. GoesOn
    BY <1>1, <1>4, StepKinds
  <1>6. CASE Quiet
    <2>1. UNCHANGED <<pc, sendonly, olist, nprop, unsent, iprops, todo, rx, tx>>
      BY <1>6 DEF Quiet, outVars, inVars, netVars
    <2>2. QED
      BY <1>2, <2>1, TalkSame
  <1>7. CASE ~Quiet /\ In!Greets
    <2>1. pc \in {"greet", "sid"}
      BY <1>7 DEF In!Greets
    <2>2. GreetIgnored \/ GreetSID \/ GreetPrompt
      BY <1>5, <1>7, <2>1 DEF GoesOn
    <2>3. In!Greets' \/ Out!Commands'
      BY <1>1, <1>2, <1>7, <2>2, GreetsStep
    <2>4. QED
      BY <2>3 DEF In!Talk, Out!Talk
  <1>8. CASE Out!Greets \/ Out!Commands \/ In!Declined \/ Out!Declined
    BY <1>1, <1>2, <1>5, <1>8, WaitingStep
  <1>9. CASE In!Commands
    BY <1>1, <1>2, <1>3, <1>5, <1>9, AskedStep
  <1>10. CASE ~Quiet /\ In!Transmits
    BY <1>1, <1>2, <1>5, <1>10, TakesStep
  <1>11. CASE ~Quiet /\ Out!Transmits
    BY <1>1, <1>2, <1>5, <1>11, AnsweredStep DEF Out!Talk
  <1>12. QED
    BY <1>6, <1>7, <1>8, <1>9, <1>10, <1>11 DEF In!Talk, Out!Talk

(* What is read is the first line, and a program does not make a connection. *)
LEMMA ReadsStep ==
    ASSUME Work \/ Mishap
    PROVE  /\ rx' = rx \/ (rx # <<>> /\ rx' = Tail(rx))
           /\ link' = link \/ link' = "closed"
  <1>1. CASE Mishap
    BY <1>1 DEF netVars, Mishap, Late, Kill, Age, Alarm, Die, WaitGivesUp, Exit
  <1>2. CASE LoginWaits \/ LoginAnswers \/ LoginDone
    BY <1>2 DEF LoginWaits, LoginAnswers, LoginDone, Reads
  <1>3. CASE \/ GreetIgnored \/ GreetSID \/ GreetPrompt \/ GreetError
             \/ AnswerSkip \/ AnswerFS \/ AnswerError
    BY <1>3 DEF GreetIgnored, GreetSID, GreetPrompt, GreetError, AnswerSkip, AnswerFS,
         AnswerError, Reads, Exit, B2Out
  <1>4. CASE PutCompressed \/ BatchDone \/ WaitReadable \/ Record \/ EndOfFile \/ BlockDone
    BY <1>4 DEF PutCompressed, BatchDone, WaitReadable, Record, EndOfFile, BlockDone,
         netVars, Exit, B2Out
  <1>5. CASE \/ ParseComment \/ ParseFC \/ ParseFF \/ ParseFQ \/ ParseB \/ ParsePrompt
             \/ ParseUnrecognized
    BY <1>5 DEF ParseComment, ParseFC, ParseFF, ParseFQ, ParseB, ParsePrompt,
         ParseUnrecognized, Reads, Exit, B2Out
  <1>6. CASE ParseBlockSendOnly \/ ParseBlockMismatch \/ ParseBlock \/ Receive \/ ReceiveError
    BY <1>6 DEF ParseBlockSendOnly, ParseBlockMismatch, ParseBlock, Receive,
         ReceiveError, Reads, Exit
  <1>7. QED
    BY <1>1, <1>2, <1>3, <1>4, <1>5, <1>6 DEF Work

(* The last words of a program are an FQ, said in answer to an FF; into a    *)
(* dead link it says nothing.                                                *)
LEMMA LastWords ==
    ASSUME Work \/ Mishap, pc \notin {"login1", "login2"}, link' # "up"
    PROVE  \/ tx' = tx
           \/ /\ link = "up" /\ pc = "parser" /\ Reads({"FF"})
              /\ tx' = tx \o (<<>> \o Just("FQ"))
  <1>1. CASE Mishap
    BY <1>1 DEF netVars, Mishap, Late, Kill, Age, Alarm, Die, WaitGivesUp, Exit
  <1>2. CASE LoginWaits \/ LoginAnswers \/ LoginDone
    BY <1>2 DEF LoginWaits, LoginAnswers, LoginDone
  <1>3. CASE \/ GreetIgnored \/ GreetSID \/ GreetPrompt \/ GreetError
             \/ AnswerSkip \/ AnswerFS \/ AnswerError
    BY <1>3 DEF GreetIgnored, GreetSID, GreetPrompt, GreetError, AnswerSkip, AnswerFS,
         AnswerError, B2Out, Says
  <1>4. CASE PutCompressed \/ BatchDone \/ WaitReadable \/ Record \/ EndOfFile \/ BlockDone
    BY <1>4 DEF PutCompressed, BatchDone, WaitReadable, Record, EndOfFile, BlockDone,
         netVars, B2Out, Says
  <1>5. CASE \/ ParseComment \/ ParseFC \/ ParseFF \/ ParseFQ \/ ParseB \/ ParsePrompt
             \/ ParseUnrecognized
    BY <1>5 DEF ParseComment, ParseFC, ParseFF, ParseFQ, ParseB, ParsePrompt,
         ParseUnrecognized, B2Out, Says
  <1>6. CASE ParseBlockSendOnly \/ ParseBlockMismatch \/ ParseBlock \/ Receive \/ ReceiveError
    BY <1>6 DEF ParseBlockSendOnly, ParseBlockMismatch, ParseBlock, Receive,
         ReceiveError, Says
  <1>7. QED
    BY <1>1, <1>2, <1>3, <1>4, <1>5, <1>6 DEF Work

(* What the peer may hear is not touched.                                    *)
LEMMA UnheardSame ==
    ASSUME UNCHANGED varsP, tx' = tx, Out!Forth, In!Back
    PROVE  Out!Forth' /\ In!Back'
  <1>1. UNCHANGED <<pcP, olistP, npropP, unsentP, ipropsP, todoP>>
    BY DEF varsP
  <1>2. Out!Rest' = Out!Rest /\ In!Size' = In!Size
    BY <1>1 DEF Out!Rest, Out!First, In!Size, In!SizeOf
  <1>3. Out!Forth'
    BY <1>1, <1>2 DEF Out!Forth, Out!OneToOne
  <1>4. In!Back'
    BY <1>1, <1>2 DEF In!Back
  <1>5. QED
    BY <1>3, <1>4

(* Every step.                                                               *)
LEMMA SessionStep ==
    ASSUME TypeOK, P!TypeOK, TypeOK', P!TypeOK', Distinct, Distinct', Session, pc # "login1",
           pc # "login2", UNCHANGED varsP, Work \/ Mishap
    PROVE  Session'
  <1>1. In!Forth' /\ Out!Back'
    BY HeardStep DEF Session
  <1>2. CASE link' = "up"
    <2>1. link = "up"
      BY <1>2, ReadsStep
    <2>2. In!Talk' \/ Out!Talk'
      BY <1>2, <2>1, SessionUp DEF Session
    <2>3. Out!Forth' /\ In!Back' /\ (rx' = <<>> \/ tx' = <<>>)
      <3>1. (In!Talk => Out!Forth /\ In!Back /\ (rx = <<>> \/ tx = <<>>))'
        BY TalkIn, PTL
      <3>2. (TypeOK /\ P!TypeOK /\ Distinct /\ Out!Talk
                => Out!Forth /\ In!Back /\ (rx = <<>> \/ tx = <<>>))'
        BY TalkOut, PTL
      <3>3. QED
        BY <2>2, <3>1, <3>2
    <2>4. QED
      BY <1>1, <2>2, <2>3 DEF Session
  <1>3. CASE link' # "up" /\ tx' = tx
    <2>1. Out!Forth' /\ In!Back'
      BY <1>3, UnheardSame DEF Session
    <2>2. rx' = <<>> \/ tx' = <<>>
      BY <1>3, ReadsStep DEF Session
    <2>3. QED
      BY <1>1, <1>3, <2>1, <2>2 DEF Session
  <1>4. CASE /\ link' # "up" /\ link = "up" /\ pc = "parser" /\ Reads({"FF"})
             /\ tx' = tx \o (<<>> \o Just("FQ"))
    <2>1. rx # <<>> /\ Head(rx).t = "FF"
      BY <1>4 DEF Reads
    <2>2. In!Commands
      <3>1. ~Out!Greets /\ ~Out!Commands /\ ~Out!Transmits /\ ~Out!Declined
        BY <1>4, <2>1 DEF Out!Greets, Out!Commands, Out!Transmits, Out!Declined
      <3>2. ~In!Greets /\ ~In!Transmits /\ ~In!Declined
        BY <1>4, <2>1 DEF In!Greets, In!Transmits, In!Declined
      <3>3. QED
        BY <1>4, <3>1, <3>2 DEF Session, In!Talk, Out!Talk
    <2>3. rx' = <<>> /\ pcP # "answer"
      BY <1>4, <2>2, AskedLast
    <2>4. pcP' \in {"wait", "parser"} /\ ipropsP' = <<>> /\ tx = <<>>
      BY <2>2, <2>3 DEF In!Commands, varsP
    <2> DEFINE fq == [t |-> "FQ"]
    <2>5. fq.t = "FQ"
      OBVIOUS
    <2>6. tx' = <<fq>>
      <3>1. tx' = <<>> \o (<<>> \o <<fq>>)
        BY <1>4, <2>4 DEF Just
      <3> HIDE DEF fq
      <3>2. <<fq>> \in Seq({fq})
        OBVIOUS
      <3>3. QED
        BY <3>1, <3>2, ConcatEmptySeq
    <2> HIDE DEF fq
    <2>7. Len(tx') = 1 /\ tx'[1] = fq
      BY <2>6
    <2>8. \A k \in 1..Len(tx') : tx'[k].t = "FQ"
      BY <2>5, <2>7
    <2>9. 1..Len(ipropsP') = {}
      BY <2>4, EmptySeq
    <2>10. Out!Forth'
      BY <2>4, <2>8, <2>9 DEF Out!Forth, Out!OneToOne, Out!Told
    <2>11. In!Back'
      BY <2>4, <2>8 DEF In!Back
    <2>12. QED
      BY <1>1, <1>4, <2>3, <2>10, <2>11 DEF Session
  <1>5. QED
    BY <1>2, <1>3, <1>4, LastWords

(* The link goes down, and the last of the lines are lost.                   *)
LEMMA CutStep ==
    ASSUME TypeOK, In!Forth, Out!Back, NEW n \in 0..Len(rx), rx' = SubSeq(rx, 1, n),
           UNCHANGED <<pc, iprops, todo, olist, nprop, unsent>>
    PROVE  In!Forth' /\ Out!Back'
  <1>1. rx \in Seq(Line) /\ Len(rx) \in Nat
    BY LenProperties DEF TypeOK
  <1>2. /\ Len(rx') = n /\ rx' \in Seq(Line)
        /\ \A k \in 1..n : k \in 1..Len(rx) /\ rx'[k] = rx[k]
    <2>1. /\ Len(rx') = n /\ \A k \in 1..n : rx'[k] = rx[1 + k - 1]
          /\ rx' \in Seq(Line)
      BY <1>1, SubSeqProperties
    <2>2. \A k \in 1..n : 1 + k - 1 = k /\ k \in 1..Len(rx)
      BY <1>1
    <2>3. QED
      BY <2>1, <2>2
  <1>3. In!Rest' = In!Rest /\ Out!Size' = Out!Size
    BY DEF In!Rest, In!First, Out!Size, Out!SizeOf
  <1>4. In!Forth'
    <2>1. CASE pc \in {"receive", "record"}
      <3>1. PICK late \in SUBSET In!Rest : In!Carries(rx, iprops, In!Rest, late)
        BY <2>1 DEF In!Forth
      <3>2. In!Rest \in SUBSET Int
        <4>1. todo \in SUBSET Int
          BY LenProperties DEF TypeOK
        <4>2. QED
          BY <4>1 DEF In!Rest
      <3>3. PICK later \in SUBSET In!Rest : In!Carries(rx', iprops, In!Rest, later)
        BY <1>1, <3>1, <3>2, CarriesCut
      <3>4. \A k \in 1..Len(rx') : rx'[k].t \notin {"F>", "FC"}
        <4>1. PICK f : \A k \in 1..Len(rx') : rx'[k] = [t |-> "DATA", m |-> iprops[f[k]]]
          BY <3>3 DEF In!Carries
        <4>2. ASSUME NEW k \in 1..Len(rx') PROVE rx'[k].t = "DATA"
          <5>1. rx'[k] = [t |-> "DATA", m |-> iprops[f[k]]]
            BY <4>1
          <5>2. QED
            BY <5>1
        <4>3. QED
          BY <4>2
      <3>5. In!OneToOne(iprops')
        BY <2>1 DEF In!Forth, In!OneToOne
      <3>6. QED
        BY <1>3, <2>1, <3>3, <3>4, <3>5 DEF In!Forth
    <2>2. CASE pc \notin {"receive", "record", "idle"}
      <3>1. In!OneToOne(iprops')
        BY <2>2 DEF In!Forth, In!OneToOne
      <3>2. \A k \in 1..Len(rx') : rx'[k].t \in In!Told
        BY <1>2, <2>2 DEF In!Forth
      <3>3. \A k \in 1..Len(rx') : rx'[k].t = "F>" => k = Len(rx')
        <4>1. ASSUME NEW k \in 1..Len(rx'), rx'[k].t = "F>" PROVE k = Len(rx')
          <5>1. k \in 1..Len(rx) /\ rx[k].t = "F>" /\ k \in 1..n
            BY <1>2, <4>1
          <5>2. k = Len(rx)
            BY <2>2, <5>1 DEF In!Forth
          <5>3. QED
            BY <1>1, <1>2, <5>1, <5>2
        <4>2. QED
          BY <4>1
      <3>4. ASSUME NEW k \in 1..Len(rx'), rx'[k].t = "FC"
            PROVE  /\ \A l \in 1..Len(rx') : rx'[l].t = "FC" /\ rx'[k].m = rx'[l].m => k = l
                   /\ \A i \in 1..Len(iprops) : rx'[k].m # iprops[i]
        <4>1. k \in 1..Len(rx) /\ rx'[k] = rx[k]
          BY <1>2
        <4>2. /\ \A l \in 1..Len(rx) : rx[l].t = "FC" /\ rx[k].m = rx[l].m => k = l
              /\ \A i \in 1..Len(iprops) : rx[k].m # iprops[i]
          BY <2>2, <3>4, <4>1 DEF In!Forth
        <4>3. QED
          BY <1>2, <4>1, <4>2
      <3>5. QED
        BY <2>2, <3>1, <3>2, <3>3, <3>4 DEF In!Forth
    <2>3. CASE pc = "idle"
      BY <2>3 DEF In!Forth
    <2>4. QED
      BY <2>1, <2>2, <2>3
  <1>5. Out!Back'
    <2>1. rx = <<>> => rx' = <<>>
      <3>1. ASSUME rx = <<>> PROVE Len(rx') = 0
        BY <1>1, <1>2, <3>1, EmptySeq
      <3>2. QED
        BY <1>2, <3>1, EmptySeq
    <2>2. Len(rx') > 1 => Len(rx) > 1
      BY <1>1, <1>2
    <2>3. ASSUME NEW k \in 1..Len(rx'), pc # "idle", rx'[k].t = "FS"
          PROVE  /\ pc = "answer" /\ k = 1
                 /\ rx'[k].ans \in [1..Out!Size -> {"Y", "N"}]
                 /\ Len(rx') > 1 => \A j \in 1..Out!Size : rx'[k].ans[j] = "N"
      <3>1. k \in 1..Len(rx) /\ rx'[k] = rx[k]
        BY <1>2
      <3>2. /\ pc = "answer" /\ k = 1
            /\ rx[k].ans \in [1..Out!Size -> {"Y", "N"}]
            /\ Len(rx) > 1 => \A j \in 1..Out!Size : rx[k].ans[j] = "N"
        BY <2>3, <3>1 DEF Out!Back
      <3>3. QED
        BY <2>2, <3>1, <3>2
    <2>4. pc = "send" /\ unsent # {} => rx' = <<>>
      BY <2>1 DEF Out!Back
    <2>5. QED
      BY <1>3, <2>3, <2>4 DEF Out!Back
  <1>6. QED
    BY <1>4, <1>5

-------------------------------------------------------------------------------
(* The MID database and the mailbox.                                         *)

(* The message that is delivered is the first proposal that was accepted and *)
(* not received (inbound_parser, getcompressed).                             *)
LEMMA ReceiveTakes ==
    ASSUME TypeOK, In!Forth, pc = "receive", Receive
    PROVE  \E i \in todo : /\ Head(rx).m = iprops[i] /\ iprops[i] \in Msg
                           /\ NextOf(todo) = {i} /\ In!First(todo) = {i}
                           /\ In!Rest = todo
  <1>1. rx \in Seq(Line) /\ rx # <<>> /\ todo \in SUBSET Int
    BY LenProperties DEF TypeOK, Receive, Reads
  <1>2. In!Rest = todo
    BY DEF In!Rest
  <1>3. PICK late : In!Carries(rx, iprops, todo, late)
    BY <1>2 DEF In!Forth
  <1>4. PICK i \in todo : \A j \in todo : i =< j
    BY <1>1, <1>3, CarriesHead
  <1>5. Head(rx) = [t |-> "DATA", m |-> iprops[i]]
    BY <1>1, <1>3, <1>4, CarriesFirst
  <1>6. Head(rx).m = iprops[i]
    BY <1>5
  <1>7. iprops[i] \in Msg
    BY ElementOfSeq DEF TypeOK
  <1>8. NextOf(todo) = {i} /\ In!First(todo) = {i}
    BY <1>1, <1>4, NextOne
  <1>9. QED
    BY <1>2, <1>6, <1>7, <1>8

(* Where the MID database and the mailbox change (check_mid, record_mid).    *)
LEMMA HostStep ==
    ASSUME TypeOK, Work \/ Mishap \/ Start
    PROVE  \/ pc = "receive" /\ Receive
           \/ pc = "record" /\ Record
           \/ pc = "parser" /\ ParseBlock
           \/ Age \/ Die
           \/ Begin /\ pc # "record"
           \/ /\ UNCHANGED <<mailbox, middb, orphan, missed>>
              /\ pc # "record" /\ pc' \notin {"receive", "record"}
  <1>1. CASE Mishap
    BY <1>1 DEF Mishap, Late, Kill, Alarm, WaitGivesUp, Exit, dbVars, hostVars
  <1>2. CASE Start \/ LoginWaits \/ LoginAnswers \/ LoginDone
    BY <1>2 DEF Start, LoginWaits, LoginAnswers, LoginDone, dbVars, hostVars
  <1>3. CASE \/ GreetIgnored \/ GreetSID \/ GreetPrompt \/ GreetError
             \/ AnswerSkip \/ AnswerFS \/ AnswerError
    BY <1>3 DEF GreetIgnored, GreetSID, GreetPrompt, GreetError, AnswerSkip, AnswerFS,
         AnswerError, Exit, B2Out, dbVars, hostVars
  <1>4. CASE PutCompressed \/ BatchDone \/ WaitReadable
    <2>1. /\ UNCHANGED <<mailbox, middb, orphan, missed>> /\ pc # "record"
          /\ pc' \in {"send", "parser", "wait"}
      BY <1>4 DEF PutCompressed, BatchDone, WaitReadable, dbVars, hostVars, TypeOK
    <2>2. QED
      BY <2>1
  <1>5. CASE Record
    BY <1>5 DEF Record
  <1>6. CASE EndOfFile \/ BlockDone
    BY <1>6 DEF EndOfFile, BlockDone, AtRead, Reading, Exit, B2Out, dbVars, hostVars
  <1>7. CASE \/ ParseComment \/ ParseFC \/ ParseFF \/ ParseFQ \/ ParseB \/ ParsePrompt
             \/ ParseUnrecognized
    BY <1>7 DEF ParseComment, ParseFC, ParseFF, ParseFQ, ParseB, ParsePrompt,
         ParseUnrecognized, Exit, B2Out, DoDelete, dbVars, hostVars
  <1>8. CASE ParseBlockSendOnly \/ ParseBlockMismatch \/ ParseBlock \/ Receive \/ ReceiveError
    BY <1>8 DEF ParseBlockSendOnly, ParseBlockMismatch, ParseBlock, Receive,
         ReceiveError, Exit, dbVars, hostVars
  <1>9. QED
    BY <1>1, <1>2, <1>3, <1>4, <1>5, <1>6, <1>7, <1>8 DEF Work

(* What was delivered stays explained by the MID database (inbound_parser,   *)
(* check_mid, record_mid, expire_mids).                                      *)
LEMMA StoredStep ==
    ASSUME TypeOK, In!Forth, Stored, Work \/ Mishap \/ Start
    PROVE  Stored'
  <1>1. /\ \A m \in Msg : mailbox[m] > 0 =>
              \/ m \in middb \cup orphan
              \/ pc = "record" /\ \E i \in NextOf(todo) : m = iprops[i]
        /\ \A m \in Msg : mailbox[m] > 1 => m \in orphan
        /\ pc \in {"receive", "record"} => \A i \in In!Rest : iprops[i] \notin middb
    BY DEF Stored
  <1>2. mailbox \in [Msg -> Nat]
    BY DEF TypeOK
  <1>3. pc \in {"receive", "record"} => In!OneToOne(iprops)
    BY DEF In!Forth
  <1>4. CASE pc = "receive" /\ Receive
    <2>1. PICK i \in todo : /\ Head(rx).m = iprops[i] /\ iprops[i] \in Msg
                            /\ NextOf(todo) = {i} /\ In!First(todo) = {i} /\ In!Rest = todo
      BY <1>4, ReceiveTakes
    <2>2. /\ UNCHANGED <<iprops, todo, middb, orphan>> /\ pc' \in {"record", "idle"}
          /\ \/ pc' = "record" /\ mailbox' = [mailbox EXCEPT ![iprops[i]] = @ + 1]
             \/ mailbox' = mailbox
      BY <1>4, <2>1 DEF Receive, Exit, inVars, dbVars
    <2>3. NextOf(todo') = {i} /\ In!Rest' \subseteq todo
      BY <2>1, <2>2 DEF In!Rest
    <2>4. iprops[i] \notin middb
      BY <1>1, <1>4, <2>1
    <2>5. mailbox[iprops[i]] > 0 => iprops[i] \in orphan
      BY <1>1, <1>4, <2>1, <2>4
    <2>6. \A m \in Msg : mailbox'[m] > 0 =>
             \/ m \in middb' \cup orphan'
             \/ pc' = "record" /\ \E j \in NextOf(todo') : m = iprops'[j]
      <3>1. CASE pc' = "record" /\ mailbox' = [mailbox EXCEPT ![iprops[i]] = @ + 1]
        <4> SUFFICES ASSUME NEW m \in Msg, mailbox'[m] > 0
                     PROVE  m \in middb' \cup orphan' \/ \E j \in NextOf(todo') : m = iprops'[j]
          BY <3>1
        <4>1. CASE m = iprops[i]
          BY <2>2, <2>3, <4>1
        <4>2. CASE m # iprops[i]
          <5>1. mailbox[m] > 0
            BY <1>2, <2>1, <3>1, <4>2
          <5>2. QED
            BY <1>1, <1>4, <2>2, <5>1
        <4>3. QED
          BY <4>1, <4>2
      <3>2. CASE mailbox' = mailbox
        BY <1>1, <1>4, <2>2, <3>2
      <3>3. QED
        BY <2>2, <3>1, <3>2
    <2>7. \A m \in Msg : mailbox'[m] > 1 => m \in orphan'
      <3>1. CASE mailbox' = [mailbox EXCEPT ![iprops[i]] = @ + 1]
        <4> SUFFICES ASSUME NEW m \in Msg, mailbox'[m] > 1
                     PROVE  m \in orphan'
          OBVIOUS
        <4>1. CASE m = iprops[i]
          <5>1. mailbox[m] > 0
            BY <1>2, <3>1, <4>1
          <5>2. QED
            BY <2>2, <2>5, <4>1, <5>1
        <4>2. CASE m # iprops[i]
          <5>1. mailbox[m] > 1
            BY <1>2, <2>1, <3>1, <4>2
          <5>2. QED
            BY <1>1, <2>2, <5>1
        <4>3. QED
          BY <4>1, <4>2
      <3>2. CASE mailbox' = mailbox
        BY <1>1, <2>2, <3>2
      <3>3. QED
        BY <2>2, <3>1, <3>2
    <2>8. \A j \in In!Rest' : iprops'[j] \notin middb'
      BY <1>1, <1>4, <2>1, <2>2, <2>3
    <2>9. QED
      BY <2>6, <2>7, <2>8 DEF Stored
  <1>5. CASE pc = "record" /\ Record
    <2>1. PICK i \in NextOf(todo) :
             /\ todo' = todo \ {i}
             /\ \/ middb' = middb \cup {iprops[i]} /\ orphan' = orphan
                \/ middb' = middb /\ orphan' = orphan \cup {iprops[i]}
      BY <1>5 DEF Record
    <2>2. pc' = "receive" /\ UNCHANGED <<iprops, mailbox>>
      BY <1>5 DEF Record, hostVars
    <2>3. i \in todo /\ todo \in SUBSET Int /\ \A j \in todo : i =< j
      BY LenProperties DEF TypeOK, NextOf
    <2>4. NextOf(todo) = {i} /\ In!First(todo) = {i}
      BY <2>3, NextOne
    <2>5. In!Rest = todo \ {i} /\ In!Rest' = todo \ {i}
      BY <1>5, <2>1, <2>2, <2>4 DEF In!Rest
    <2>6. \A m \in Msg : mailbox'[m] > 0 => m \in middb' \cup orphan'
      BY <1>1, <2>1, <2>2, <2>4
    <2>7. \A m \in Msg : mailbox'[m] > 1 => m \in orphan'
      BY <1>1, <2>1, <2>2
    <2>8. \A j \in todo \ {i} : iprops[j] # iprops[i]
      BY <1>3, <1>5, <2>3 DEF In!OneToOne, TypeOK
    <2>9. \A j \in In!Rest' : iprops'[j] \notin middb'
      BY <1>1, <1>5, <2>1, <2>2, <2>5, <2>8
    <2>10. QED
      BY <2>6, <2>7, <2>9 DEF Stored
  <1>6. CASE pc = "parser" /\ ParseBlock
    <2>1. PICK failed \in SUBSET (1..Len(iprops)) :
             LET checked == (1..Len(iprops)) \ failed
                 expired == old \cap {iprops[i] : i \in checked}
             IN  /\ middb' = middb \ expired /\ orphan' = orphan \cup expired
                 /\ todo' = Fresh(checked)
      BY <1>6 DEF ParseBlock
    <2>2. pc' = "receive" /\ UNCHANGED <<iprops, mailbox>>
      BY <1>6 DEF ParseBlock, hostVars
    <2>3. middb \cup orphan \subseteq middb' \cup orphan' /\ orphan \subseteq orphan'
      BY <2>1
    <2>4. \A j \in todo' : iprops[j] \notin middb'
      BY <2>1 DEF Fresh
    <2>5. In!Rest' = todo'
      BY <2>2 DEF In!Rest
    <2>6. QED
      BY <1>1, <1>6, <2>2, <2>3, <2>4, <2>5 DEF Stored
  <1>7. CASE Age
    <2>1. UNCHANGED <<pc, iprops, todo, middb, orphan, mailbox>>
      BY <1>7 DEF Age, inVars, hostVars
    <2>2. In!Rest' = In!Rest /\ NextOf(todo') = NextOf(todo)
      BY <2>1 DEF In!Rest, In!First
    <2>3. QED
      BY <1>1, <2>1, <2>2 DEF Stored
  <1>8. CASE Die
    <2>1. /\ UNCHANGED <<iprops, todo, middb, mailbox>> /\ pc' = "idle"
          /\ orphan' = IF pc = "record" THEN orphan \cup {iprops[i] : i \in NextOf(todo)}
                       ELSE orphan
      BY <1>8 DEF Die, Exit, inVars, hostVars
    <2>2. \A m \in Msg : mailbox[m] > 0 => m \in middb \cup orphan'
      BY <1>1, <2>1
    <2>3. QED
      BY <1>1, <2>1, <2>2 DEF Stored
  <1>9. CASE Begin /\ pc # "record"
    <2>1. /\ middb' = middb \ old /\ orphan' = orphan \cup old /\ pc' = "greet"
          /\ mailbox' = mailbox
      BY <1>9 DEF Begin, hostVars
    <2>2. QED
      BY <1>1, <1>9, <2>1 DEF Stored
  <1>10. CASE /\ UNCHANGED <<mailbox, middb, orphan>>
              /\ pc # "record" /\ pc' \notin {"receive", "record"}
    BY <1>1, <1>10 DEF Stored
  <1>11. QED
    BY <1>4, <1>5, <1>6, <1>7, <1>8, <1>9, <1>10, HostStep

(* What was delivered was delivered, and what counts as delivered still does *)
(* (mailbox and missed only grow).                                           *)
LEMMA DeliveredGrows ==
    ASSUME TypeOK, Work \/ Mishap \/ Start
    PROVE  /\ In!DeliveredR \subseteq In!DeliveredR'
           /\ In!TakenR \subseteq In!TakenR'
  <1>1. mailbox \in [Msg -> Nat]
    BY DEF TypeOK
  <1>2. /\ \/ mailbox' = mailbox
           \/ mailbox' = [mailbox EXCEPT ![Head(rx).m] = @ + 1]
        /\ missed \subseteq missed'
    BY HostStep DEF Receive, Record, ParseBlock, Age, Die, Begin, hostVars
  <1>3. In!DeliveredR \subseteq In!DeliveredR'
    BY <1>1, <1>2 DEF In!DeliveredR
  <1>4. QED
    BY <1>2, <1>3 DEF In!TakenR

(* A message that is read and not refused by sendmail counts as delivered.   *)
LEMMA ReceiveDelivers ==
    ASSUME TypeOK, In!Forth, pc = "receive", Receive, ~Exit
    PROVE  \E i \in todo : /\ NextOf(todo) = {i} /\ NextOf(todo)' = {i}
                           /\ Head(rx).m = iprops[i] /\ iprops' = iprops
                           /\ iprops[i] \in In!TakenR'
  <1>1. PICK i \in todo : /\ Head(rx).m = iprops[i] /\ iprops[i] \in Msg
                          /\ NextOf(todo) = {i}
    BY ReceiveTakes
  <1>2. /\ UNCHANGED <<iprops, todo>>
        /\ \/ mailbox' = [mailbox EXCEPT ![Head(rx).m] = @ + 1]
           \/ missed' = missed \cup {Head(rx).m}
    BY DEF Receive, inVars
  <1>3. mailbox'[iprops[i]] > 0 \/ iprops[i] \in missed'
    BY <1>1, <1>2 DEF TypeOK
  <1>4. NextOf(todo)' = {i}
    BY <1>1, <1>2 DEF NextOf
  <1>5. QED
    BY <1>1, <1>2, <1>3, <1>4 DEF In!TakenR, In!DeliveredR

(* A MID that is recorded is that of a message composed or delivered here.   *)
LEMMA RecordedStep ==
    ASSUME TypeOK, In!Forth, Recorded, Work \/ Mishap \/ Start
    PROVE  Recorded'
  <1>1. In!TakenR \subseteq In!TakenR'
    BY DeliveredGrows
  <1>2. /\ middb \subseteq Outgoing \cup In!TakenR
        /\ pc = "record" => \A i \in NextOf(todo) : iprops[i] \in In!TakenR
    BY DEF Recorded
  <1>3. CASE pc = "receive" /\ Receive
    <2>1. middb' = middb
      BY <1>3 DEF Receive, dbVars
    <2>2. CASE Exit
      BY <1>1, <1>2, <2>1, <2>2 DEF Recorded, Exit
    <2>3. CASE ~Exit
      <3>1. PICK i \in todo : /\ NextOf(todo)' = {i} /\ iprops' = iprops
                              /\ iprops[i] \in In!TakenR'
        BY <1>3, <2>3, ReceiveDelivers
      <3>2. QED
        BY <1>1, <1>2, <2>1, <3>1 DEF Recorded
    <2>4. QED
      BY <2>2, <2>3
  <1>4. CASE pc = "record" /\ Record
    <2>1. PICK i \in NextOf(todo) : middb' \subseteq middb \cup {iprops[i]}
      BY <1>4 DEF Record
    <2>2. pc' = "receive"
      BY <1>4 DEF Record
    <2>3. QED
      BY <1>1, <1>2, <1>4, <2>1, <2>2 DEF Recorded
  <1>5. CASE pc = "parser" /\ ParseBlock
    <2>1. middb' \subseteq middb /\ pc' = "receive"
      BY <1>5 DEF ParseBlock
    <2>2. QED
      BY <1>1, <1>2, <2>1 DEF Recorded
  <1>6. CASE Age
    <2>1. UNCHANGED <<pc, iprops, middb>> /\ NextOf(todo)' = NextOf(todo)
      BY <1>6 DEF Age, inVars, NextOf
    <2>2. QED
      BY <1>1, <1>2, <2>1 DEF Recorded
  <1>7. CASE Die \/ Begin
    <2>1. middb' \subseteq middb /\ pc' # "record"
      BY <1>7 DEF Die, Begin, Exit
    <2>2. QED
      BY <1>1, <1>2, <2>1 DEF Recorded
  <1>8. CASE middb' = middb /\ pc' \notin {"receive", "record"}
    BY <1>1, <1>2, <1>8 DEF Recorded
  <1>9. QED
    BY <1>3, <1>4, <1>5, <1>6, <1>7, <1>8, HostStep

-------------------------------------------------------------------------------
(* The messages themselves.                                                  *)

(* The commands of the protocol.                                             *)
Command == {"QTC", "SID", "FC", "F>", "FF", "FQ"}

(* b2outboundproposal says commands only.                                    *)
LEMMA CommandsSaid ==
    ASSUME TypeOK, NEW greeting \in Seq(Line), \A k \in 1..Len(greeting) : greeting[k].t \in Command,
           NEW last, NEW to, B2Out(greeting, last, to)
    PROVE  \/ tx' = tx
           \/ link = "up" /\ \E q \in Seq(Line) : /\ tx' = tx \o q
                                                  /\ \A k \in 1..Len(q) : q[k].t \in Command
  <1>1. PICK q \in {Block, Just("FF"), Just("FQ")} : Says(greeting \o q)
    BY DEF B2Out
  <1>2. q \in Seq(Line) /\ \A k \in 1..Len(q) : q[k].t \in Command
    <2>1. CASE q = Block
      <3>1. /\ Block \in Seq(Line) /\ Len(Block) = BatchSize + 1
            /\ \A k \in 1..BatchSize : Block[k] = [t |-> "FC", m |-> olist[nprop + k]]
            /\ Block[BatchSize + 1].t = "F>"
        BY BlockLines
      <3>2. BatchSize \in Nat
        BY BatchType
      <3>3. ASSUME NEW k \in 1..BatchSize PROVE Block[k].t = "FC"
        <4>1. Block[k] = [t |-> "FC", m |-> olist[nprop + k]]
          BY <3>1
        <4>2. QED
          BY <4>1
      <3>4. \A k \in 1..BatchSize + 1 : k = BatchSize + 1 \/ k \in 1..BatchSize
        BY <3>2
      <3>5. QED
        BY <2>1, <3>1, <3>3, <3>4 DEF Command
    <2>2. CASE q = Just("FF") \/ q = Just("FQ")
      <3>1. PICK kind \in {"FF", "FQ"} : q = Just(kind)
        BY <2>2
      <3> DEFINE l == [t |-> kind]
      <3>2. l \in Line /\ l.t = kind
        BY DEF Line, Bare
      <3>3. q = <<l>>
        BY <3>1 DEF Just
      <3> HIDE DEF l
      <3>4. q \in Seq(Line) /\ Len(q) = 1 /\ q[1] = l
        BY <3>2, <3>3
      <3>5. QED
        BY <3>2, <3>4 DEF Command
    <2>3. QED
      BY <2>1, <2>2
  <1> DEFINE r == greeting \o q
  <1>3. /\ r \in Seq(Line) /\ Len(r) = Len(greeting) + Len(q)
        /\ \A k \in 1..Len(greeting) : r[k] = greeting[k]
        /\ \A k \in 1..Len(q) : r[Len(greeting) + k] = q[k]
    BY <1>2, SaidAfter
  <1>4. ASSUME NEW k \in 1..Len(r) PROVE r[k].t \in Command
    <2>1. Len(greeting) \in Nat /\ Len(q) \in Nat
      BY <1>2, LenProperties
    <2>2. CASE k \in 1..Len(greeting)
      BY <1>3, <2>2
    <2>3. CASE k \notin 1..Len(greeting)
      <3>1. k - Len(greeting) \in 1..Len(q) /\ Len(greeting) + (k - Len(greeting)) = k
        BY <1>3, <2>1, <2>3
      <3>2. r[k] = q[k - Len(greeting)]
        BY <1>3, <3>1
      <3>3. QED
        BY <1>2, <3>1, <3>2
    <2>4. QED
      BY <2>2, <2>3
  <1>5. tx' = tx \/ (link = "up" /\ tx' = tx \o r)
    BY <1>1 DEF Says
  <1> HIDE DEF r
  <1>6. QED
    BY <1>3, <1>4, <1>5

(* What a program says, and when.                                            *)
LEMMA SaidStep ==
    ASSUME TypeOK, Work \/ Mishap, pc \notin {"login1", "login2"}
    PROVE  \/ tx' = tx
           \/ pc = "send" /\ PutCompressed
           \/ pc = "parser" /\ ParseBlock
           \/ /\ link = "up" /\ pc \in {"sid", "parser", "receive"}
              /\ pc = "receive" => todo = {}
              /\ \E q \in Seq(Line) : /\ tx' = tx \o q
                                      /\ \A k \in 1..Len(q) : q[k].t \in Command
  <1>1. CASE Mishap
    BY <1>1 DEF netVars, Mishap, Late, Kill, Age, Alarm, Die, WaitGivesUp
  <1>2. CASE LoginWaits \/ LoginAnswers \/ LoginDone
    BY <1>2 DEF LoginWaits, LoginAnswers, LoginDone
  <1>3. CASE GreetPrompt
    <2> DEFINE greeting == Just("QTC") \o Just("SID")
               qtc == [t |-> "QTC"]
               sid == [t |-> "SID"]
    <2>1. qtc \in Line /\ sid \in Line /\ qtc.t = "QTC" /\ sid.t = "SID"
      BY DEF Line, Bare
    <2>2. greeting = <<qtc>> \o <<sid>>
      BY DEF Just
    <2>3. pc = "sid" /\ B2Out(greeting, ">", "wait")
      BY <1>3 DEF GreetPrompt
    <2> HIDE DEF qtc, sid, greeting
    <2>4. /\ <<qtc>> \in Seq(Line) /\ Len(<<qtc>>) = 1 /\ <<qtc>>[1] = qtc
          /\ <<sid>> \in Seq(Line) /\ Len(<<sid>>) = 1 /\ <<sid>>[1] = sid
      BY <2>1
    <2>5. /\ greeting \in Seq(Line) /\ Len(greeting) = 1 + 1
          /\ \A k \in 1..1 : greeting[k] = <<qtc>>[k]
          /\ \A k \in 1..1 : greeting[1 + k] = <<sid>>[k]
      BY <2>2, <2>4, SaidAfter
    <2>6. \A k \in 1..Len(greeting) : greeting[k].t \in Command
      BY <2>1, <2>4, <2>5 DEF Command
    <2>7. QED
      BY <2>3, <2>5, <2>6, CommandsSaid
  <1>4. CASE ParseFF \/ ParsePrompt \/ BlockDone
    <2>1. /\ pc \in {"parser", "receive"} /\ (pc = "receive" => todo = {})
          /\ B2Out(<<>>, "FF", "parser") \/ B2Out(<<>>, ">", "parser") \/ B2Out(<<>>, "F>", "parser")
      BY <1>4 DEF ParseFF, ParsePrompt, BlockDone
    <2>2. <<>> \in Seq(Line) /\ 1..Len(<<>>) = {}
      BY EmptySeq
    <2>3. QED
      BY <2>1, <2>2, CommandsSaid
  <1>5. CASE ParseBlockSendOnly
    <2> DEFINE ff == [t |-> "FF"]
    <2>1. ff \in Line /\ ff.t = "FF"
      BY DEF Line, Bare
    <2>2. pc = "parser" /\ (tx' = tx \/ (link = "up" /\ tx' = tx \o <<ff>>))
      BY <1>5 DEF ParseBlockSendOnly, Says, Just
    <2> HIDE DEF ff
    <2>3. <<ff>> \in Seq(Line) /\ Len(<<ff>>) = 1 /\ <<ff>>[1] = ff
      BY <2>1
    <2>4. \A k \in 1..Len(<<ff>>) : <<ff>>[k].t \in Command
      BY <2>1, <2>3 DEF Command
    <2>5. QED
      BY <2>2, <2>3, <2>4
  <1>6. CASE PutCompressed \/ ParseBlock
    BY <1>6 DEF PutCompressed, ParseBlock
  <1>7. CASE \/ GreetIgnored \/ GreetSID \/ GreetError
             \/ AnswerSkip \/ AnswerFS \/ AnswerError
             \/ BatchDone \/ WaitReadable \/ Record \/ EndOfFile
    BY <1>7 DEF GreetIgnored, GreetSID, GreetError, AnswerSkip, AnswerFS, AnswerError,
         BatchDone, WaitReadable, Record, EndOfFile, netVars
  <1>8. CASE \/ ParseComment \/ ParseFC \/ ParseFQ \/ ParseB \/ ParseUnrecognized
             \/ ParseBlockMismatch \/ Receive \/ ReceiveError
    BY <1>8 DEF ParseComment, ParseFC, ParseFQ, ParseB, ParseUnrecognized,
         ParseBlockMismatch, Receive, ReceiveError
  <1>9. QED
    BY <1>1, <1>2, <1>3, <1>4, <1>5, <1>6, <1>7, <1>8 DEF Work

(* What is read, and what is left to read.                                   *)
LEMMA ReadsLeft ==
    ASSUME TypeOK, Work \/ Mishap
    PROVE  /\ \A k \in 1..Len(rx') : \E l \in 1..Len(rx) : rx'[k] = rx[l]
           /\ rx = <<>> => rx' = <<>>
  <1>1. rx \in Seq(Line)
    BY DEF TypeOK
  <1>2. CASE rx' = rx
    BY <1>2
  <1>3. CASE rx # <<>> /\ rx' = Tail(rx)
    BY <1>3, ReadShifts
  <1>4. QED
    BY <1>2, <1>3, ReadsStep

(* What is flagged, and when (b2outboundproposal, putcompressed, dodelete).  *)
LEMMA FlagStep ==
    ASSUME TypeOK, Work \/ Mishap, pc \notin {"idle", "login1", "login2"}
    PROVE  \/ del' \subseteq del
           \/ pc = "answer" /\ AnswerFS
           \/ pc = "answerFW"
           \/ pc = "send" /\ PutCompressed
  <1>1. CASE LoginWaits \/ LoginAnswers \/ LoginDone
    BY <1>1 DEF LoginWaits, LoginAnswers, LoginDone
  <1>2. CASE AnswerFS \/ PutCompressed
    BY <1>2 DEF AnswerFS, PutCompressed
  <1>3. CASE ParseFC \/ ParseFF \/ ParseFQ \/ ParsePrompt
    BY <1>3 DEF ParseFC, ParseFF, ParseFQ, ParsePrompt, DoDelete
  <1>4. CASE BatchDone
    BY <1>4 DEF BatchDone
  <1>5. CASE \/ GreetIgnored \/ GreetSID \/ GreetPrompt \/ GreetError
             \/ AnswerSkip \/ AnswerError \/ WaitReadable \/ ParseComment \/ ParseB
             \/ ParseUnrecognized \/ ParseBlockSendOnly \/ ParseBlockMismatch
             \/ ParseBlock \/ Receive \/ ReceiveError \/ Record \/ BlockDone
             \/ EndOfFile \/ Mishap
    <2>1. UNCHANGED outVars
      BY <1>5 DEF GreetIgnored, GreetSID, GreetPrompt, GreetError,
           AnswerSkip, AnswerError, WaitReadable, ParseComment, ParseB,
           ParseUnrecognized, ParseBlockSendOnly, ParseBlockMismatch, ParseBlock,
           Receive, ReceiveError, Record, BlockDone, EndOfFile, Mishap, Late, Kill, Age,
           Alarm, Die, WaitGivesUp
    <2>2. QED
      BY <2>1 DEF outVars
  <1>6. QED
    BY <1>1, <1>2, <1>3, <1>4, <1>5 DEF Work

(* A line of what was said before or of what is said now.                    *)
LEMMA EachSaid ==
    ASSUME NEW p \in Seq(Line), NEW q \in Seq(Line), NEW k \in 1..Len(p \o q)
    PROVE  \/ k \in 1..Len(p) /\ (p \o q)[k] = p[k]
           \/ k \notin 1..Len(p) /\ \E l \in 1..Len(q) : (p \o q)[k] = q[l]
  <1>1. Len(p) \in Nat /\ Len(q) \in Nat
    BY LenProperties
  <1>2. /\ Len(p \o q) = Len(p) + Len(q)
        /\ \A j \in 1..Len(p) : (p \o q)[j] = p[j]
        /\ \A j \in 1..Len(q) : (p \o q)[Len(p) + j] = q[j]
    BY SaidAfter
  <1>3. CASE k \in 1..Len(p)
    BY <1>2, <1>3
  <1>4. CASE k \notin 1..Len(p)
    <2>1. k - Len(p) \in 1..Len(q) /\ Len(p) + (k - Len(p)) = k
      BY <1>1, <1>2, <1>4
    <2>2. (p \o q)[k] = q[k - Len(p)]
      BY <1>2, <2>1
    <2>3. QED
      BY <1>4, <2>1, <2>2
  <1>5. QED
    BY <1>3, <1>4

(* A message is said (putcompressed).                                        *)
LEMMA MessageSaid ==
    ASSUME TypeOK, PutCompressed
    PROVE  \E i \in NextOf(unsent), q \in Seq(Line) :
              /\ i \in unsent /\ del' = del \cup {olist[i]} /\ olist[i] \in Msg
              /\ Len(q) = 1 /\ q[1].t = "DATA" /\ q[1].m = olist[i]
              /\ tx' = IF link = "up" THEN tx \o q ELSE tx
  <1>1. PICK i \in NextOf(unsent) : /\ Says(<<[t |-> "DATA", m |-> olist[i]]>>)
                                    /\ del' = del \cup {olist[i]}
    BY DEF PutCompressed
  <1> DEFINE data == [t |-> "DATA", m |-> olist[i]]
  <1>2. olist[i] \in Msg /\ i \in unsent
    <2>1. i \in unsent /\ i \in 1..Len(olist)
      BY DEF NextOf, TypeOK
    <2>2. QED
      BY <2>1, ElementOfSeq, ConstantsAssumption DEF TypeOK
  <1>3. data \in Line /\ data.t = "DATA" /\ data.m = olist[i]
    BY <1>2 DEF Line
  <1>4. tx' = IF link = "up" THEN tx \o <<data>> ELSE tx
    BY <1>1 DEF Says
  <1> HIDE DEF data
  <1>5. <<data>> \in Seq(Line) /\ Len(<<data>>) = 1 /\ <<data>>[1] = data
    BY <1>3
  <1>6. QED
    BY <1>1, <1>2, <1>3, <1>4, <1>5

(* The -s flag is set when the session starts.                               *)
LEMMA SendonlyStep ==
    ASSUME Work \/ Mishap, pc \notin {"login1", "login2"}
    PROVE  sendonly' = sendonly
  <1>1. CASE LoginWaits \/ LoginAnswers \/ LoginDone
    BY <1>1 DEF LoginWaits, LoginAnswers, LoginDone
  <1>2. QED
    BY <1>1 DEF Work, GreetIgnored, GreetSID, GreetPrompt, GreetError, AnswerSkip, AnswerFS,
         AnswerError, PutCompressed, BatchDone, WaitReadable, ParseComment, ParseFC,
         ParseFF, ParseFQ, ParseB, ParsePrompt, ParseUnrecognized, ParseBlockSendOnly,
         ParseBlockMismatch, ParseBlock, Receive, ReceiveError, Record, BlockDone,
         EndOfFile, B2Out, Mishap, Late, Kill, Age, Alarm, Die, WaitGivesUp

(* An idle program does nothing.                                             *)
LEMMA IdleStep ==
    ASSUME Work \/ Mishap, pc = "idle"
    PROVE  Quiet
  <1>1. Mishap
    BY DEF Work, LoginWaits, LoginAnswers, LoginDone, GreetIgnored, GreetSID, GreetPrompt,
         GreetError, AnswerSkip, AnswerFS, AnswerError, PutCompressed, BatchDone,
         WaitReadable, ParseComment, ParseFC, ParseFF, ParseFQ, ParseB, ParsePrompt,
         ParseUnrecognized, ParseBlockSendOnly, ParseBlockMismatch, ParseBlock, Receive,
         ReceiveError, Record, BlockDone, EndOfFile, AtRead, Reading
  <1>2. Age
    BY <1>1 DEF Mishap, Late, Kill, Alarm, AlarmDue, AtRead, Reading, WaitGivesUp
  <1>3. QED
    BY <1>2 DEF Age, Quiet

(* Only an answer makes a program transmit (b2outboundproposal).             *)
LEMMA SendStep ==
    ASSUME TypeOK, Work \/ Mishap, pc # "send", pc # "login1", pc # "login2", ~AnswerFS
    PROVE  pc' # "send"
  <1>1. CASE Mishap
    BY <1>1 DEF Mishap, Late, Kill, Age, Alarm, Die, WaitGivesUp, Exit
  <1>2. CASE LoginWaits \/ LoginAnswers \/ LoginDone
    BY <1>2 DEF LoginWaits, LoginAnswers, LoginDone
  <1>3. CASE \/ GreetIgnored \/ GreetSID \/ GreetPrompt \/ GreetError
             \/ AnswerSkip \/ AnswerError
    BY <1>3 DEF GreetIgnored, GreetSID, GreetPrompt, GreetError, AnswerSkip,
         AnswerError, Exit, B2Out
  <1>4. CASE PutCompressed \/ BatchDone \/ WaitReadable \/ Record \/ EndOfFile \/ BlockDone
    BY <1>4 DEF PutCompressed, BatchDone, WaitReadable, Record, EndOfFile, BlockDone,
         Exit, B2Out
  <1>5. CASE \/ ParseComment \/ ParseFC \/ ParseFF \/ ParseFQ \/ ParseB \/ ParsePrompt
             \/ ParseUnrecognized
    BY <1>5 DEF ParseComment, ParseFC, ParseFF, ParseFQ, ParseB, ParsePrompt,
         ParseUnrecognized, Exit, B2Out
  <1>6. CASE ParseBlockSendOnly \/ ParseBlockMismatch \/ ParseBlock \/ Receive \/ ReceiveError
    BY <1>6 DEF ParseBlockSendOnly, ParseBlockMismatch, ParseBlock, Receive,
         ReceiveError, Exit
  <1>7. QED
    BY <1>1, <1>2, <1>3, <1>4, <1>5, <1>6 DEF Work

(* A session with -s takes nothing.                                          *)
LEMMA UntakenStep ==
    ASSUME TypeOK, Out!Back, In!Untaken, Out!Untaken, pc # "login1", pc # "login2",
           pc # "answerFW", UNCHANGED varsP, Work \/ Mishap
    PROVE  In!Untaken' /\ Out!Untaken'
  <1>1. sendonly' = sendonly
    BY SendonlyStep
  <1>2. UNCHANGED <<pcP, delP, sendonlyP>>
    BY DEF varsP
  <1>3. In!Untaken'
    <2> SUFFICES ASSUME sendonly PROVE In!Untaken'
      BY <1>1 DEF In!Untaken
    <2>1. /\ pc \notin {"receive", "record"} /\ delP = {} /\ pcP # "send"
          /\ \A k \in 1..Len(tx) : tx[k].t # "FS"
      BY DEF In!Untaken
    <2>2. ~ParseBlock
      BY DEF ParseBlock
    <2>3. pc' \notin {"receive", "record"}
      BY <2>1, <2>2, HostStep DEF Age, Die, Begin, Exit
    <2>4. ASSUME NEW q \in Seq(Line), tx' = tx \o q, \A k \in 1..Len(q) : q[k].t # "FS"
          PROVE  \A k \in 1..Len(tx') : tx'[k].t # "FS"
      <3>1. tx \in Seq(Line)
        BY DEF TypeOK
      <3>2. ASSUME NEW k \in 1..Len(tx \o q) PROVE (tx \o q)[k].t # "FS"
        BY <2>1, <2>4, <3>1, EachSaid, SMTT(60)
      <3>3. QED
        BY <2>4, <3>2
    <2>5. \A k \in 1..Len(tx') : tx'[k].t # "FS"
      <3>1. CASE tx' = tx
        BY <2>1, <3>1
      <3>2. CASE PutCompressed
        <4>1. PICK q \in Seq(Line) : /\ Len(q) = 1 /\ q[1].t = "DATA"
                                     /\ tx' = IF link = "up" THEN tx \o q ELSE tx
          BY <3>2, MessageSaid
        <4>2. \A k \in 1..Len(q) : q[k].t = "DATA"
          BY <4>1
        <4>3. tx' = tx \/ tx' = tx \o q
          BY <4>1
        <4>4. QED
          BY <2>4, <3>1, <4>2, <4>3
      <3>3. CASE \E q \in Seq(Line) : /\ tx' = tx \o q
                                      /\ \A k \in 1..Len(q) : q[k].t \in Command
        <4>1. PICK q \in Seq(Line) : /\ tx' = tx \o q
                                     /\ \A k \in 1..Len(q) : q[k].t \in Command
          BY <3>3
        <4>2. \A k \in 1..Len(q) : q[k].t # "FS"
          BY <4>1 DEF Command
        <4>3. QED
          BY <2>4, <4>1, <4>2
      <3>4. QED
        BY <2>2, <3>1, <3>2, <3>3, SaidStep
    <2>6. QED
      BY <1>2, <2>1, <2>3, <2>5 DEF In!Untaken
  <1>4. Out!Untaken'
    <2> SUFFICES ASSUME sendonlyP PROVE Out!Untaken'
      BY <1>2 DEF Out!Untaken
    <2>1. /\ pcP \notin {"receive", "record"} /\ del = {} /\ pc # "send"
          /\ \A k \in 1..Len(rx) : rx[k].t # "FS"
      BY DEF Out!Untaken
    <2>2. ~AnswerFS
      <3>1. ASSUME AnswerFS PROVE FALSE
        <4>1. rx # <<>> /\ rx' = Tail(rx) /\ Head(rx).t = "FS"
          BY <3>1 DEF AnswerFS, Reads
        <4>2. Head(rx) = rx[1] /\ 1 \in 1..Len(rx)
          <5>1. Head(rx) = rx[1] /\ Len(rx) \in Nat \ {0}
            BY <4>1, ReadShifts
          <5>2. QED
            BY <5>1
        <4>3. QED
          BY <2>1, <4>1, <4>2
      <3>2. QED
        BY <3>1
    <2>3. del' = {}
      <3>1. CASE pc # "idle"
        BY <2>1, <2>2, <3>1, FlagStep
      <3>2. CASE pc = "idle"
        BY <2>1, <3>2, IdleStep DEF Quiet, outVars
      <3>3. QED
        BY <3>1, <3>2
    <2>4. pc' # "send"
      BY <2>1, <2>2, SendStep
    <2>5. \A k \in 1..Len(rx') : rx'[k].t # "FS"
      BY <2>1, ReadsLeft
    <2>6. QED
      BY <1>2, <2>1, <2>3, <2>4, <2>5 DEF Out!Untaken
  <1>5. QED
    BY <1>3, <1>4

(* While the program can say something, no message is on its way to it.      *)
LEMMA NoneInFlight ==
    ASSUME TypeOK, In!Forth, pc # "idle", pc \in {"receive", "record"} => todo = {}
    PROVE  In!InFlight = {}
  <1>1. \A k \in 1..Len(rx) : rx[k].t # "DATA"
    <2>1. CASE pc \notin {"receive", "record"}
      BY <2>1 DEF In!Forth, In!Told
    <2>2. CASE pc \in {"receive", "record"}
      <3>1. rx \in Seq(Line) /\ In!Rest = {}
        BY <2>2 DEF TypeOK, In!Rest
      <3>2. PICK late : In!Carries(rx, iprops, {}, late)
        BY <2>2, <3>1 DEF In!Forth
      <3>3. rx = <<>>
        BY <3>1, <3>2, CarriesNothing
      <3>4. QED
        BY <3>3, EmptySeq
    <2>3. QED
      BY <2>1, <2>2
  <1>2. QED
    BY <1>1 DEF In!InFlight

(* A message that is no longer on its way is delivered, if the session goes  *)
(* on.                                                                       *)
LEMMA FlightStep ==
    ASSUME TypeOK, In!Forth, Work \/ Mishap
    PROVE  /\ In!InFlight' \subseteq In!InFlight
           /\ link' = "up" => In!InFlight \subseteq In!InFlight' \cup In!TakenR'
  <1>1. rx \in Seq(Line)
    BY DEF TypeOK
  <1>2. CASE rx' = rx
    BY <1>2 DEF In!InFlight
  <1>3. CASE rx # <<>> /\ rx' = Tail(rx)
    <2>1. /\ Len(rx) \in Nat \ {0} /\ Head(rx) = rx[1] /\ Len(rx') = Len(rx) - 1
          /\ \A k \in 1..Len(rx') : k + 1 \in 1..Len(rx) /\ rx'[k] = rx[k+1]
      BY <1>3, ReadShifts
    <2>2. In!InFlight' \subseteq In!InFlight
      BY <2>1 DEF In!InFlight
    <2>3. ASSUME NEW k \in 1..Len(rx), rx[k].t = "DATA", k # 1
          PROVE  rx[k].m \in In!InFlight'
      <3>1. k - 1 \in 1..Len(rx') /\ (k - 1) + 1 = k
        BY <2>1, <2>3
      <3>2. rx'[k-1] = rx[k]
        BY <2>1, <3>1
      <3>3. QED
        BY <2>3, <3>1, <3>2 DEF In!InFlight
    <2>4. ASSUME link' = "up", rx[1].t = "DATA"
          PROVE  rx[1].m \in In!TakenR'
      <3>1. ~Exit
        BY <2>4 DEF Exit
      <3>2. pc # "idle"
        <4>1. rx' # rx
          BY <2>1
        <4>2. ASSUME pc = "idle" PROVE rx' = rx
          BY <4>2, IdleStep DEF Quiet, netVars
        <4>3. QED
          BY <4>1, <4>2
      <3>3. pc \in {"receive", "record"}
        <4>1. 1 \in 1..Len(rx)
          BY <2>1
        <4>2. QED
          BY <2>4, <3>2, <4>1 DEF In!Forth, In!Told
      <3>4. GoesOn
        BY <3>1, <3>3, StepKinds
      <3>5. pc = "receive" /\ Receive
        <4>1. rx' # rx
          BY <2>1
        <4>2. QED
          BY <3>3, <3>4, <4>1 DEF GoesOn, Quiet, BlockDone, Record, netVars
      <3>6. QED
        BY <2>1, <3>1, <3>5, ReceiveDelivers
    <2>5. ASSUME link' = "up" PROVE In!InFlight \subseteq In!InFlight' \cup In!TakenR'
      BY <2>3, <2>4, <2>5 DEF In!InFlight
    <2>6. QED
      BY <2>2, <2>5
  <1>4. QED
    BY <1>2, <1>3, ReadsStep

(* The answer to a block is that what does not count as delivered is wanted  *)
(* (inbound_parser, check_mid).                                              *)
LEMMA RefusedStep ==
    ASSUME TypeOK, P!TypeOK, Paired, In!Forth, In!Commands, Recorded, link = "up", PeerStill,
           pc = "parser", ParseBlock
    PROVE  In!Refused'
  <1>1. UNCHANGED <<pcP, olistP, npropP, unsentP, ipropsP, todoP>>
    BY DEF PeerStill
  <1>2. Reads({"F>"}) /\ UNCHANGED <<iprops, mailbox>>
    BY DEF ParseBlock, hostVars
  <1>3. /\ pcP = "answer" /\ Len(iprops) = In!Size /\ In!Size' = In!Size
        /\ \A k \in 1..In!Size : iprops[k] = In!Proposed(k) /\ In!Proposed(k)' = In!Proposed(k)
        /\ tx = <<>> /\ In!Size > 0
    BY <1>1, <1>2, AskedLast DEF In!Asked, In!Commands, In!Size, In!SizeOf, In!Proposed
  <1>4. PICK failed \in SUBSET (1..Len(iprops)) :
           LET fresh == Fresh((1..Len(iprops)) \ failed)
           IN  /\ missed' = missed \cup ({iprops[i] : i \in failed} \ middb)
               /\ Says(IF iprops = <<>> THEN <<>>
                       ELSE <<[t |-> "FS", ans |-> [i \in 1..Len(iprops) |->
                                  IF i \in fresh THEN "Y" ELSE "N"]]>>)
    BY DEF ParseBlock
  <1> DEFINE fresh == Fresh((1..Len(iprops)) \ failed)
             ans == [i \in 1..Len(iprops) |-> IF i \in fresh THEN "Y" ELSE "N"]
             fs == [t |-> "FS", ans |-> ans]
  <1>4a. tx' = tx \o <<fs>>
    <2>1. iprops # <<>>
      BY <1>3, EmptySeq
    <2>2. QED
      BY <1>4, <2>1 DEF Says
  <1>5. fs.t = "FS" /\ fs.ans = ans
    OBVIOUS
  <1>6. In!TakenR \subseteq In!TakenR'
    BY <1>2, <1>4 DEF In!TakenR, In!DeliveredR
  <1>6a. ASSUME NEW k \in 1..In!Size, ans[k] = "N"
         PROVE  In!Proposed(k) \in In!TakenR'
    <2>1. k \in 1..Len(iprops) /\ k \notin fresh
      BY <1>3, <1>6a
    <2>2. iprops[k] \in middb \cup missed'
      BY <1>4, <2>1 DEF Fresh
    <2>3. iprops[k] \in Outgoing \cup In!TakenR'
      BY <1>6, <2>2 DEF Recorded, In!TakenR
    <2>4. In!Proposed(k) \in OutgoingP
      <3>1. olistP \in Seq(OutgoingP) /\ Len(olistP) \in Nat /\ npropP \in 0..Len(olistP)
        BY LenProperties DEF P!TypeOK
      <3>2. npropP + k \in 1..Len(olistP)
        BY <1>6a, <3>1, ConstantsAssumption DEF In!Size, In!SizeOf
      <3>3. QED
        BY <3>1, <3>2, ElementOfSeq DEF In!Proposed
    <2>5. QED
      BY <1>3, <2>3, <2>4 DEF Paired
  <1> HIDE DEF fs, ans
  <1>7. tx'[1] = fs
    <2>1. <<fs>> \in Seq({fs})
      OBVIOUS
    <2>2. tx' = <<fs>>
      BY <1>3, <1>4a, <2>1, ConcatEmptySeq
    <2>3. QED
      BY <2>2
  <1>8. QED
    BY <1>1, <1>3, <1>5, <1>6a, <1>7 DEF In!Refused

(* The peer's messages, in a step of this program.                           *)
LEMMA InSafeStep ==
    ASSUME TypeOK, P!TypeOK, TypeOK', P!TypeOK', Distinct, Distinct', Paired, Session, Recorded,
           In!Safe, pc # "login1",
           pc # "login2", UNCHANGED varsP, Work \/ Mishap
    PROVE  In!Safe'
  <1>1. UNCHANGED <<pcP, olistP, npropP, unsentP, ipropsP, todoP, delP, outboxP>> /\ PeerStill
    BY DEF varsP, PeerStill
  <1>2. In!Size' = In!Size /\ \A k : In!Proposed(k)' = In!Proposed(k)
    BY <1>1 DEF In!Size, In!SizeOf, In!Proposed
  <1>3. In!TakenR \subseteq In!TakenR'
    BY DeliveredGrows
  <1>4. /\ In!InFlight' \subseteq In!InFlight
        /\ link' = "up" => In!InFlight \subseteq In!InFlight' \cup In!TakenR'
    BY FlightStep DEF Session
  <1>5. /\ link = "up" => delP \subseteq In!TakenR \cup In!InFlight
        /\ pcP # "idle" /\ (\E k \in 1..Len(tx) : tx[k].t # "FS") => delP \subseteq In!TakenR
        /\ In!Refused
        /\ OutgoingP \subseteq outboxP \cup In!TakenR /\ In!InFlight \subseteq outboxP
    BY DEF In!Safe, In!Flagged
  <1>6. OutgoingP \subseteq outboxP' \cup In!TakenR' /\ In!InFlight' \subseteq outboxP'
    BY <1>1, <1>3, <1>4, <1>5
  <1>7. link' = "up" => delP' \subseteq In!TakenR' \cup In!InFlight'
    <2>1. link' = "up" => link = "up"
      BY ReadsStep
    <2>2. QED
      BY <1>1, <1>3, <1>4, <1>5, <2>1
  <1>8. CASE tx' = tx
    <2>1. In!Flagged'
      BY <1>1, <1>3, <1>5, <1>7, <1>8 DEF In!Flagged
    <2>2. In!Refused'
      BY <1>1, <1>2, <1>3, <1>5, <1>8 DEF In!Refused
    <2>3. QED
      BY <1>6, <2>1, <2>2 DEF In!Safe
  <1>9. CASE pc = "parser" /\ ParseBlock /\ tx' # tx
    <2>1. link = "up" /\ rx # <<>> /\ Head(rx).t = "F>"
      BY <1>9 DEF ParseBlock, Says, Reads
    <2>2. In!Commands
      <3>1. ~Out!Greets /\ ~Out!Commands /\ ~Out!Transmits /\ ~Out!Declined
        BY <1>9, <2>1 DEF Out!Greets, Out!Commands, Out!Transmits, Out!Declined
      <3>2. ~In!Greets /\ ~In!Transmits /\ ~In!Declined
        BY <1>9, <2>1 DEF In!Greets, In!Transmits, In!Declined
      <3>3. QED
        BY <2>1, <3>1, <3>2 DEF Session, In!Talk, Out!Talk
    <2>3. In!Refused'
      BY <1>1, <1>9, <2>1, <2>2, RefusedStep DEF Session
    <2>4. In!InFlight = {}
      BY <1>9, NoneInFlight DEF Session
    <2>5. In!Flagged'
      BY <1>1, <1>3, <1>5, <1>7, <2>1, <2>4 DEF In!Flagged
    <2>6. QED
      BY <1>6, <2>3, <2>5 DEF In!Safe
  <1>10. CASE /\ tx' # tx /\ pc \in {"sid", "parser", "receive"} /\ link = "up"
              /\ (pc = "receive" => todo = {})
              /\ \E q \in Seq(Line) : /\ tx' = tx \o q
                                      /\ \A k \in 1..Len(q) : q[k].t \in Command
    <2>1. In!InFlight = {}
      BY <1>10, NoneInFlight DEF Session
    <2>2. In!Flagged'
      BY <1>1, <1>3, <1>5, <1>7, <1>10, <2>1 DEF In!Flagged
    <2>3. In!Refused'
      <3>1. PICK q \in Seq(Line) : /\ tx' = tx \o q
                                   /\ \A k \in 1..Len(q) : q[k].t \in Command
        BY <1>10
      <3>2. tx \in Seq(Line) /\ tx' \in Seq(Line) /\ Len(tx) \in Nat /\ Len(tx') \in Nat
        BY LenProperties DEF TypeOK
      <3>3. ASSUME tx' # <<>>, tx'[1].t = "FS" PROVE tx # <<>> /\ tx'[1] = tx[1]
        <4>1. 1 \in 1..Len(tx \o q)
          BY <3>1, <3>2, <3>3, EmptySeq
        <4>2. \/ 1 \in 1..Len(tx) /\ tx'[1] = tx[1]
              \/ \E l \in 1..Len(q) : tx'[1] = q[l]
          BY <3>1, <3>2, <4>1, EachSaid
        <4>3. 1 \in 1..Len(tx) /\ tx'[1] = tx[1]
          BY <3>1, <3>3, <4>2 DEF Command
        <4>4. QED
          BY <4>3, EmptySeq
      <3>4. QED
        BY <1>1, <1>2, <1>3, <1>5, <3>3 DEF In!Refused
    <2>4. QED
      BY <1>6, <2>2, <2>3 DEF In!Safe
  <1>11. CASE pc = "send" /\ PutCompressed /\ tx' # tx
    <2>1. In!InFlight = {}
      BY <1>11, NoneInFlight DEF Session
    <2>2. PICK q \in Seq(Line) : /\ Len(q) = 1 /\ q[1].t = "DATA"
                                 /\ tx' = IF link = "up" THEN tx \o q ELSE tx
      BY <1>11, MessageSaid
    <2>3. link = "up" /\ tx' = tx \o q
      BY <1>11, <2>2
    <2>4. In!Flagged'
      BY <1>1, <1>3, <1>5, <1>7, <2>1, <2>3 DEF In!Flagged
    <2>5. In!Refused'
      <3>1. pcP = "answer" => FALSE
        <4>1. /\ ~In!Greets /\ ~Out!Greets /\ ~Out!Commands /\ ~In!Declined /\ ~Out!Declined
              /\ ~In!Transmits
          BY <1>11 DEF In!Greets, Out!Greets, Out!Commands, In!Declined, Out!Declined,
               In!Transmits
        <4>2. unsent # {}
          BY <1>11 DEF PutCompressed, NextOf
        <4>3. ~In!Commands
          BY <1>11, <4>2 DEF In!Commands, In!Reached
        <4>4. Out!Transmits
          BY <2>3, <4>1, <4>3 DEF Session, In!Talk, Out!Talk
        <4>5. QED
          BY <4>4 DEF Out!Transmits
      <3>2. QED
        BY <1>1, <3>1 DEF In!Refused
    <2>6. QED
      BY <1>6, <2>4, <2>5 DEF In!Safe
  <1>12. QED
    BY <1>8, <1>9, <1>10, <1>11, SaidStep

-------------------------------------------------------------------------------
(* This program's own messages, in a step of its own.                        *)

(* What is said is on its way, behind what already was.                      *)
LEMMA FlightAppend ==
    ASSUME tx \in Seq(Line), NEW q \in Seq(Line), tx' = tx \o q
    PROVE  /\ Out!InFlight \subseteq Out!InFlight'
           /\ \A m \in Out!InFlight' : \/ m \in Out!InFlight
                                       \/ \E k \in 1..Len(q) : q[k].t = "DATA" /\ m = q[k].m
           /\ \A k \in 1..Len(q) : q[k].t = "DATA" => q[k].m \in Out!InFlight'
  <1>1. /\ Len(tx') = Len(tx) + Len(q) /\ Len(tx) \in Nat /\ Len(q) \in Nat
        /\ \A k \in 1..Len(tx) : tx'[k] = tx[k]
        /\ \A k \in 1..Len(q) : tx'[Len(tx) + k] = q[k]
    BY SaidAfter, LenProperties
  <1>2. ASSUME NEW m \in Out!InFlight PROVE m \in Out!InFlight'
    <2>1. PICK k \in 1..Len(tx) : tx[k].t = "DATA" /\ m = tx[k].m
      BY <1>2 DEF Out!InFlight
    <2>2. k \in 1..Len(tx') /\ tx'[k] = tx[k]
      BY <1>1
    <2>3. QED
      BY <2>1, <2>2 DEF Out!InFlight
  <1>3. ASSUME NEW k \in 1..Len(q), q[k].t = "DATA" PROVE q[k].m \in Out!InFlight'
    <2>1. Len(tx) + k \in 1..Len(tx') /\ tx'[Len(tx) + k] = q[k]
      BY <1>1
    <2>2. QED
      BY <1>3, <2>1 DEF Out!InFlight
  <1>4. ASSUME NEW m \in Out!InFlight'
        PROVE  m \in Out!InFlight \/ \E k \in 1..Len(q) : q[k].t = "DATA" /\ m = q[k].m
    <2>1. PICK k \in 1..Len(tx') : tx'[k].t = "DATA" /\ m = tx'[k].m
      BY <1>4 DEF Out!InFlight
    <2>2. k \in 1..Len(tx \o q)
      OBVIOUS
    <2>3. \/ k \in 1..Len(tx) /\ tx'[k] = tx[k]
          \/ \E l \in 1..Len(q) : tx'[k] = q[l]
      BY <2>2, EachSaid
    <2>4. CASE k \in 1..Len(tx) /\ tx'[k] = tx[k]
      BY <2>1, <2>4 DEF Out!InFlight
    <2>5. CASE \E l \in 1..Len(q) : tx'[k] = q[l]
      BY <2>1, <2>5
    <2>6. QED
      BY <2>3, <2>4, <2>5
  <1>5. QED
    BY <1>2, <1>3, <1>4

(* A block is answered with one FS line (inbound_parser).                    *)
LEMMA AnswerSaid ==
    ASSUME TypeOK, ParseBlock, tx' # tx
    PROVE  \E ans \in Seq(Answer) : tx' = tx \o <<[t |-> "FS", ans |-> ans]>>
  <1>1. PICK fresh : Says(IF iprops = <<>> THEN <<>>
                          ELSE <<[t |-> "FS",
                                  ans |-> [i \in 1..Len(iprops) |->
                                             IF i \in fresh THEN "Y" ELSE "N"]]>>)
    BY DEF ParseBlock
  <1>2. iprops # <<>>
    <2>1. ASSUME iprops = <<>> PROVE tx' = tx
      BY <1>1, <2>1, ConcatEmptySeq DEF Says, TypeOK
    <2>2. QED
      BY <2>1
  <1>3. [i \in 1..Len(iprops) |-> IF i \in fresh THEN "Y" ELSE "N"] \in Seq(Answer)
    <2>1. Len(iprops) \in Nat
      BY LenProperties DEF TypeOK
    <2>2. QED
      BY <2>1, SeqDef DEF Answer
  <1>4. QED
    BY <1>1, <1>2, <1>3 DEF Says

(* Only putcompressed() puts a message on its way.                           *)
LEMMA FlightGrows ==
    ASSUME TypeOK, Work \/ Mishap, pc # "login1", pc # "login2"
    PROVE  /\ Out!InFlight \subseteq Out!InFlight'
           /\ \/ Out!InFlight' \subseteq Out!InFlight
              \/ pc = "send" /\ PutCompressed /\ link = "up"
  <1>1. tx \in Seq(Line)
    BY DEF TypeOK
  <1>2. CASE tx' = tx
    BY <1>2 DEF Out!InFlight
  <1>3. ASSUME NEW q \in Seq(Line), tx' = tx \o q, \A k \in 1..Len(q) : q[k].t # "DATA"
        PROVE  Out!InFlight \subseteq Out!InFlight' /\ Out!InFlight' \subseteq Out!InFlight
    BY <1>1, <1>3, FlightAppend
  <1>4. CASE pc = "parser" /\ ParseBlock /\ tx' # tx
    <2>1. PICK ans : /\ ans \in Seq(Answer)
                     /\ tx' = tx \o <<[t |-> "FS", ans |-> ans]>>
      BY <1>4, AnswerSaid
    <2> DEFINE fs == [t |-> "FS", ans |-> ans]
    <2>2. fs \in Line /\ fs.t = "FS"
      BY <2>1 DEF Line
    <2>3. tx' = tx \o <<fs>>
      BY <2>1
    <2> HIDE DEF fs
    <2>4. <<fs>> \in Seq(Line) /\ \A k \in 1..Len(<<fs>>) : <<fs>>[k].t # "DATA"
      BY <2>2
    <2>5. QED
      BY <1>3, <2>3, <2>4
  <1>5. CASE \E q \in Seq(Line) : /\ tx' = tx \o q
                                  /\ \A k \in 1..Len(q) : q[k].t \in Command
    <2>1. PICK q \in Seq(Line) : /\ tx' = tx \o q
                                 /\ \A k \in 1..Len(q) : q[k].t \in Command
      BY <1>5
    <2>2. \A k \in 1..Len(q) : q[k].t # "DATA"
      BY <2>1 DEF Command
    <2>3. QED
      BY <1>3, <2>1, <2>2
  <1>6. CASE pc = "send" /\ PutCompressed /\ tx' # tx
    <2>1. PICK q \in Seq(Line) : tx' = IF link = "up" THEN tx \o q ELSE tx
      BY <1>6, MessageSaid
    <2>2. link = "up" /\ tx' = tx \o q
      BY <1>6, <2>1
    <2>3. Out!InFlight \subseteq Out!InFlight'
      BY <1>1, <2>2, FlightAppend
    <2>4. QED
      BY <1>6, <2>2, <2>3
  <1>7. QED
    BY <1>2, <1>4, <1>5, <1>6, SaidStep

(* What a program transmits is in its outbox (UnansweredKept).               *)
LEMMA TransmitsKept ==
    ASSUME TypeOK, Distinct, UnansweredKept, Session, pc = "send", PutCompressed, link = "up"
    PROVE  /\ \E m \in outbox : del' = del \cup {m} /\ m \in Out!InFlight'
           /\ Out!InFlight' \subseteq Out!InFlight \cup outbox
           /\ rx = <<>> /\ rx' = rx /\ outbox' = outbox
  <1>1. PICK i \in unsent, q \in Seq(Line) :
           /\ del' = del \cup {olist[i]}
           /\ Len(q) = 1 /\ q[1].t = "DATA" /\ q[1].m = olist[i]
           /\ tx' = tx \o q
    BY MessageSaid
  <1>2. rx = <<>> /\ rx' = rx /\ outbox' = outbox
    BY <1>1 DEF Session, Out!Back, PutCompressed, netVars
  <1>3. unsent \subseteq nprop+1 .. nprop+Out!Size
    <2>1. /\ ~In!Greets /\ ~Out!Greets /\ ~Out!Commands /\ ~In!Declined /\ ~Out!Declined
          /\ ~In!Transmits
      BY DEF In!Greets, Out!Greets, Out!Commands, In!Declined, Out!Declined, In!Transmits
    <2>2. ~In!Commands
      BY <1>1 DEF In!Commands, In!Reached
    <2>3. Out!Transmits
      BY <2>1, <2>2 DEF Session, In!Talk, Out!Talk
    <2>4. QED
      BY <2>3 DEF Out!Transmits
  <1>4. i \in nprop+1 .. Len(olist)
    <2>1. i \in 1..Len(olist) /\ nprop \in Nat /\ Len(olist) \in Nat
      BY <1>1, BatchType, LenProperties DEF TypeOK
    <2>2. i >= nprop + 1
      <3>1. i \in nprop+1 .. nprop+Out!Size
        BY <1>1, <1>3
      <3>2. QED
        BY <3>1
    <2>3. QED
      BY <2>1, <2>2
  <1>5. olist[i] \in outbox
    BY <1>4 DEF UnansweredKept, InSession
  <1>6. tx \in Seq(Line)
    BY DEF TypeOK
  <1>7. 1 \in 1..Len(q) /\ \A k \in 1..Len(q) : k = 1
    BY <1>1
  <1>8. olist[i] \in Out!InFlight'
    BY <1>1, <1>6, <1>7, FlightAppend
  <1>9. Out!InFlight' \subseteq Out!InFlight \cup outbox
    BY <1>1, <1>5, <1>6, <1>7, FlightAppend, SMTT(60)
  <1>10. QED
    BY <1>1, <1>2, <1>5, <1>8, <1>9

(* What an answer adds to the flags was delivered (b2outboundproposal).      *)
LEMMA AnswerFlags ==
    ASSUME TypeOK, Out!Back, Out!Refused, pc = "answer", AnswerFS
    PROVE  del' \subseteq del \cup Out!TakenR
  <1>1. rx # <<>> /\ Head(rx).t = "FS"
    BY DEF AnswerFS, Reads
  <1>2. rx \in Seq(Line) /\ Len(rx) \in Nat \ {0} /\ Head(rx) = rx[1]
    BY <1>1, LenProperties, EmptySeq, HeadTailProperties DEF TypeOK
  <1>3. 1 \in 1..Len(rx)
    BY <1>2
  <1> DEFINE ans == rx[1].ans
  <1>4. ans \in [1..Out!Size -> {"Y", "N"}]
    BY <1>1, <1>2, <1>3 DEF Out!Back
  <1>5. Out!Size \in Nat
    BY BatchType DEF Out!Size, Out!SizeOf, BatchSize, Remaining
  <1>6. Len(ans) = Out!Size
    BY <1>4, <1>5, SeqDef, LenProperties
  <1>7. \A k \in 1..Out!Size : ans[k] = "N" => Out!Proposed(k) \in Out!TakenR
    BY <1>1, <1>2 DEF Out!Refused
  <1> HIDE DEF ans
  <1>8. ASSUME NEW k \in 1..Remaining, Heard(ans, k) = "N"
        PROVE  olist[nprop + k] \in Out!TakenR
    <2>1. Remaining \in Nat
      BY BatchType
    <2>2. k =< Len(ans) /\ ans[k] = "N"
      BY <1>4, <1>6, <1>8 DEF Heard
    <2>3. k \in 1..Out!Size
      BY <1>5, <1>6, <2>1, <2>2
    <2>4. QED
      BY <1>7, <2>2, <2>3 DEF Out!Proposed
  <1>9. HeardAs(ans, {"N"}) \subseteq Out!TakenR
    BY <1>8 DEF HeardAs
  <1>10. del' = del \/ del' = (del \ HeardAs(ans, Answer)) \cup HeardAs(ans, {"N"})
    BY <1>2 DEF AnswerFS, outVars, ans
  <1>11. QED
    BY <1>9, <1>10

(* What is unlinked counts as delivered (dodelete).                          *)
LEMMA UnlinksDelivered ==
    ASSUME TypeOK, Out!Back, Out!Flagged, Work \/ Mishap, outbox' # outbox
    PROVE  pc = "parser" /\ rx # <<>> /\ outbox \subseteq outbox' \cup Out!TakenR
  <1>1. DoDelete /\ (ParseFC \/ ParseFF \/ ParseFQ \/ ParsePrompt)
    BY OutboxStep
  <1>2. pc = "parser" /\ rx # <<>>
    BY <1>1 DEF ParseFC, ParseFF, ParseFQ, ParsePrompt, Reads
  <1>3. rx \in Seq(Line) /\ Len(rx) \in Nat \ {0}
    BY <1>2, LenProperties, EmptySeq DEF TypeOK
  <1>4. 1 \in 1..Len(rx)
    BY <1>3
  <1>4a. rx[1].t # "FS"
    BY <1>2, <1>4 DEF Out!Back
  <1>5. del \subseteq Out!TakenR
    BY <1>2, <1>4, <1>4a DEF Out!Flagged
  <1>6. outbox \subseteq outbox' \cup del
    BY <1>1 DEF DoDelete, Deletable
  <1>7. QED
    BY <1>2, <1>5, <1>6

(* This program's messages, in a step of its own.                            *)
LEMMA OutSafeStep ==
    ASSUME TypeOK, Distinct, UnansweredKept, Session, Out!Safe, pc # "login1",
           pc # "login2", UNCHANGED varsP, Work \/ Mishap
    PROVE  Out!Safe'
  <1>1. Out!TakenR' = Out!TakenR
    BY DEF varsP, Out!TakenR, Out!DeliveredR
  <1>2. /\ link = "up" => del \subseteq Out!TakenR \cup Out!InFlight
        /\ pc # "idle" /\ (\E k \in 1..Len(rx) : rx[k].t # "FS") => del \subseteq Out!TakenR
        /\ Out!Refused
        /\ Outgoing \subseteq outbox \cup Out!TakenR /\ Out!InFlight \subseteq outbox
        /\ Out!Back /\ In!Forth /\ (rx = <<>> \/ tx = <<>>)
    BY DEF Out!Safe, Out!Flagged, Session
  <1>3. link' = "up" => link = "up"
    BY ReadsStep
  <1>4. CASE pc = "idle"
    <2>1. UNCHANGED <<pc, olist, nprop, del, outbox, rx, tx, link>>
      BY <1>4, IdleStep DEF Quiet, outVars, hostVars, netVars
    <2>2. Out!InFlight' = Out!InFlight /\ Out!Size' = Out!Size
      BY <2>1 DEF Out!InFlight, Out!Size, Out!SizeOf
    <2>3. Out!Flagged' /\ Out!Refused'
      BY <1>1, <1>2, <1>4, <2>1, <2>2 DEF Out!Flagged, Out!Refused
    <2>4. QED
      BY <1>1, <1>2, <2>1, <2>2, <2>3 DEF Out!Safe
  <1>5. CASE pc # "idle"
    <2>1. pc # "answerFW"
      BY <1>2, <1>5 DEF In!Forth
    <2>2. /\ Out!InFlight \subseteq Out!InFlight'
          /\ \/ Out!InFlight' \subseteq Out!InFlight
             \/ pc = "send" /\ PutCompressed /\ link = "up"
      BY FlightGrows
    <2>3. /\ \A k \in 1..Len(rx') : \E l \in 1..Len(rx) : rx'[k] = rx[l]
          /\ rx = <<>> => rx' = <<>>
      BY ReadsLeft
    <2>4. ASSUME pc = "send", PutCompressed
          PROVE  rx' = <<>> /\ outbox' = outbox
      BY <1>2, <2>4 DEF Out!Back, PutCompressed, NextOf, netVars
    <2>5. Out!Flagged'
      <3>1. ASSUME link' = "up" PROVE del' \subseteq Out!TakenR' \cup Out!InFlight'
        <4>1. del \subseteq Out!TakenR' \cup Out!InFlight'
          BY <1>1, <1>2, <1>3, <2>2, <3>1
        <4>2. CASE pc = "send" /\ PutCompressed
          BY <1>3, <3>1, <4>1, <4>2, TransmitsKept
        <4>3. CASE pc = "answer" /\ AnswerFS
          BY <1>1, <1>2, <4>1, <4>3, AnswerFlags
        <4>4. QED
          BY <1>5, <2>1, <4>1, <4>2, <4>3, FlagStep
      <3>2. ASSUME NEW k \in 1..Len(rx'), rx'[k].t # "FS"
            PROVE  del' \subseteq Out!TakenR'
        <4>1. \E l \in 1..Len(rx) : rx[l].t # "FS"
          BY <2>3, <3>2
        <4>2. del \subseteq Out!TakenR'
          BY <1>1, <1>2, <1>5, <4>1
        <4>3. ~(pc = "send" /\ PutCompressed)
          <5>1. rx' # <<>>
            BY <3>2, EmptySeq
          <5>2. QED
            BY <2>4, <5>1
        <4>4. CASE pc = "answer" /\ AnswerFS
          BY <1>1, <1>2, <4>2, <4>4, AnswerFlags
        <4>5. QED
          BY <1>5, <2>1, <4>2, <4>3, <4>4, FlagStep
      <3>3. QED
        BY <3>1, <3>2 DEF Out!Flagged
    <2>6. Out!Refused'
      <3> SUFFICES ASSUME pc' = "answer", rx' # <<>>, rx'[1].t = "FS",
                          NEW k \in 1..Out!Size', rx'[1].ans[k] = "N"
                   PROVE  Out!Proposed(k)' \in Out!TakenR'
        BY DEF Out!Refused
      <3>1. rx # <<>>
        BY <2>3
      <3>2. CASE rx' = rx
        <4>1. rx \in Seq(Line) /\ Len(rx) \in Nat \ {0}
          BY <3>1, LenProperties, EmptySeq DEF TypeOK
        <4>2. 1 \in 1..Len(rx)
          BY <4>1
        <4>3. pc = "answer"
          BY <1>2, <1>5, <3>2, <4>2 DEF Out!Back
        <4>4. ~Exit
          BY DEF Exit
        <4>5. rx' # Tail(rx)
          <5>1. ASSUME rx' = Tail(rx) PROVE Len(rx') = Len(rx) - 1
            BY <3>1, <5>1, ReadShifts
          <5>2. Len(rx') = Len(rx) /\ Len(rx) # Len(rx) - 1
            BY <3>2, <4>1
          <5>3. QED
            BY <5>1, <5>2
        <4>6. Quiet
          BY <3>2, <4>3, <4>4, <4>5, StepKinds DEF GoesOn, AnswerSkip, AnswerFS, Reads
        <4>7. UNCHANGED <<olist, nprop>>
          BY <4>6 DEF Quiet, outVars
        <4>8. Out!Size' = Out!Size /\ Out!Proposed(k)' = Out!Proposed(k)
          BY <4>7 DEF Out!Size, Out!SizeOf, Out!Proposed
        <4>9. QED
          BY <1>1, <1>2, <3>1, <3>2, <4>3, <4>8 DEF Out!Refused
      <3>3. CASE rx' = Tail(rx)
        <4>1. /\ Len(rx) \in Nat \ {0} /\ Len(rx') = Len(rx) - 1
              /\ \A j \in 1..Len(rx') : j + 1 \in 1..Len(rx) /\ rx'[j] = rx[j+1]
          BY <3>1, <3>3, ReadShifts
        <4>2. rx' \in Seq(Line)
          BY <3>1, <3>3, HeadTailProperties DEF TypeOK
        <4>3. Len(rx') \in Nat \ {0}
          BY <4>2, LenProperties, EmptySeq
        <4>4. 1 \in 1..Len(rx')
          BY <4>3
        <4>5. 2 \in 1..Len(rx) /\ rx'[1] = rx[2]
          BY <4>1, <4>4
        <4>6. QED
          BY <1>2, <1>5, <4>5 DEF Out!Back
      <3>4. QED
        BY <3>2, <3>3, ReadsStep
    <2>7. Outgoing \subseteq outbox' \cup Out!TakenR'
      <3>1. CASE outbox' = outbox
        BY <1>1, <1>2, <3>1
      <3>2. CASE outbox' # outbox
        BY <1>1, <1>2, <3>2, UnlinksDelivered DEF Out!Safe
      <3>3. QED
        BY <3>1, <3>2
    <2>8. Out!InFlight' \subseteq outbox'
      <3>1. CASE pc = "send" /\ PutCompressed /\ link = "up"
        BY <1>2, <3>1, TransmitsKept
      <3>2. CASE Out!InFlight' \subseteq Out!InFlight
        <4>1. CASE outbox' = outbox
          BY <1>2, <3>2, <4>1
        <4>2. CASE outbox' # outbox
          <5>1. tx = <<>>
            BY <1>2, <4>2, UnlinksDelivered DEF Out!Safe
          <5>2. Out!InFlight = {}
            BY <5>1, EmptySeq DEF Out!InFlight
          <5>3. QED
            BY <3>2, <5>2
        <4>3. QED
          BY <4>1, <4>2
      <3>3. QED
        BY <2>2, <3>1, <3>2
    <2>9. QED
      BY <2>5, <2>6, <2>7, <2>8 DEF Out!Safe
  <1>6. QED
    BY <1>4, <1>5

-------------------------------------------------------------------------------
(* A session from beginning to end.                                          *)

(* Both endpoints speak the same lines.                                      *)
LEMMA LinesSame == P!Line = Line /\ P!PC = PC
  BY DEF P!Line, Line, P!Bare, Bare, P!Prompt, Prompt, P!Answer, Answer, P!PC, PC

(* The program and its peer by themselves, in a step of the program.         *)
LEMMA SoundStep ==
    ASSUME Sound, UNCHANGED varsP, Work \/ Mishap
    PROVE  Sound'
  <1>1. TypeOK' /\ Distinct' /\ UnansweredKept'
    <2>1. TypeOK'
      BY WorkSteps, OtherSteps DEF Sound
    <2>2. QED
      BY <2>1, UnansweredStep DEF Sound
  <1>2. P!TypeOK'
    <2>1. /\ rx' \in Seq(P!Line) /\ tx' \in Seq(P!Line)
          /\ link' \in {"up", "closed"} /\ faults' \in 0..MaxFaults
      BY <1>1, LinesSame DEF TypeOK
    <2>2. QED
      BY <2>1 DEF Sound, varsP, P!TypeOK
  <1>3. P!Distinct' /\ P!UnansweredKept'
    BY DEF Sound, varsP, P!Distinct, P!UnansweredKept, P!InSession
  <1>4. QED
    BY <1>1, <1>2, <1>3 DEF Sound

(* And their session.                                                        *)
LEMMA DialogueStep ==
    ASSUME Sound, Session, UNCHANGED varsP, Work \/ Mishap
    PROVE  Sound' /\ Session'
  <1>1. pc # "login1" /\ pc # "login2"
    BY DEF Session, In!Forth
  <1>2. QED
    BY <1>1, SoundStep, SessionStep DEF Sound

(* The program stops, without having decided to, while it waits for a line.  *)
Stops ==
    /\ Exit /\ pc # "record"
    /\ UNCHANGED <<ret, sendonly, outVars, inVars, dbVars, hostVars, rx, tx, ahead, faults>>

(* The other end stops: this one's session is as sound as it was.            *)
LEMMA StopStep ==
    ASSUME Sound, Session, UNCHANGED varsP, Stops
    PROVE  /\ Sound' /\ Session'
           /\ Stored => Stored'
           /\ Recorded => Recorded'
           /\ In!Safe /\ Out!Safe => In!Safe' /\ Out!Safe'
           /\ In!Untaken /\ Out!Untaken => In!Untaken' /\ Out!Untaken'
  <1>1. /\ pc' = "idle" /\ link' = "closed" /\ pc # "record"
        /\ UNCHANGED <<ret, sendonly, olist, nprop, del, unsent, iprops, todo, middb, old,
                       orphan, missed, outbox, mailbox, settled, rx, tx, ahead, faults>>
    BY DEF Stops, Exit, outVars, inVars, dbVars, hostVars
  <1>2. /\ UNCHANGED <<pcP, olistP, npropP, delP, unsentP, ipropsP, todoP, outboxP, sendonlyP,
                       mailboxP, missedP>>
    BY DEF varsP
  <1>3. Sound'
    <2>1. TypeOK'
      BY <1>1 DEF Sound, TypeOK, PC
    <2>2. Distinct' /\ UnansweredKept'
      BY <1>1 DEF Sound, Distinct, UnansweredKept, InSession
    <2>3. P!TypeOK' /\ P!Distinct' /\ P!UnansweredKept'
      BY <1>1 DEF Sound, varsP, P!TypeOK, P!Distinct, P!UnansweredKept, P!InSession
    <2>4. QED
      BY <2>1, <2>2, <2>3 DEF Sound
  <1>4. Session'
    <2>1. In!Forth' /\ Out!Back'
      BY <1>1 DEF In!Forth, Out!Back
    <2>2. Out!Forth' /\ In!Back'
      BY <1>1, UnheardSame DEF Session
    <2>3. QED
      BY <1>1, <2>1, <2>2 DEF Session
  <1>5. Stored => Stored'
    BY <1>1 DEF Stored
  <1>6. Recorded => Recorded'
    BY <1>1 DEF Recorded, In!TakenR, In!DeliveredR
  <1>7. In!Safe => In!Safe'
    <2>1. /\ In!TakenR' = In!TakenR /\ In!InFlight' = In!InFlight
          /\ In!Size' = In!Size /\ \A k : In!Proposed(k)' = In!Proposed(k)
      BY <1>1, <1>2 DEF In!TakenR, In!DeliveredR, In!InFlight, In!Size, In!SizeOf, In!Proposed
    <2>2. QED
      BY <1>1, <1>2, <2>1 DEF In!Safe, In!Flagged, In!Refused
  <1>8. Out!Safe => Out!Safe'
    <2>1. Out!TakenR' = Out!TakenR /\ Out!InFlight' = Out!InFlight
      BY <1>1, <1>2 DEF Out!TakenR, Out!DeliveredR, Out!InFlight
    <2>2. QED
      BY <1>1, <1>2, <2>1 DEF Out!Safe, Out!Flagged, Out!Refused
  <1>9. In!Untaken /\ Out!Untaken => In!Untaken' /\ Out!Untaken'
    BY <1>1, <1>2 DEF In!Untaken, Out!Untaken
  <1>10. QED
    BY <1>3, <1>4, <1>5, <1>6, <1>7, <1>8, <1>9

(* The link drops: of the lines on their way the first ones remain.          *)
Cut == /\ link' = "closed" /\ faults' \in 0..MaxFaults
       /\ UNCHANGED <<pc, ret, sendonly, olist, nprop, del, unsent, iprops, todo, ahead,
                      outbox, middb, old, mailbox, settled, orphan, missed>>
       /\ UNCHANGED varsP
       /\ \E n \in 0..Len(rx) : rx' = SubSeq(rx, 1, n)
       /\ \E n \in 0..Len(tx) : tx' = SubSeq(tx, 1, n)

(* The first lines of q are lines of q.                                      *)
LEMMA FirstLines ==
    ASSUME NEW q \in Seq(Line), NEW n \in 0..Len(q)
    PROVE  /\ SubSeq(q, 1, n) \in Seq(Line)
           /\ \A k \in 1..Len(SubSeq(q, 1, n)) : k \in 1..Len(q) /\ SubSeq(q, 1, n)[k] = q[k]
           /\ q = <<>> => SubSeq(q, 1, n) = <<>>
           /\ SubSeq(q, 1, n) # <<>> => SubSeq(q, 1, n)[1] = q[1]
  <1> DEFINE r == SubSeq(q, 1, n)
  <1>1. Len(q) \in Nat
    BY LenProperties
  <1>2. \A k \in 1..n : k \in 1..Len(q) /\ 1 + k - 1 = k
    BY <1>1
  <1>3. r \in Seq(Line) /\ Len(r) = n /\ \A k \in 1..n : r[k] = q[1 + k - 1]
    <2>1. \A k \in 1..n : q[k] \in Line
      BY <1>2, ElementOfSeq
    <2>2. QED
      BY <1>1, <2>1, SubSeqProperties
  <1>4. \A k \in 1..n : r[k] = q[k]
    BY <1>2, <1>3
  <1>5. q = <<>> => r = <<>>
    BY <1>3, EmptySeq
  <1>6. r # <<>> => r[1] = q[1]
    <2>1. r # <<>> => 1 \in 1..n
      BY <1>3, EmptySeq
    <2>2. QED
      BY <1>4, <2>1
  <1> HIDE DEF r
  <1>7. QED
    BY <1>2, <1>3, <1>4, <1>5, <1>6 DEF r

(* The connection is cut: what was on its way is lost, no message is.        *)
LEMMA DropStep ==
    ASSUME Sound, Session, Cut
    PROVE  /\ Sound' /\ In!Forth' /\ Out!Back' /\ (rx' = <<>> \/ tx' = <<>>)
           /\ Stored => Stored'
           /\ Recorded => Recorded'
           /\ In!Safe /\ Out!Safe => In!Safe' /\ Out!Safe'
           /\ In!Untaken /\ Out!Untaken => In!Untaken' /\ Out!Untaken'
  <1>1. rx \in Seq(Line) /\ tx \in Seq(Line)
    BY DEF Sound, TypeOK
  <1>2. PICK n \in 0..Len(rx) : rx' = SubSeq(rx, 1, n)
    BY DEF Cut
  <1>3. PICK l \in 0..Len(tx) : tx' = SubSeq(tx, 1, l)
    BY DEF Cut
  <1>4. /\ rx' \in Seq(Line) /\ \A k \in 1..Len(rx') : k \in 1..Len(rx) /\ rx'[k] = rx[k]
        /\ rx = <<>> => rx' = <<>>
        /\ rx' # <<>> => rx'[1] = rx[1]
    BY <1>1, <1>2, FirstLines
  <1>5. /\ tx' \in Seq(Line) /\ \A k \in 1..Len(tx') : k \in 1..Len(tx) /\ tx'[k] = tx[k]
        /\ tx = <<>> => tx' = <<>>
        /\ tx' # <<>> => tx'[1] = tx[1]
    BY <1>1, <1>3, FirstLines
  <1>6. /\ link' = "closed" /\ faults' \in 0..MaxFaults
        /\ UNCHANGED <<pc, ret, sendonly, olist, nprop, del, unsent, iprops, todo, ahead,
                       outbox, middb, old, mailbox, settled, orphan, missed>>
        /\ UNCHANGED <<pcP, olistP, npropP, delP, unsentP, ipropsP, todoP, outboxP, sendonlyP,
                       mailboxP, missedP>>
        /\ UNCHANGED varsP
    BY DEF Cut, varsP
  <1>7. Sound'
    <2>1. TypeOK'
      BY <1>4, <1>5, <1>6 DEF Sound, TypeOK
    <2>2. Distinct' /\ UnansweredKept'
      BY <1>6 DEF Sound, Distinct, UnansweredKept, InSession
    <2>3. P!TypeOK'
      <3>1. rx' \in Seq(P!Line) /\ tx' \in Seq(P!Line)
        BY <1>4, <1>5, LinesSame
      <3>2. QED
        BY <1>6, <3>1 DEF Sound, varsP, P!TypeOK
    <2>4. P!Distinct' /\ P!UnansweredKept'
      BY <1>6 DEF Sound, varsP, P!Distinct, P!UnansweredKept, P!InSession
    <2>5. QED
      BY <2>1, <2>2, <2>3, <2>4 DEF Sound
  <1>8. In!Forth' /\ Out!Back'
    BY <1>2, <1>6, CutStep DEF Session, Sound
  <1>9. rx' = <<>> \/ tx' = <<>>
    BY <1>4, <1>5 DEF Session
  <1>10. Stored => Stored'
    BY <1>6 DEF Stored, In!Rest, In!First
  <1>11. Recorded => Recorded'
    BY <1>6 DEF Recorded, In!TakenR, In!DeliveredR
  <1>12. In!Safe => In!Safe'
    <2>1. /\ In!TakenR' = In!TakenR
          /\ In!Size' = In!Size /\ \A k : In!Proposed(k)' = In!Proposed(k)
      BY <1>6 DEF In!TakenR, In!DeliveredR, In!Size, In!SizeOf, In!Proposed
    <2>2. In!InFlight' \subseteq In!InFlight
      BY <1>4 DEF In!InFlight
    <2>3. In!Flagged => In!Flagged'
      BY <1>5, <1>6, <2>1 DEF In!Flagged
    <2>4. In!Refused => In!Refused'
      BY <1>5, <1>6, <2>1 DEF In!Refused
    <2>5. QED
      BY <1>6, <2>1, <2>2, <2>3, <2>4 DEF In!Safe
  <1>13. Out!Safe => Out!Safe'
    <2>1. /\ Out!TakenR' = Out!TakenR
          /\ Out!Size' = Out!Size /\ \A k : Out!Proposed(k)' = Out!Proposed(k)
      BY <1>6 DEF Out!TakenR, Out!DeliveredR, Out!Size, Out!SizeOf, Out!Proposed
    <2>2. Out!InFlight' \subseteq Out!InFlight
      BY <1>5 DEF Out!InFlight
    <2>3. Out!Flagged => Out!Flagged'
      BY <1>4, <1>6, <2>1 DEF Out!Flagged
    <2>4. Out!Refused => Out!Refused'
      BY <1>4, <1>6, <2>1 DEF Out!Refused
    <2>5. QED
      BY <1>6, <2>1, <2>2, <2>3, <2>4 DEF Out!Safe
  <1>14. In!Untaken => In!Untaken'
    BY <1>5, <1>6 DEF In!Untaken
  <1>15. Out!Untaken => Out!Untaken'
    BY <1>4, <1>6 DEF Out!Untaken
  <1>16. QED
    BY <1>7, <1>8, <1>9, <1>10, <1>11, <1>12, <1>13, <1>14, <1>15

(* Both are started: the daemon greets, and the client reads that first      *)
(* (wl2kd_exchange, wl2k_exchange).                                          *)
LEMMA GreetingStep ==
    ASSUME Role = "client", Login = "none", Start, P!Start,
           rx' = P!Greeting, tx' = Greeting, link' = "up"
    PROVE  /\ Session'
           /\ In!Safe /\ Out!Safe => In!Safe' /\ Out!Safe'
           /\ In!Untaken' /\ Out!Untaken'
           /\ In!Clean' /\ Out!Clean'
  <1>1. /\ pc' = "greet" /\ iprops' = <<>> /\ del' = {} /\ todo' = {} /\ unsent' = {}
        /\ UNCHANGED <<outbox, mailbox, missed>>
    BY DEF Start, Begin, hostVars
  <1>2. /\ pcP' = "greet" /\ ipropsP' = <<>> /\ delP' = {} /\ todoP' = {} /\ unsentP' = {}
        /\ UNCHANGED <<outboxP, mailboxP, missedP>>
    BY DEF P!Start, P!Begin, P!hostVars
  <1>3. /\ tx' = <<>> /\ RoleP = "daemon"
    BY DEF Greeting, RoleP
  <1> DEFINE sid == [t |-> "SID"]
             banner == [t |-> "?"]
             prompt == [t |-> ">"]
  <1>4. rx' = <<sid>> \o <<banner>> \o <<prompt>>
    BY <1>3 DEF P!Greeting, P!Just
  <1>5. /\ sid.t = "SID" /\ banner.t = "?" /\ prompt.t = ">"
        /\ {sid, banner, prompt} \subseteq Line
    BY DEF Line, Bare
  <1> HIDE DEF sid, banner, prompt
  <1>6. /\ Len(rx') = 3 /\ rx' # <<>>
        /\ rx'[1].t = "SID" /\ rx'[2].t = "?" /\ rx'[3].t = ">"
    <2> DEFINE two == <<sid>> \o <<banner>>
    <2>1. <<sid>> \in Seq(Line) /\ <<banner>> \in Seq(Line) /\ <<prompt>> \in Seq(Line)
      BY <1>5
    <2>2. two \in Seq(Line) /\ Len(two) = 2 /\ two[1] = sid /\ two[2] = banner
      <3>1. /\ two \in Seq(Line) /\ Len(two) = Len(<<sid>>) + Len(<<banner>>)
            /\ \A k \in 1..Len(<<sid>>) : two[k] = <<sid>>[k]
            /\ \A k \in 1..Len(<<banner>>) : two[Len(<<sid>>) + k] = <<banner>>[k]
        BY <2>1, SaidAfter
      <3>2. Len(<<sid>>) = 1 /\ Len(<<banner>>) = 1
        OBVIOUS
      <3>3. /\ <<sid>>[1] = sid /\ <<banner>>[1] = banner
            /\ 1 \in 1..Len(<<sid>>) /\ 1 \in 1..Len(<<banner>>)
        OBVIOUS
      <3> HIDE DEF two
      <3>4. two[1] = sid
        BY <3>1, <3>3
      <3>5. two[2] = banner
        <4>1. two[Len(<<sid>>) + 1] = <<banner>>[1]
          BY <3>1, <3>3
        <4>2. QED
          BY <3>2, <3>3, <4>1
      <3>6. QED
        BY <3>1, <3>2, <3>4, <3>5
    <2> HIDE DEF two
    <2>3. /\ Len(two \o <<prompt>>) = Len(two) + Len(<<prompt>>)
          /\ \A k \in 1..Len(two) : (two \o <<prompt>>)[k] = two[k]
          /\ \A k \in 1..Len(<<prompt>>) : (two \o <<prompt>>)[Len(two) + k] = <<prompt>>[k]
      BY <2>1, <2>2, SaidAfter
    <2>4. rx' = two \o <<prompt>>
      BY <1>4 DEF two
    <2>5. /\ Len(rx') = 3 /\ rx'[1] = sid /\ rx'[2] = banner /\ rx'[3] = prompt
      BY <2>2, <2>3, <2>4
    <2>6. rx' # <<>>
      BY <2>5, EmptySeq
    <2>7. QED
      BY <1>5, <2>5, <2>6
  <1>7. \A k \in 1..Len(rx') : k = 1 \/ k = 2 \/ k = 3
    BY <1>6
  <1>8. \A k \in 1..Len(rx') : rx'[k].t \in {"SID", "?", ">"}
    BY <1>6, <1>7
  <1>9. 1..Len(tx') = {} /\ 1..Len(iprops') = {} /\ 1..Len(ipropsP') = {}
    BY <1>1, <1>2, <1>3, EmptySeq
  <1>10. In!Greets'
    <2>1. \A k \in 1 .. Len(rx') - 1 : rx'[k].t \in {"SID", "?"}
      <3>1. \A k \in 1 .. Len(rx') - 1 : k = 1 \/ k = 2
        BY <1>6
      <3>2. QED
        BY <1>6, <3>1
    <2>2. QED
      BY <1>1, <1>2, <1>3, <1>6, <2>1 DEF In!Greets
  <1>11. Session'
    <2>1. In!Forth'
      BY <1>1, <1>8, <1>9 DEF In!Forth, In!Told, In!OneToOne
    <2>2. Out!Forth'
      BY <1>2, <1>9 DEF Out!Forth, Out!OneToOne
    <2>3. In!Back' /\ Out!Back'
      BY <1>1, <1>2, <1>8, <1>9 DEF In!Back, Out!Back
    <2>4. QED
      BY <1>3, <1>10, <2>1, <2>2, <2>3 DEF Session, In!Talk
  <1>12. In!Safe => In!Safe'
    <2>1. In!TakenR' = In!TakenR /\ In!InFlight' = {}
      BY <1>1, <1>8 DEF In!TakenR, In!DeliveredR, In!InFlight
    <2>2. QED
      BY <1>2, <2>1 DEF In!Safe, In!Flagged, In!Refused
  <1>13. Out!Safe => Out!Safe'
    <2>1. Out!TakenR' = Out!TakenR /\ Out!InFlight' = {}
      BY <1>2, <1>9 DEF Out!TakenR, Out!DeliveredR, Out!InFlight
    <2>2. QED
      BY <1>1, <2>1 DEF Out!Safe, Out!Flagged, Out!Refused
  <1>14. In!Untaken' /\ Out!Untaken'
    BY <1>1, <1>2, <1>8, <1>9 DEF In!Untaken, Out!Untaken
  <1>15. In!Clean' /\ Out!Clean'
    <2>1. 1 \in 1..Len(rx')
      BY <1>6
    <2>2. In!Clean'
      BY <1>6, <1>8, <2>1 DEF In!Clean
    <2>3. Out!Clean'
      BY <1>3, <1>9 DEF Out!Clean
    <2>4. QED
      BY <2>2, <2>3
  <1>16. QED
    BY <1>11, <1>12, <1>13, <1>14, <1>15

-------------------------------------------------------------------------------
(* What the steps of a session amount to.                                    *)

(* Neither waits for the other while nothing is on its way (inbound_parser,  *)
(* wl2k_wait_for_response).                                                  *)
LEMMA OneGoesOn ==
    ASSUME Sound, Session, link = "up", rx = <<>>, tx = <<>>
    PROVE  ~(pc = "wait" \/ AtRead) \/ ~(pcP = "wait" \/ P!AtRead)
  <1>1. ~In!Greets /\ ~In!Commands /\ ~In!Declined /\ ~Out!Greets /\ ~Out!Commands /\ ~Out!Declined
    <2>1. <<[t |-> "FF"]>> # <<>>
      OBVIOUS
    <2>2. QED
      BY <2>1 DEF In!Greets, In!Commands, In!Declined, Out!Greets, Out!Commands, Out!Declined
  <1>2. CASE In!Transmits
    <2>1. tx = <<[t |-> "FS", ans |-> [k \in 1..In!Size |-> IF k \in todo THEN "Y" ELSE "N"]]>>
             => FALSE
      OBVIOUS
    <2>2. pc \in {"receive", "record"}
      BY <1>2 DEF In!Transmits
    <2>3. \/ pcP = "send"
          \/ pcP \in {"wait", "parser"} /\ In!Carries(rx, iprops, In!Rest, {})
      BY <1>2, <2>1 DEF In!Transmits
    <2>4. CASE pcP = "send"
      BY <2>4 DEF P!AtRead, P!Reading
    <2>5. CASE pc = "record"
      BY <2>5 DEF AtRead, Reading
    <2>6. CASE pc = "receive" /\ In!Carries(rx, iprops, In!Rest, {})
      <3>1. In!Rest = todo
        BY <2>6 DEF In!Rest
      <3>2. todo = {}
        <4>1. 1..Len(rx) = {}
          BY EmptySeq
        <4>2. \A i \in todo \ {} : \E k \in 1..Len(rx) : TRUE
          BY <2>6, <3>1 DEF In!Carries
        <4>3. QED
          BY <4>1, <4>2
      <3>3. QED
        BY <2>6, <3>2 DEF AtRead
    <2>7. QED
      BY <2>2, <2>3, <2>4, <2>5, <2>6
  <1>3. CASE Out!Transmits
    <2>1. rx = <<[t |-> "FS", ans |-> [k \in 1..Out!Size |-> IF k \in todoP THEN "Y" ELSE "N"]]>>
             => FALSE
      OBVIOUS
    <2>2. pcP \in {"receive", "record"}
      BY <1>3 DEF Out!Transmits
    <2>3. \/ pc = "send"
          \/ pc \in {"wait", "parser"} /\ Out!Carries(tx, ipropsP, Out!Rest, {})
      BY <1>3, <2>1 DEF Out!Transmits
    <2>4. CASE pc = "send"
      BY <2>4 DEF AtRead, Reading
    <2>5. CASE pcP = "record"
      BY <2>5 DEF P!AtRead, P!Reading
    <2>6. CASE pcP = "receive" /\ Out!Carries(tx, ipropsP, Out!Rest, {})
      <3>1. Out!Rest = todoP
        BY <2>6 DEF Out!Rest
      <3>2. todoP = {}
        <4>1. 1..Len(tx) = {}
          BY EmptySeq
        <4>2. \A i \in todoP \ {} : \E k \in 1..Len(tx) : TRUE
          BY <2>6, <3>1 DEF Out!Carries
        <4>3. QED
          BY <4>1, <4>2
      <3>3. QED
        BY <2>6, <3>2 DEF P!AtRead
    <2>7. QED
      BY <2>2, <2>3, <2>4, <2>5, <2>6
  <1>4. QED
    BY <1>1, <1>2, <1>3 DEF Session, In!Talk, Out!Talk

(* Nothing becomes an orphan if the program is never killed, no alarm goes   *)
(* off too early, and the MID database works and is young.                   *)
LEMMA NoOrphanStep ==
    ASSUME Faults \cap {"kill", "timeout", "db", "age"} = {}, old = {}, orphan = {},
           TypeOK, Work \/ Mishap \/ Start
    PROVE  old' = {} /\ orphan' = {}
  <1>1. ~Mishap
    BY DEF Mishap, Kill, Age, Late, Fault
  <1>2. CASE Begin
    BY <1>2 DEF Begin
  <1>3. CASE ParseBlock
    BY <1>3 DEF ParseBlock
  <1>4. CASE Record
    <2>1. \E i : old' = old \ {i} /\ orphan' = orphan
      BY <1>4 DEF Record, Fault
    <2>2. QED
      BY <2>1
  <1>5. CASE ~Begin /\ ~ParseBlock /\ ~Record
    <2>1. UNCHANGED <<old, orphan>>
      BY <1>1, <1>5 DEF Start, Work, LoginWaits, LoginAnswers, LoginDone, GreetIgnored,
           GreetSID, GreetPrompt, GreetError, AnswerSkip, AnswerFS, AnswerError,
           PutCompressed, BatchDone, WaitReadable, ParseComment, ParseFC, ParseFF, ParseFQ,
           ParseB, ParsePrompt, ParseUnrecognized, ParseBlockSendOnly, ParseBlockMismatch,
           Receive, ReceiveError, BlockDone, EndOfFile, dbVars
    <2>2. QED
      BY <2>1
  <1>6. QED
    BY <1>2, <1>3, <1>4, <1>5

(* Nothing is taken for delivered by mistake as long as the MID database     *)
(* works and sendmail's status is not lost (check_mid, inbound_parser).      *)
LEMMA MissedStep ==
    ASSUME TypeOK, "reap" \notin Faults, "db" \notin Faults, Work \/ Mishap
    PROVE  missed' = missed
  <1>1. CASE ParseBlock
    <2>1. PICK failed \in SUBSET (1..Len(iprops)) :
             /\ IF failed = {} THEN UNCHANGED faults ELSE Fault("db")
             /\ missed' = missed \cup ({iprops[i] : i \in failed} \ middb)
      BY <1>1 DEF ParseBlock
    <2>2. failed = {}
      BY <2>1 DEF Fault
    <2>3. QED
      BY <2>1, <2>2
  <1>2. CASE Receive
    BY <1>2 DEF Receive, Fault
  <1>3. CASE ~ParseBlock /\ ~Receive
    BY <1>3, HostStep DEF Record, Age, Die, Begin
  <1>4. QED
    BY <1>1, <1>2, <1>3

(* At most one message is handed to sendmail at a time (getcompressed).      *)
LEMMA DeliversOne ==
    ASSUME TypeOK, Work \/ Mishap
    PROVE  \/ mailbox' = mailbox
           \/ /\ pc = "receive" /\ Receive
              /\ \E m \in Msg : In!DeliveredR' = In!DeliveredR \cup {m}
  <1>1. CASE pc = "receive" /\ Receive /\ mailbox' # mailbox
    <2> DEFINE m == Head(rx).m
    <2>1. Head(rx) \in Line /\ Head(rx).t = "DATA"
      BY <1>1, ReadsType DEF Receive
    <2>2. m \in Msg
      BY <2>1, LineFields
    <2>3. mailbox' = [mailbox EXCEPT ![m] = @ + 1]
      BY <1>1 DEF Receive
    <2> HIDE DEF m
    <2>4. ASSUME NEW k \in Msg
          PROVE  mailbox'[k] > 0 <=> (mailbox[k] > 0 \/ k = m)
      BY <2>2, <2>3 DEF TypeOK
    <2>5. In!DeliveredR' = In!DeliveredR \cup {m}
      BY <2>2, <2>4 DEF In!DeliveredR
    <2>6. QED
      BY <1>1, <2>2, <2>5
  <1>2. CASE ~(pc = "receive" /\ Receive)
    BY <1>2, HostStep DEF Record, ParseBlock, Age, Die, Begin, hostVars
  <1>3. QED
    BY <1>1, <1>2

(* What a program started with -s keeps to.                                  *)
LEMMA NothingStep ==
    ASSUME TypeOK, Work \/ Mishap
    PROVE  /\ sendonly /\ In!Untaken => mailbox' = mailbox
           /\ sendonlyP /\ Out!Untaken => outbox' = outbox
  <1>1. sendonly /\ In!Untaken => mailbox' = mailbox
    BY DeliversOne DEF In!Untaken
  <1>2. ASSUME sendonlyP, Out!Untaken PROVE outbox' = outbox
    <2>1. del = {}
      BY <1>2 DEF Out!Untaken
    <2>2. Deletable = {}
      BY <2>1 DEF Deletable
    <2>3. DoDelete => outbox' = outbox
      BY <2>2 DEF DoDelete
    <2>4. QED
      BY <2>3, OutboxStep
  <1>3. QED
    BY <1>1, <1>2

(* A step of neither.                                                        *)
Still == UNCHANGED <<varsP, pc, ret, sendonly, olist, nprop, del, unsent, iprops, todo, ahead,
                     outbox, middb, old, mailbox, settled, orphan, missed, rx, tx, link, faults>>

(* Nothing happens, or only the two hosts' mail waits.                       *)
LEMMA StillStep ==
    ASSUME Still
    PROVE  /\ Sound => Sound'
           /\ Session => Session'
           /\ Stored => Stored'
           /\ Recorded => Recorded'
           /\ In!Safe /\ Out!Safe => In!Safe' /\ Out!Safe'
           /\ In!Untaken /\ Out!Untaken => In!Untaken' /\ Out!Untaken'
  <1>1. /\ UNCHANGED <<pc, ret, sendonly, olist, nprop, del, unsent, iprops, todo, ahead,
                       outbox, middb, old, mailbox, settled, orphan, missed, rx, tx, link, faults>>
        /\ UNCHANGED <<pcP, olistP, npropP, delP, unsentP, ipropsP, todoP, outboxP, sendonlyP,
                       mailboxP, missedP>>
        /\ UNCHANGED varsP
    BY DEF Still, varsP
  <1>2. Sound => Sound'
    <2>1. TypeOK => TypeOK'
      BY <1>1 DEF TypeOK
    <2>2. Distinct /\ UnansweredKept => Distinct' /\ UnansweredKept'
      BY <1>1 DEF Distinct, UnansweredKept, InSession
    <2>3. P!TypeOK => P!TypeOK'
      BY <1>1 DEF P!TypeOK, varsP
    <2>4. P!Distinct /\ P!UnansweredKept => P!Distinct' /\ P!UnansweredKept'
      BY <1>1 DEF varsP, P!Distinct, P!UnansweredKept, P!InSession
    <2>5. QED
      BY <2>1, <2>2, <2>3, <2>4 DEF Sound
  <1>3. In!Rest' = In!Rest /\ In!TakenR' = In!TakenR
    BY <1>1 DEF In!Rest, In!First, In!TakenR, In!DeliveredR
  <1>4. Session => Session'
    <2>1. In!Talk \/ Out!Talk => In!Talk' \/ Out!Talk'
      BY <1>1, TalkSame DEF PeerStill
    <2>2. In!Forth => In!Forth'
      BY <1>1, <1>3 DEF In!Forth
    <2>3. Out!Back => Out!Back'
      BY <1>1 DEF Out!Back, Out!Size, Out!SizeOf
    <2>4. Out!Forth /\ In!Back => Out!Forth' /\ In!Back'
      BY <1>1, UnheardSame
    <2>5. QED
      BY <1>1, <2>1, <2>2, <2>3, <2>4 DEF Session
  <1>5. (Stored => Stored') /\ (Recorded => Recorded')
    BY <1>1, <1>3 DEF Stored, Recorded
  <1>6. In!Safe /\ Out!Safe => In!Safe' /\ Out!Safe'
    <2>1. /\ Out!TakenR' = Out!TakenR
          /\ In!Size' = In!Size /\ Out!Size' = Out!Size
          /\ \A k : In!Proposed(k)' = In!Proposed(k) /\ Out!Proposed(k)' = Out!Proposed(k)
          /\ In!InFlight' = In!InFlight /\ Out!InFlight' = Out!InFlight
      BY <1>1 DEF Out!TakenR, Out!DeliveredR, In!Size, Out!Size, In!SizeOf, Out!SizeOf, In!Proposed,
         Out!Proposed, In!InFlight, Out!InFlight
    <2>2. QED
      BY <1>1, <1>3, <2>1 DEF In!Safe, Out!Safe, In!Flagged, Out!Flagged, In!Refused,
         Out!Refused
  <1>7. In!Untaken /\ Out!Untaken => In!Untaken' /\ Out!Untaken'
    BY <1>1 DEF In!Untaken, Out!Untaken
  <1>8. QED
    BY <1>2, <1>4, <1>5, <1>6, <1>7

(* What is known of the host is not touched by the peer.                     *)
LEMMA HostStill ==
    ASSUME UNCHANGED <<mailbox, middb, orphan, missed, pc, iprops, todo>>
    PROVE  (Stored => Stored') /\ (Recorded => Recorded')
  <1>1. In!Rest' = In!Rest /\ In!TakenR' = In!TakenR
    BY DEF In!Rest, In!First, In!TakenR, In!DeliveredR
  <1>2. QED
    BY <1>1 DEF Stored, Recorded

(* Both directions of the mail, in a step of the program.                    *)
LEMMA SafeStep ==
    ASSUME Sound, Sound', Paired, Session, Recorded, In!Safe, Out!Safe,
           UNCHANGED varsP, Work \/ Mishap
    PROVE  In!Safe' /\ Out!Safe'
  <1>1. pc # "login1" /\ pc # "login2"
    BY DEF Session, In!Forth
  <1>2. In!Safe'
    BY <1>1, InSafeStep DEF Sound
  <1>3. Out!Safe'
    BY <1>1, OutSafeStep DEF Sound
  <1>4. QED
    BY <1>2, <1>3

(* Both directions of a session with -s.                                     *)
LEMMA UntakenSteps ==
    ASSUME Sound, Session, In!Untaken, Out!Untaken, UNCHANGED varsP, Work \/ Mishap
    PROVE  In!Untaken' /\ Out!Untaken'
  <1>1. pc # "login1" /\ pc # "login2" /\ pc # "answerFW"
    BY DEF Session, In!Forth
  <1>2. QED
    BY <1>1, UntakenStep DEF Sound, Session

-------------------------------------------------------------------------------
(***************************************************************************)
(* A session that meets no fault, seen from one endpoint of a Dialogue: each *)
(* of its steps is one the peer goes on with, and when the endpoint hangs up *)
(* nothing it may send is left.                                              *)
(***************************************************************************)

(* What may be sent is in the list, and is still to be proposed or flagged   *)
(* for deletion; of a block that is being transmitted, what is not           *)
(* transmitted yet is all that is not flagged.                               *)
Left ==
    /\ \A m \in Listed : \E i \in 1..Len(olist) : olist[i] = m /\ (i > nprop \/ m \in del)
    /\ pc = "send" =>
          \A i \in nprop+1 .. nprop+BatchSize : i \in unsent \/ olist[i] \in del

-------------------------------------------------------------------------------
(* The outbox.                                                               *)

(* A fault is counted.                                                       *)
LEMMA FaultCounts ==
    ASSUME TypeOK, NEW kind, Fault(kind)
    PROVE  faults' # faults
  BY ConstantsAssumption DEF TypeOK, Fault

(* What is unlinked was flagged, and what stays is still to be proposed      *)
(* (dodelete).                                                               *)
LEMMA LeftUnlinked ==
    ASSUME TypeOK, Left, DoDelete, UNCHANGED faults, pc' # "send"
    PROVE  /\ Left'
           /\ nprop = Len(olist) => Listed' = {}
  <1>1. /\ outbox' = outbox \ Deletable /\ del' = del \ Deletable
        /\ UNCHANGED <<olist, nprop>>
    BY FaultCounts DEF DoDelete
  <1>2. Listed' = Listed \ Deletable
    BY <1>1 DEF Listed
  <1>3. ASSUME NEW m \in Listed'
        PROVE  \E i \in 1..Len(olist) : olist[i] = m /\ (i > nprop \/ m \in del \ Deletable)
    BY <1>2, <1>3 DEF Left
  <1>4. ASSUME nprop = Len(olist), NEW m \in Listed'
        PROVE  FALSE
    <2>1. PICK i \in 1..Len(olist) : olist[i] = m /\ (i > nprop \/ m \in del \ Deletable)
      BY <1>3, <1>4
    <2>2. Len(olist) \in Nat
      BY LenProperties DEF TypeOK
    <2>3. m \in del \ Deletable /\ i \in 1..nprop
      BY <1>4, <2>1, <2>2
    <2>4. QED
      BY <2>1, <2>3 DEF Deletable
  <1>5. QED
    BY <1>1, <1>3, <1>4 DEF Left

(* The answer flags what was refused, and takes back the flag of nothing     *)
(* that is behind the list pointer (FS in b2outboundproposal).               *)
LEMMA LeftAnswered ==
    ASSUME TypeOK, Distinct, Left, pc = "answer", AnswerFS
    PROVE  Left'
  <1>1. \/ UNCHANGED <<outbox, olist, nprop, del>> /\ pc' = "idle"
        \/ /\ UNCHANGED <<outbox, olist, nprop>> /\ pc' = "send"
           /\ del \ HeardAs(Head(rx).ans, Answer) \subseteq del'
           /\ unsent' = {i \in nprop+1 .. nprop+BatchSize : olist[i] \notin del'}
    BY DEF AnswerFS, Exit, outVars
  <1>2. UNCHANGED <<outbox, olist, nprop>> /\ Listed' = Listed /\ BatchSize' = BatchSize
    BY <1>1 DEF Listed, BatchSize, Remaining
  <1>3. ASSUME NEW m \in Listed
        PROVE  \E i \in 1..Len(olist) : olist[i] = m /\ (i > nprop \/ m \in del')
    <2>1. PICK i \in 1..Len(olist) : olist[i] = m /\ (i > nprop \/ m \in del)
      BY DEF Left
    <2>2. ASSUME ~(i > nprop), m \in HeardAs(Head(rx).ans, Answer)
          PROVE  FALSE
      <3>1. PICK k \in 1..Remaining : olist[nprop + k] = m
        BY <2>2 DEF HeardAs
      <3>2. nprop \in Nat /\ Len(olist) \in Nat /\ nprop + k \in 1..Len(olist)
        BY LenProperties DEF TypeOK, Remaining
      <3>3. nprop + k = i
        BY <2>1, <3>1, <3>2 DEF Distinct
      <3>4. QED
        BY <2>2, <3>2, <3>3
    <2>3. QED
      BY <1>1, <2>1, <2>2
  <1>4. QED
    BY <1>1, <1>2, <1>3 DEF Left

(* The list pointer moves behind a block whose messages are all flagged      *)
(* (b2outboundproposal).                                                     *)
LEMMA LeftSent ==
    ASSUME TypeOK, Left, pc = "send", PutCompressed \/ BatchDone
    PROVE  Left'
  <1>1. CASE PutCompressed
    <2>1. PICK i : /\ unsent' = unsent \ {i} /\ del' = del \cup {olist[i]}
      BY <1>1 DEF PutCompressed
    <2>2. UNCHANGED <<pc, outbox, olist, nprop>>
      BY <1>1 DEF PutCompressed
    <2>3. Listed' = Listed /\ BatchSize' = BatchSize
      BY <2>2 DEF Listed, BatchSize, Remaining
    <2>4. QED
      BY <2>1, <2>2, <2>3 DEF Left
  <1>2. CASE BatchDone
    <2>1. /\ unsent = {} /\ nprop' = nprop + BatchSize /\ pc' \in {"wait", "parser"}
          /\ UNCHANGED <<outbox, olist, del>>
      BY <1>2 DEF BatchDone, hostVars, TypeOK
    <2>2. BatchSize \in Nat /\ nprop \in Nat
      BY BatchType
    <2>3. Listed' = Listed
      BY <2>1 DEF Listed
    <2>4. ASSUME NEW m \in Listed, NEW i \in 1..Len(olist), olist[i] = m,
                 i > nprop \/ m \in del
          PROVE  i > nprop' \/ m \in del
      <3>1. CASE i \in nprop+1 .. nprop+BatchSize
        BY <2>1, <2>4, <3>1 DEF Left
      <3>2. CASE i \notin nprop+1 .. nprop+BatchSize
        BY <2>1, <2>2, <2>4, <3>2
      <3>3. QED
        BY <3>1, <3>2
    <2>5. QED
      BY <2>1, <2>3, <2>4 DEF Left
  <1>3. QED
    BY <1>1, <1>2

(* Every step that is no fault.                                              *)
LEMMA LeftStep ==
    ASSUME TypeOK, Distinct, Left, Work, UNCHANGED faults,
           pc \notin {"login1", "login2", "answerFW"}
    PROVE  Left'
  <1>1. CASE LoginWaits \/ LoginAnswers \/ LoginDone
    BY <1>1 DEF LoginWaits, LoginAnswers, LoginDone
  <1>2. CASE AnswerFS
    BY <1>2, LeftAnswered DEF AnswerFS
  <1>3. CASE PutCompressed \/ BatchDone
    BY <1>3, LeftSent DEF PutCompressed, BatchDone
  <1>4. CASE ParseFC \/ ParseFF \/ ParseFQ \/ ParsePrompt
    <2>1. DoDelete /\ pc' # "send"
      BY <1>4 DEF ParseFC, ParseFF, ParseFQ, ParsePrompt, B2Out, Exit
    <2>2. QED
      BY <2>1, LeftUnlinked
  <1>5. CASE \/ GreetIgnored \/ GreetSID \/ GreetPrompt \/ GreetError
             \/ AnswerSkip \/ AnswerError \/ WaitReadable \/ ParseComment \/ ParseB
             \/ ParseUnrecognized \/ ParseBlockSendOnly \/ ParseBlockMismatch
             \/ ParseBlock \/ Receive \/ ReceiveError \/ Record \/ BlockDone
             \/ EndOfFile
    <2>1. UNCHANGED outVars /\ outbox' = outbox
      BY <1>5 DEF GreetIgnored, GreetSID, GreetPrompt, GreetError,
           AnswerSkip, AnswerError, WaitReadable, ParseComment, ParseB,
           ParseUnrecognized, ParseBlockSendOnly, ParseBlockMismatch, ParseBlock,
           Receive, ReceiveError, Record, BlockDone, EndOfFile, hostVars
    <2>2. pc' # "send"
      BY <1>5 DEF GreetIgnored, GreetSID, GreetPrompt, GreetError,
           AnswerSkip, AnswerError, WaitReadable, ParseComment, ParseB,
           ParseUnrecognized, ParseBlockSendOnly, ParseBlockMismatch, ParseBlock,
           Receive, ReceiveError, Record, BlockDone, EndOfFile, B2Out, Exit, AtRead, Reading
    <2>3. Listed' = Listed
      BY <2>1 DEF Listed
    <2>4. QED
      BY <2>1, <2>2, <2>3 DEF Left, outVars
  <1>6. QED
    BY <1>1, <1>2, <1>3, <1>4, <1>5 DEF Work

-------------------------------------------------------------------------------
(* What the endpoint reads while the link is up.                             *)

(* A session in which neither only sends and nothing went wrong.             *)
Fair == /\ Sound /\ Session /\ link = "up" /\ ~sendonly /\ ~sendonlyP
        /\ In!Clean /\ Out!Clean

(* Behind the client's greeting and the daemon's, there is a SID; a client   *)
(* that has read it expects a prompt (wl2k_exchange, wl2kd_exchange).        *)
LEMMA ReadGreeting ==
    ASSUME Fair, rx # <<>>, pc \in {"greet", "sid"}
    PROVE  /\ Head(rx).t \in {"SID", "?", "QTC", ">"}
           /\ Head(rx).t = ">" => pc = "sid"
           /\ Head(rx).t = "QTC" => Role = "daemon"
  <1>1. Len(rx) \in Nat \ {0} /\ Head(rx) = rx[1] /\ 1 \in 1..Len(rx)
    <2>1. rx \in Seq(Line)
      BY DEF Fair, Sound, TypeOK
    <2>2. Len(rx) \in Nat \ {0} /\ Head(rx) = rx[1]
      BY <2>1, LenProperties, EmptySeq, HeadTailProperties
    <2>3. QED
      BY <2>2
  <1>2. In!Greets \/ In!Commands
    BY DEF Fair, Session, In!Talk, Out!Talk, In!Transmits, In!Declined, Out!Greets,
       Out!Commands, Out!Transmits, Out!Declined
  <1>3. CASE In!Greets
    <2>1. CASE Len(rx) = 1
      <3>1. rx[1].t = ">"
        BY <1>3, <2>1 DEF In!Greets
      <3>2. pc = "greet" => FALSE
        <4>1. pc = "greet" => \E k \in 1..Len(rx) : rx[k].t = "SID"
          BY <1>3 DEF In!Greets, Fair, In!Clean
        <4>2. \A k \in 1..Len(rx) : k = 1
          BY <2>1
        <4>3. QED
          BY <3>1, <4>1, <4>2
      <3>3. QED
        BY <1>1, <3>1, <3>2
    <2>2. CASE Len(rx) # 1
      <3>1. 1 \in 1 .. Len(rx) - 1
        <4>1. \A n \in Nat \ {0} : n # 1 => 1 \in 1 .. n - 1
          OBVIOUS
        <4>2. QED
          BY <1>1, <2>2, <4>1
      <3>2. rx[1].t \in {"SID", "?"}
        BY <1>3, <3>1 DEF In!Greets
      <3>3. QED
        BY <1>1, <3>2
    <2>3. QED
      BY <2>1, <2>2
  <1>4. CASE In!Commands
    <2>1. /\ Role = "daemon" /\ In!Before > 0 /\ rx[In!Before].t = "SID"
          /\ \A k \in 1 .. In!Before - 1 : rx[k].t = "QTC"
      BY <1>4 DEF In!Commands, In!Reached
    <2>2. In!Before \in Nat
      BY <1>4, AskedLines DEF Fair, Sound
    <2>3. In!Before = 1 \/ 1 \in 1 .. In!Before - 1
      BY <2>1, <2>2
    <2>4. rx[1].t \in {"SID", "QTC"}
      BY <2>1, <2>3
    <2>5. QED
      BY <1>1, <2>1, <2>4
  <1>5. QED
    BY <1>2, <1>3, <1>4

(* The answer to a block is an FS line of Y and N (b2outboundproposal).      *)
LEMMA ReadAnswer ==
    ASSUME Fair, rx # <<>>, pc = "answer"
    PROVE  Head(rx).t = "FS" /\ HeardAs(Head(rx).ans, {"E"}) = {}
  <1>1. rx \in Seq(Line) /\ Head(rx) = rx[1] /\ 1 \in 1..Len(rx)
    <2>1. rx \in Seq(Line)
      BY DEF Fair, Sound, TypeOK
    <2>2. Len(rx) \in Nat \ {0} /\ Head(rx) = rx[1]
      BY <2>1, LenProperties, EmptySeq, HeadTailProperties
    <2>3. QED
      BY <2>1, <2>2
  <1>2. \/ In!Commands /\ rx[1].t = "FS"
        \/ Out!Transmits /\ rx[1].t = "FS"
    <2>1. In!Commands \/ Out!Transmits
      BY DEF Fair, Session, In!Talk, Out!Talk, In!Greets, In!Transmits, In!Declined,
         Out!Greets, Out!Commands, Out!Declined
    <2>2. CASE In!Commands
      BY <2>2 DEF In!Commands, In!Reached
    <2>3. CASE Out!Transmits
      <3>1. PICK ans : rx = <<[t |-> "FS", ans |-> ans]>>
        BY <2>3 DEF Out!Transmits
      <3>2. rx[1].t = "FS"
        BY <3>1
      <3>3. QED
        BY <2>3, <3>2
    <2>4. QED
      BY <2>1, <2>2, <2>3
  <1>3. rx[1].ans \in [1..BatchSize -> {"Y", "N"}]
    <2>1. Out!Size = BatchSize
      BY DEF Out!Size, Out!SizeOf, BatchSize, Remaining
    <2>2. QED
      BY <1>1, <1>2, <2>1 DEF Fair, Session, Out!Back
  <1>4. Len(rx[1].ans) = BatchSize
    BY <1>3, BatchType, LenProperties, SeqDef DEF Fair, Sound
  <1>5. HeardAs(rx[1].ans, {"E"}) = {}
    <2>1. ASSUME NEW j \in 1..Remaining, Heard(rx[1].ans, j) = "E"
          PROVE  FALSE
      <3>1. Remaining \in Nat /\ BatchSize \in Nat
        BY BatchType DEF Fair, Sound
      <3>2. j =< Len(rx[1].ans) /\ rx[1].ans[j] = "E"
        BY <2>1 DEF Heard
      <3>3. j \in 1..BatchSize
        BY <1>4, <3>1, <3>2
      <3>4. QED
        BY <1>3, <3>2, <3>3
    <2>2. QED
      BY <2>1 DEF HeardAs
  <1>6. QED
    BY <1>1, <1>2, <1>5

(* A message is what is read in the middle of a block (getcompressed).       *)
LEMMA ReadMessage ==
    ASSUME Fair, rx # <<>>, pc = "receive"
    PROVE  Head(rx).t = "DATA"
  <1>1. rx \in Seq(Line) /\ Head(rx) = rx[1] /\ 1 \in 1..Len(rx)
    <2>1. rx \in Seq(Line)
      BY DEF Fair, Sound, TypeOK
    <2>2. Len(rx) \in Nat \ {0} /\ Head(rx) = rx[1]
      BY <2>1, LenProperties, EmptySeq, HeadTailProperties
    <2>3. QED
      BY <2>1, <2>2
  <1>2. PICK late : In!Carries(rx, iprops, In!Rest, late)
    BY DEF Fair, Session, In!Forth
  <1>3. rx[1].t = "DATA"
    <2>1. PICK m : rx[1] = [t |-> "DATA", m |-> m]
      BY <1>1, <1>2 DEF In!Carries
    <2>2. QED
      BY <2>1
  <1>4. QED
    BY <1>1, <1>3

(* What is read between the blocks is a proposal of the peer's block, which  *)
(* is no larger than the table of proposals, the end of that block with the  *)
(* right checksum, or FF (inbound_parser).                                   *)
LEMMA ReadCommand ==
    ASSUME Fair, rx # <<>>, pc = "parser"
    PROVE  /\ In!Commands
           /\ \/ Head(rx).t = "FC" /\ Len(iprops) < PROPLIMIT
              \/ Head(rx).t = "F>" /\ Head(rx).sum = Cksum(iprops)
              \/ /\ Head(rx).t = "FF" /\ pcP \in {"wait", "parser"}
                 /\ npropP = Len(olistP)
  <1>1. rx \in Seq(Line) /\ Head(rx) = rx[1] /\ 1 \in 1..Len(rx) /\ Len(rx) \in Nat
    <2>1. rx \in Seq(Line)
      BY DEF Fair, Sound, TypeOK
    <2>2. Len(rx) \in Nat \ {0} /\ Head(rx) = rx[1]
      BY <2>1, LenProperties, EmptySeq, HeadTailProperties
    <2>3. QED
      BY <2>1, <2>2
  <1>2. In!Commands /\ In!Before = 0
    <2>1. In!Commands
      BY DEF Fair, Session, In!Talk, Out!Talk, In!Greets, In!Transmits, In!Declined,
         Out!Greets, Out!Commands, Out!Transmits, Out!Declined
    <2>2. QED
      BY <2>1 DEF In!Commands, In!Reached
  <1>3. /\ In!Asked \in Nat /\ Len(iprops) \in 0..In!Asked
        /\ \/ 1 - 0 + Len(iprops) \in Len(iprops)+1 .. In!Asked /\ rx[1].t = "FC"
           \/ Len(rx) = 1 /\ rx[1].t \in {"F>", "FF"}
    <2>1. 1 \notin 1..In!Before
      BY <1>2
    <2>2. QED
      BY <1>1, <1>2, <2>1, AskedLines DEF Fair, Sound
  <1>4. CASE 1 - 0 + Len(iprops) \in Len(iprops)+1 .. In!Asked /\ rx[1].t = "FC"
    <2>1. In!Asked =< PROPLIMIT
      <3>1. Len(olistP) \in Nat /\ npropP \in Nat /\ PROPLIMIT \in Nat
        BY ConstantsAssumption, LenProperties DEF Fair, Sound, P!TypeOK
      <3>2. QED
        BY <3>1 DEF In!Asked, In!Size, In!SizeOf
    <2>2. PROPLIMIT \in Nat
      BY ConstantsAssumption
    <2>3. Len(iprops) < PROPLIMIT
      BY <1>3, <1>4, <2>1, <2>2
    <2>4. QED
      BY <1>1, <1>2, <1>4, <2>3
  <1>5. CASE Len(rx) = 1 /\ rx[1].t = "FF"
    BY <1>1, <1>2, <1>5 DEF Fair, In!Clean
  <1>6. CASE Len(rx) = 1 /\ rx[1].t = "F>"
    <2>1. pcP = "answer" /\ rx[1].sum = In!Sum([i \in 1..In!Size |-> In!Proposed(i)])
      BY <1>1, <1>6 DEF Fair, In!Clean
    <2>2. Len(iprops) = In!Size /\ Len(iprops) \in Nat
      <3>1. In!Before = Len(rx) - 1 - In!Asked + Len(iprops)
        BY DEF In!Before
      <3>2. Len(iprops) = In!Asked
        BY <1>2, <1>3, <1>6, <3>1
      <3>3. QED
        BY <1>3, <2>1, <3>2 DEF In!Asked
    <2>3. iprops = [i \in 1..In!Size |-> In!Proposed(i)]
      <3>1. iprops \in Seq(Msg)
        BY DEF Fair, Sound, TypeOK
      <3>2. iprops = [i \in 1..Len(iprops) |-> iprops[i]]
        BY <3>1, LenProperties
      <3>3. \A k \in 1..Len(iprops) : iprops[k] = In!Proposed(k)
        BY <1>2 DEF In!Commands
      <3>4. QED
        BY <2>2, <3>2, <3>3
    <2>4. In!Sum(iprops) = Cksum(iprops)
      BY DEF In!Sum, Cksum, In!Cardinality, Cardinality
    <2>5. QED
      BY <1>1, <1>2, <1>6, <2>1, <2>3, <2>4
  <1>7. QED
    BY <1>3, <1>4, <1>5, <1>6

(* No step of such a session fails; the program ends it only in answer to an *)
(* FF, when nothing of its list remains (wl2k_exchange, inbound_parser).     *)
LEMMA FairSteps ==
    ASSUME Fair, Work, UNCHANGED faults
    PROVE  /\ \/ GreetIgnored \/ GreetSID \/ GreetPrompt
              \/ AnswerFS \/ PutCompressed \/ BatchDone \/ WaitReadable
              \/ ParseFC \/ ParseFF \/ ParseBlock \/ Receive \/ Record \/ BlockDone
           /\ ~Exit \/ (ParseFF /\ Remaining = 0)
  <1>1. ~(LoginWaits \/ LoginAnswers \/ LoginDone) /\ pc # "answerFW"
    BY DEF Fair, Session, In!Forth, LoginWaits, LoginAnswers, LoginDone
  <1>2. CASE GreetIgnored \/ GreetSID \/ GreetPrompt \/ GreetError
    <2>1. pc \in {"greet", "sid"} /\ rx # <<>>
      BY <1>2 DEF GreetIgnored, GreetSID, GreetPrompt, GreetError, Reads
    <2>2. Head(rx).t \in {"SID", "?", "QTC", ">"} /\ (Head(rx).t = ">" => pc = "sid")
      BY <2>1, ReadGreeting
    <2>3. ~GreetError
      BY <2>2 DEF GreetError, Reads
    <2>4. ~Exit
      BY <1>2, <2>1, <2>3 DEF GreetIgnored, GreetSID, GreetPrompt, Exit, B2Out
    <2>5. QED
      BY <1>2, <2>3, <2>4
  <1>3. CASE AnswerSkip \/ AnswerFS \/ AnswerError
    <2>1. pc = "answer" /\ rx # <<>>
      BY <1>1, <1>3 DEF AnswerSkip, AnswerFS, AnswerError, Reads
    <2>2. Head(rx).t = "FS" /\ HeardAs(Head(rx).ans, {"E"}) = {}
      BY <2>1, ReadAnswer
    <2>3. ~AnswerSkip /\ ~AnswerError
      BY <2>1, <2>2 DEF AnswerSkip, AnswerError, Reads
    <2>4. ~Exit
      BY <1>3, <2>2, <2>3 DEF AnswerFS, Exit
    <2>5. QED
      BY <1>3, <2>3, <2>4
  <1>4. CASE PutCompressed \/ BatchDone \/ WaitReadable \/ Record
    <2>1. ~Exit
      BY <1>4 DEF Fair, Sound, TypeOK, PutCompressed, BatchDone, WaitReadable, Record, Exit, netVars
    <2>2. QED
      BY <1>4, <2>1
  <1>5. CASE \/ ParseComment \/ ParseFC \/ ParseFF \/ ParseFQ \/ ParseB \/ ParsePrompt
             \/ ParseUnrecognized \/ ParseBlockSendOnly \/ ParseBlockMismatch \/ ParseBlock
    <2>1. pc = "parser" /\ rx # <<>>
      BY <1>5 DEF ParseComment, ParseFC, ParseFF, ParseFQ, ParseB, ParsePrompt,
         ParseUnrecognized, ParseBlockSendOnly, ParseBlockMismatch, ParseBlock, Reads
    <2>2. \/ Head(rx).t = "FC" /\ Len(iprops) < PROPLIMIT
          \/ Head(rx).t = "F>" /\ Head(rx).sum = Cksum(iprops)
          \/ Head(rx).t = "FF"
      BY <2>1, ReadCommand
    <2>3. ParseFC \/ ParseFF \/ ParseBlock
      BY <1>5, <2>2 DEF ParseComment, ParseFQ, ParseB, ParsePrompt, Comment,
         ParseUnrecognized, ParseBlockSendOnly, ParseBlockMismatch, Reads, Fair, Unknown, Prompt
    <2>4. ParseFC => ~Exit
      BY <2>2, <2>1 DEF ParseFC, Reads, Exit
    <2>5. ParseBlock => ~Exit
      BY DEF ParseBlock, Exit
    <2>6. ParseFF /\ Exit => Remaining = 0
      BY DEF ParseFF, B2Out, Exit
    <2>7. QED
      BY <2>3, <2>4, <2>5, <2>6
  <1>6. CASE Receive \/ ReceiveError \/ BlockDone
    <2>1. pc = "receive"
      BY <1>6 DEF Receive, ReceiveError, BlockDone
    <2>2. ~ReceiveError
      BY <2>1, ReadMessage DEF ReceiveError, Reads
    <2>3. Receive => ~Exit
      BY FaultCounts DEF Receive, Exit, Fair, Sound
    <2>4. BlockDone => ~Exit
      BY DEF BlockDone, B2Out, Exit
    <2>5. QED
      BY <1>6, <2>2, <2>3, <2>4
  <1>7. CASE EndOfFile
    BY <1>7 DEF EndOfFile, Fair
  <1>8. QED
    BY <1>1, <1>2, <1>3, <1>4, <1>5, <1>6, <1>7 DEF Work

-------------------------------------------------------------------------------
(* What the endpoint says.                                                   *)

(* A line the peer goes on with (Out!Clean).                                 *)
BlockSum == Cksum([k \in 1..BatchSize |-> olist[nprop + k]])
Clear(line) ==
    /\ line.t # "FQ"
    /\ line.t = "FF" => pc \in {"wait", "parser"} /\ nprop = Len(olist)
    /\ line.t = "F>" => pc = "answer" /\ line.sum = BlockSum

(* What is said is clear.                                                    *)
SaysClear == tx' = tx \/ \E q \in Seq(Line) : /\ tx' = tx \o q
                                              /\ \A k \in 1..Len(q) : Clear(q[k])'

(* b2outboundproposal hands the turn over with FF only at the end of the     *)
(* list, and gives a block the sum of its proposals.                         *)
LEMMA TurnSaid ==
    ASSUME TypeOK, ~Exit, UNCHANGED <<olist, nprop>>, NEW greeting \in Seq(Line),
           \A k \in 1..Len(greeting) : greeting[k].t \in {"QTC", "SID"},
           NEW last, NEW to \in {"wait", "parser"}, B2Out(greeting, last, to)
    PROVE  SaysClear
  <1>1. PICK q : /\ Says(greeting \o q)
                 /\ \/ q = Block /\ pc' = "answer"
                    \/ q = Just("FF") /\ Remaining = 0 /\ pc' \in {"wait", "parser"}
    <2>1. \/ Says(greeting \o Block) /\ pc' = "answer"
          \/ Says(greeting \o Just("FF")) /\ Remaining = 0 /\ pc' \in {"wait", "parser"}
      BY DEF B2Out
    <2>2. QED
      BY <2>1
  <1>2. BatchSize' = BatchSize /\ BatchSize \in Nat
    BY BatchType DEF BatchSize, Remaining
  <1>3. q \in Seq(Line) /\ \A k \in 1..Len(q) : Clear(q[k])'
    <2>1. CASE q = Block /\ pc' = "answer"
      <3>1. /\ q \in Seq(Line) /\ Len(q) = BatchSize + 1
            /\ \A k \in 1..BatchSize : q[k] = [t |-> "FC", m |-> olist[nprop + k]]
            /\ q[BatchSize + 1].t = "F>"
            /\ q[BatchSize + 1].sum = Cksum([k \in 1..BatchSize |-> olist[nprop + k]])
        BY <2>1, BlockLines
      <3>2. ASSUME NEW k \in 1..BatchSize PROVE Clear(q[k])'
        <4>1. q[k] = [t |-> "FC", m |-> olist[nprop + k]]
          BY <3>1
        <4>2. q[k].t = "FC"
          BY <4>1
        <4>3. QED
          BY <4>2 DEF Clear
      <3>3. ASSUME NEW l, l = q[BatchSize + 1] PROVE Clear(l)'
        <4>1. l.t = "F>" /\ l.sum = Cksum([k \in 1..BatchSize |-> olist[nprop + k]])
          BY <3>1, <3>3
        <4>2. l.sum = Cksum([k \in 1..BatchSize' |-> olist'[nprop' + k]])
          BY <1>2, <4>1
        <4>3. QED
          BY <2>1, <4>1, <4>2 DEF Clear, BlockSum, Cksum
      <3>4. \A k \in 1..BatchSize + 1 : k = BatchSize + 1 \/ k \in 1..BatchSize
        BY <1>2
      <3>5. ASSUME NEW k \in 1..Len(q) PROVE Clear(q[k])'
        BY <3>1, <3>2, <3>3, <3>4
      <3>6. QED
        BY <3>1, <3>5
    <2>2. CASE q = Just("FF") /\ Remaining = 0 /\ pc' \in {"wait", "parser"}
      <3> DEFINE l == [t |-> "FF"]
      <3>1. l \in Line /\ l.t = "FF"
        BY DEF Line, Bare
      <3>2. q = <<l>>
        BY <1>1, <2>2 DEF Just
      <3> HIDE DEF l
      <3>3. q \in Seq(Line) /\ Len(q) = 1 /\ q[1] = l
        BY <3>1, <3>2
      <3>4. nprop' = Len(olist)'
        <4>1. nprop \in Nat /\ Len(olist) \in Nat
          BY LenProperties DEF TypeOK
        <4>2. QED
          BY <1>1, <2>2, <4>1 DEF Remaining
      <3>5. Clear(l)'
        BY <1>1, <2>2, <3>1, <3>4 DEF Clear
      <3>6. QED
        BY <3>3, <3>5
    <2>3. QED
      BY <1>1, <2>1, <2>2
  <1>4. ASSUME NEW k \in 1..Len(greeting) PROVE Clear(greeting[k])'
    BY <1>4 DEF Clear
  <1> DEFINE r == greeting \o q
  <1>5. r \in Seq(Line)
    BY <1>3, SaidAfter
  <1>6. ASSUME NEW k \in 1..Len(r) PROVE Clear(r[k])'
    BY <1>3, <1>4, EachSaid
  <1>7. tx' = tx \/ tx' = tx \o r
    BY <1>1 DEF Says
  <1> HIDE DEF r
  <1>8. QED
    BY <1>5, <1>6, <1>7 DEF SaysClear

(* Whatever is said is clear.                                                *)
LEMMA ClearSaid ==
    ASSUME Fair, Work, UNCHANGED faults, ~Exit
    PROVE  SaysClear
  <1>1. TypeOK
    BY DEF Fair, Sound
  <1>2. CASE GreetPrompt
    <2> DEFINE greeting == Just("QTC") \o Just("SID")
               qtc == [t |-> "QTC"]
               sid == [t |-> "SID"]
    <2>1. qtc \in Line /\ sid \in Line /\ qtc.t = "QTC" /\ sid.t = "SID"
      BY DEF Line, Bare
    <2>2. greeting = <<qtc>> \o <<sid>>
      BY DEF Just
    <2>3. B2Out(greeting, ">", "wait") /\ UNCHANGED <<olist, nprop>>
      BY <1>2 DEF GreetPrompt, outVars
    <2> HIDE DEF qtc, sid, greeting
    <2>4. /\ <<qtc>> \in Seq(Line) /\ Len(<<qtc>>) = 1 /\ <<qtc>>[1] = qtc
          /\ <<sid>> \in Seq(Line) /\ Len(<<sid>>) = 1 /\ <<sid>>[1] = sid
      BY <2>1
    <2>5. /\ greeting \in Seq(Line) /\ Len(greeting) = 1 + 1
          /\ \A k \in 1..1 : greeting[k] = <<qtc>>[k]
          /\ \A k \in 1..1 : greeting[1 + k] = <<sid>>[k]
      BY <2>2, <2>4, SaidAfter
    <2>6. \A k \in 1..Len(greeting) : greeting[k].t \in {"QTC", "SID"}
      BY <2>1, <2>4, <2>5
    <2>7. QED
      BY <1>1, <2>3, <2>5, <2>6, TurnSaid
  <1>3. CASE ParseFF \/ BlockDone
    <2>1. /\ B2Out(<<>>, "FF", "parser") \/ B2Out(<<>>, "F>", "parser")
          /\ UNCHANGED <<olist, nprop>>
      BY <1>3 DEF ParseFF, BlockDone, DoDelete, outVars
    <2>2. <<>> \in Seq(Line) /\ 1..Len(<<>>) = {}
      BY EmptySeq
    <2>3. QED
      BY <1>1, <2>1, <2>2, TurnSaid
  <1>4. CASE PutCompressed
    <2>1. PICK q \in Seq(Line) : /\ Len(q) = 1 /\ q[1].t = "DATA"
                                 /\ tx' = IF link = "up" THEN tx \o q ELSE tx
      BY <1>1, <1>4, MessageSaid
    <2>2. \A k \in 1..Len(q) : Clear(q[k])'
      BY <2>1 DEF Clear
    <2>3. QED
      BY <2>1, <2>2 DEF SaysClear
  <1>5. CASE ParseBlock
    <2>1. PICK fresh : Says(IF iprops = <<>> THEN <<>>
                            ELSE <<[t |-> "FS", ans |-> [i \in 1..Len(iprops) |->
                                       IF i \in fresh THEN "Y" ELSE "N"]]>>)
      BY <1>5 DEF ParseBlock
    <2> DEFINE fs == [t |-> "FS", ans |-> [i \in 1..Len(iprops) |->
                                              IF i \in fresh THEN "Y" ELSE "N"]]
    <2>2. fs \in Line /\ fs.t = "FS"
      <3>1. Len(iprops) \in Nat
        BY <1>1, LenProperties DEF TypeOK
      <3>2. [i \in 1..Len(iprops) |-> IF i \in fresh THEN "Y" ELSE "N"] \in [1..Len(iprops) -> Answer]
        BY DEF Answer
      <3>3. [i \in 1..Len(iprops) |-> IF i \in fresh THEN "Y" ELSE "N"] \in Seq(Answer)
        BY <3>1, <3>2, SeqDef
      <3>4. QED
        BY <3>3 DEF Line
    <2>3. tx' = tx \/ tx' = tx \o <<>> \/ tx' = tx \o <<fs>>
      BY <2>1 DEF Says
    <2>4. PICK l \in Line : /\ l.t = "FS"
                            /\ tx' = tx \/ tx' = tx \o <<>> \/ tx' = tx \o <<l>>
      BY <2>2, <2>3
    <2> HIDE DEF fs
    <2>5. /\ <<l>> \in Seq(Line)
          /\ \A k \in 1..Len(<<l>>) : Clear(<<l>>[k])'
      <3>1. <<l>> \in Seq(Line) /\ Len(<<l>>) = 1 /\ <<l>>[1] = l
        BY <2>4
      <3>2. Clear(l)'
        BY <2>4 DEF Clear
      <3>3. QED
        BY <3>1, <3>2
    <2>6. tx \o <<>> = tx
      BY <1>1, ConcatEmptySeq DEF TypeOK
    <2>7. QED
      BY <2>4, <2>5, <2>6 DEF SaysClear
  <1>6. CASE \/ GreetIgnored \/ GreetSID \/ AnswerFS \/ BatchDone \/ WaitReadable
             \/ ParseFC \/ Receive \/ Record
    BY <1>6 DEF GreetIgnored, GreetSID, AnswerFS, BatchDone, WaitReadable, ParseFC, Receive,
       Record, SaysClear, netVars
  <1>7. QED
    BY <1>2, <1>3, <1>4, <1>5, <1>6, FairSteps

(* The lines of Out!Clean are clear ones.                                    *)
SidAhead == RoleP = "client" /\ pcP = "greet" => \E k \in 1..Len(tx) : tx[k].t = "SID"
AllClear == \A k \in 1..Len(tx) : Clear(tx[k])
LEMMA OutClear == Out!Clean <=> SidAhead /\ AllClear
  <1>1. Out!Sum([i \in 1..Out!Size |-> Out!Proposed(i)])
          = Cksum([k \in 1..BatchSize |-> olist[nprop + k]])
    <2>1. Out!Size = BatchSize
      BY DEF Out!Size, Out!SizeOf, BatchSize, Remaining
    <2>2. [i \in 1..Out!Size |-> Out!Proposed(i)] = [k \in 1..BatchSize |-> olist[nprop + k]]
      BY <2>1 DEF Out!Proposed
    <2> DEFINE b == [k \in 1..BatchSize |-> olist[nprop + k]]
    <2>3. Out!Sum(b) = Cksum(b)
      <3> HIDE DEF b
      <3>1. QED
        BY DEF Out!Sum, Cksum, Out!Cardinality, Cardinality
    <2>4. QED
      BY <2>2, <2>3
  <1>2. QED
    BY <1>1 DEF Out!Clean, Clear, SidAhead, AllClear, BlockSum

(* What was said before is still clear: who has said it waits for an answer. *)
LEMMA ClearKept ==
    ASSUME Fair, Work, UNCHANGED faults, ~Exit, NEW line, tx # <<>>, Clear(line)
    PROVE  Clear(line)'
  <1>1. rx = <<>>
    BY DEF Fair, Session
  <1>2. PutCompressed \/ BatchDone \/ WaitReadable \/ Record \/ BlockDone
    BY <1>1, FairSteps DEF GreetIgnored, GreetSID, GreetPrompt, AnswerFS, ParseFC, ParseFF,
       ParseBlock, Receive, Reads
  <1>3. CASE WaitReadable
    <2>1. pc = "wait" /\ pc' = "parser" /\ UNCHANGED <<olist, nprop>>
      BY <1>3 DEF WaitReadable, outVars
    <2>2. QED
      BY <2>1 DEF Clear
  <1>4. CASE PutCompressed \/ BatchDone \/ Record \/ BlockDone
    <2>1. pc \in {"send", "record", "receive"}
      BY <1>4 DEF PutCompressed, BatchDone, Record, BlockDone
    <2>2. line.t # "FQ" /\ line.t # "FF" /\ line.t # "F>"
      BY <2>1 DEF Clear
    <2>3. QED
      BY <2>2 DEF Clear
  <1>5. QED
    BY <1>2, <1>3, <1>4

(* The client does not lose sight of the SID it has not read (wl2k_exchange).*)
LEMMA SidKept ==
    ASSUME Fair, Work, UNCHANGED faults, ~Exit, Role = "client", pc' = "greet"
    PROVE  \E k \in 1..Len(rx') : rx'[k].t = "SID"
  <1>1. TypeOK
    BY DEF Fair, Sound
  <1>2. GreetIgnored
    BY <1>1, FairSteps DEF GreetSID, GreetPrompt, AnswerFS, PutCompressed, BatchDone,
       WaitReadable, ParseFC, ParseFF, ParseBlock, Receive, Record, BlockDone, B2Out, TypeOK
  <1>3. pc = "greet" /\ rx # <<>> /\ rx' = Tail(rx) /\ Head(rx).t # "SID"
    BY <1>2 DEF GreetIgnored, Reads, Dropped, Comment
  <1>4. PICK k \in 1..Len(rx) : rx[k].t = "SID"
    BY <1>3 DEF Fair, In!Clean
  <1>5. /\ Len(rx) \in Nat \ {0} /\ Head(rx) = rx[1]
        /\ Len(rx') = Len(rx) - 1
        /\ \A j \in 1..Len(rx') : j + 1 \in 1..Len(rx) /\ rx'[j] = rx[j+1]
    BY <1>1, <1>3, ReadShifts
  <1>6. k # 1
    BY <1>3, <1>4, <1>5
  <1>7. k - 1 \in 1..Len(rx') /\ (k - 1) + 1 = k
    BY <1>5, <1>6
  <1>8. rx'[k - 1] = rx[k]
    BY <1>5, <1>7
  <1>9. QED
    BY <1>4, <1>7, <1>8

(* Such a session stays one.                                                 *)
LEMMA CleanStep ==
    ASSUME Fair, Work, UNCHANGED varsP, UNCHANGED faults, ~Exit
    PROVE  In!Clean' /\ Out!Clean'
  <1>1. TypeOK /\ rx \in Seq(Line) /\ tx \in Seq(Line)
    BY DEF Fair, Sound, TypeOK
  <1>2. /\ UNCHANGED <<pcP, olistP, npropP>>
        /\ In!Size' = In!Size /\ \A k : In!Proposed(k)' = In!Proposed(k)
    <2>1. UNCHANGED <<pcP, olistP, npropP>>
      BY DEF varsP
    <2>2. QED
      BY <2>1 DEF In!Size, In!SizeOf, In!Proposed
  <1>3. In!Clean'
    <2> DEFINE sum == In!Sum([i \in 1..In!Size |-> In!Proposed(i)])
    <2>1. sum' = sum
      BY <1>2 DEF In!Sum
    <2>2. ASSUME NEW k \in 1..Len(rx')
          PROVE  /\ rx'[k].t # "FQ"
                 /\ rx'[k].t = "FF" => pcP' \in {"wait", "parser"} /\ npropP' = Len(olistP')
                 /\ rx'[k].t = "F>" => pcP' = "answer" /\ rx'[k].sum = sum'
      <3>1. PICK l \in 1..Len(rx) : rx'[k] = rx[l]
        BY <1>1, ReadsLeft
      <3>2. /\ rx[l].t # "FQ"
            /\ rx[l].t = "FF" => pcP \in {"wait", "parser"} /\ npropP = Len(olistP)
            /\ rx[l].t = "F>" => pcP = "answer" /\ rx[l].sum = sum
        BY DEF Fair, In!Clean
      <3> HIDE DEF sum
      <3>3. QED
        BY <1>2, <2>1, <3>1, <3>2
    <2>3. Role = "client" /\ pc' = "greet" => \E k \in 1..Len(rx') : rx'[k].t = "SID"
      BY SidKept
    <2>4. QED
      BY <2>2, <2>3 DEF In!Clean
  <1>4. Out!Clean'
    <2>1. SidAhead /\ AllClear
      BY OutClear DEF Fair
    <2>2. ASSUME NEW line, NEW k \in 1..Len(tx), line = tx[k] PROVE Clear(line)'
      <3>1. tx # <<>> /\ Clear(line)
        BY <2>1, <2>2, EmptySeq DEF AllClear
      <3>2. QED
        BY <3>1, ClearKept
    <2>3. PICK p \in Seq(Line) : p = tx
      BY <1>1
    <2>4. \A k \in 1..Len(p) : Clear(p[k])'
      BY <2>2, <2>3
    <2>5. PICK r \in Seq(Line) :
             /\ tx' = r
             /\ \A k \in 1..Len(p) : k \in 1..Len(r) /\ r[k] = p[k]
             /\ \A k \in 1..Len(r) : Clear(r[k])'
      <3>1. CASE tx' = tx
        BY <2>3, <2>4, <3>1
      <3>2. CASE tx' # tx
        <4>1. PICK q \in Seq(Line) : /\ tx' = p \o q
                                     /\ \A k \in 1..Len(q) : Clear(q[k])'
          BY <2>3, <3>2, ClearSaid DEF SaysClear
        <4> DEFINE r == p \o q
        <4>2. /\ r \in Seq(Line) /\ Len(r) = Len(p) + Len(q)
              /\ Len(p) \in Nat /\ Len(q) \in Nat
              /\ \A k \in 1..Len(p) : r[k] = p[k]
          BY SaidAfter, LenProperties
        <4>3. \A k \in 1..Len(p) : k \in 1..Len(r)
          BY <4>2
        <4>4. ASSUME NEW k \in 1..Len(r) PROVE Clear(r[k])'
          BY <2>4, <4>1, EachSaid
        <4>5. tx' = r
          BY <4>1
        <4> HIDE DEF r
        <4>6. QED
          BY <4>2, <4>3, <4>4, <4>5
      <3>3. QED
        BY <3>1, <3>2
    <2>6. SidAhead'
      BY <1>2, <2>1, <2>3, <2>5 DEF SidAhead
    <2>7. AllClear'
      <3>1. ASSUME NEW line, Clear(line)'
            PROVE  /\ line.t # "FQ"
                   /\ line.t = "FF" => pc' \in {"wait", "parser"} /\ nprop' = Len(olist')
                   /\ line.t = "F>" => pc' = "answer" /\ line.sum = BlockSum'
        BY <3>1 DEF Clear
      <3>2. \A k \in 1..Len(tx') :
               /\ tx'[k].t # "FQ"
               /\ tx'[k].t = "FF" => pc' \in {"wait", "parser"} /\ nprop' = Len(olist')
               /\ tx'[k].t = "F>" => pc' = "answer" /\ tx'[k].sum = BlockSum'
        BY <2>5, <3>1
      <3>3. QED
        BY <3>2 DEF AllClear, Clear
    <2>8. QED
      BY <2>6, <2>7, OutClear, PTL
  <1>5. QED
    BY <1>3, <1>4

-------------------------------------------------------------------------------
(* The end of such a session.                                                *)

(* Who hangs up has nothing left to send, and the peer, which has nothing    *)
(* left to propose, is about to hear it (FF and FQ in inbound_parser).       *)
LEMMA HangsUp ==
    ASSUME Fair, Left, Work, UNCHANGED varsP, UNCHANGED faults, Exit
    PROVE  Listed' = {} /\ Out!Parts'
  <1>1. ParseFF /\ Remaining = 0
    BY FairSteps
  <1>2. TypeOK /\ pc = "parser" /\ rx # <<>> /\ Head(rx).t = "FF" /\ UNCHANGED varsP
    BY <1>1 DEF Fair, Sound, ParseFF, Reads
  <1>3. In!Commands /\ pcP \in {"wait", "parser"} /\ npropP = Len(olistP)
    BY <1>2, ReadCommand
  <1>4. Listed' = {}
    <2>1. nprop = Len(olist)
      BY <1>1, <1>2, LenProperties DEF TypeOK, Remaining
    <2>2. DoDelete /\ pc' # "send"
      BY <1>1 DEF ParseFF, Exit
    <2>3. QED
      BY <1>2, <2>1, <2>2, LeftUnlinked
  <1>5. tx' = <<[t |-> "FQ"]>>
    <2> DEFINE fq == [t |-> "FQ"]
    <2>1. Says(<<>> \o <<fq>>)
      BY <1>1 DEF ParseFF, B2Out, Exit, Just
    <2>2. link = "up" /\ tx = <<>>
      BY <1>3 DEF Fair, In!Commands
    <2>3. tx' = <<>> \o (<<>> \o <<fq>>)
      BY <2>1, <2>2 DEF Says
    <2>4. <<fq>> \in Seq({fq})
      OBVIOUS
    <2> HIDE DEF fq
    <2>5. tx' = <<fq>>
      BY <2>3, <2>4, ConcatEmptySeq
    <2>6. QED
      BY <2>5 DEF fq
  <1>6. pc' = "idle" /\ UNCHANGED <<pcP, npropP, olistP>>
    BY <1>2 DEF Exit, varsP
  <1>7. QED
    BY <1>3, <1>4, <1>5, <1>6 DEF Out!Parts

(* Who hears it has nothing left to send either (FQ in inbound_parser).      *)
LEMMA HearsIt ==
    ASSUME TypeOK, Distinct, Left, link = "closed", In!Parts, Work, UNCHANGED varsP, UNCHANGED faults
    PROVE  /\ link' = "closed"
           /\ \/ In!Parts' /\ Left'
              \/ pc' = "idle" /\ Listed' = {}
  <1>1. /\ pc \in {"wait", "parser"} /\ nprop = Len(olist) /\ rx = <<[t |-> "FQ"]>>
        /\ UNCHANGED pcP /\ pcP = "idle"
    BY DEF In!Parts, varsP
  <1>2. Head(rx).t = "FQ" /\ rx # <<>>
    BY <1>1
  <1>3. WaitReadable \/ ParseFQ
    BY <1>1, <1>2 DEF Work, LoginWaits, LoginAnswers, LoginDone, GreetIgnored, GreetSID,
       GreetPrompt, GreetError, AnswerSkip, AnswerFS, AnswerError, PutCompressed, BatchDone,
       WaitReadable, ParseComment, Comment, ParseFC, ParseFF, ParseB, ParsePrompt,
       ParseUnrecognized, Unknown, Prompt, ParseBlockSendOnly, ParseBlockMismatch, ParseBlock, Receive,
       ReceiveError, Record, BlockDone, EndOfFile, Reads
  <1>4. CASE WaitReadable
    <2>1. /\ pc' = "parser" /\ UNCHANGED <<nprop, olist, rx, link>>
      BY <1>4 DEF WaitReadable, outVars, netVars
    <2>2. Left'
      BY <1>1, LeftStep
    <2>3. QED
      BY <1>1, <2>1, <2>2 DEF In!Parts
  <1>5. CASE ParseFQ
    <2>1. DoDelete /\ Exit /\ pc' # "send"
      BY <1>5 DEF ParseFQ, Exit
    <2>2. Listed' = {}
      BY <1>1, <2>1, LeftUnlinked
    <2>3. QED
      BY <2>1, <2>2 DEF Exit
  <1>6. QED
    BY <1>3, <1>4, <1>5

(* At the start, all that may be sent is in the list (readdir).              *)
LEMMA LeftStart ==
    ASSUME TypeOK, Begin
    PROVE  Left'
  <1> DEFINE n == Cardinality(Listed)
  <1>1. IsFiniteSet(Listed) /\ n \in Nat
    <2>1. Listed \subseteq Msg
      BY ConstantsAssumption DEF Listed, TypeOK
    <2>2. IsFiniteSet(Listed)
      BY <2>1, ConstantsAssumption, FS_Subset
    <2>3. QED
      BY <2>2, FS_CardinalityType
  <1>2. PICK s \in [1..n -> Listed] : olist' = s /\ \A i, j \in 1..n : s[i] = s[j] => i = j
    BY DEF Begin, Listings
  <1>3. nprop' = 0 /\ pc' = "greet" /\ Listed' = Listed
    BY DEF Begin, hostVars, Listed
  <1>4. Len(s) = n
    BY <1>1, <1>2, LenProperties, SeqDef
  <1>5. ASSUME NEW m \in Listed
        PROVE  \E i \in 1..n : s[i] = m
    <2> DEFINE R == {s[i] : i \in 1..n}
    <2>1. R \subseteq Listed
      BY <1>2
    <2>2. Cardinality(R) = n
      <3>1. s \in Bijection(1..n, R)
        BY <1>2 DEF Bijection, Injection, Surjection, IsInjective
      <3>2. IsFiniteSet(1..n) /\ Cardinality(1..n) = n
        BY <1>1, FS_Interval
      <3>3. ExistsBijection(1..n, R)
        BY <3>1 DEF ExistsBijection
      <3>4. QED
        BY <3>2, <3>3, FS_Bijection
    <2>3. R = Listed
      BY <1>1, <2>1, <2>2, FS_Subset
    <2>4. QED
      BY <2>3
  <1>6. \A i \in 1..n : i > 0
    BY <1>1
  <1>7. QED
    BY <1>2, <1>3, <1>4, <1>5, <1>6 DEF Left

-------------------------------------------------------------------------------
(* The steps of such a session.                                              *)

(* Faults are used up, and a mishap is one.                                  *)
LEMMA FaultsFall ==
    ASSUME TypeOK, Work \/ Mishap \/ Start
    PROVE  /\ faults' = faults \/ faults' = faults - 1
           /\ Mishap => faults' # faults
  <1>1. Mishap => faults' = faults - 1 /\ faults' # faults
    BY FaultCounts DEF Mishap, Kill, Age, Late, Fault
  <1>2. Start => faults' = faults
    BY DEF Start, Begin
  <1>3. CASE ParseFC \/ ParseFF \/ ParseFQ \/ ParsePrompt
    BY <1>1, <1>3 DEF ParseFC, ParseFF, ParseFQ, ParsePrompt, DoDelete, Fault
  <1>4. CASE ParseBlock \/ Receive \/ Record
    BY <1>1, <1>4 DEF ParseBlock, Receive, Record, Fault
  <1>5. CASE LoginWaits \/ LoginAnswers \/ LoginDone
    BY <1>1, <1>5 DEF LoginWaits, LoginAnswers, LoginDone, Begin
  <1>6. CASE \/ GreetIgnored \/ GreetSID \/ GreetPrompt \/ GreetError
             \/ AnswerSkip \/ AnswerFS \/ AnswerError \/ PutCompressed \/ BatchDone
             \/ WaitReadable \/ ParseComment \/ ParseB \/ ParseUnrecognized
             \/ ParseBlockSendOnly \/ ParseBlockMismatch \/ ReceiveError \/ BlockDone
             \/ EndOfFile
    BY <1>1, <1>6 DEF GreetIgnored, GreetSID, GreetPrompt, GreetError, AnswerSkip, AnswerFS,
       AnswerError, PutCompressed, BatchDone, WaitReadable, ParseComment, ParseB,
       ParseUnrecognized, ParseBlockSendOnly, ParseBlockMismatch, ReceiveError, BlockDone,
       EndOfFile
  <1>7. QED
    BY <1>1, <1>2, <1>3, <1>4, <1>5, <1>6 DEF Work

(* A program that has ended takes no step of its own.                        *)
LEMMA IdleRests ==
    ASSUME pc = "idle"
    PROVE  ~Work
  BY DEF Work, LoginWaits, LoginAnswers, LoginDone, GreetIgnored, GreetSID, GreetPrompt,
     GreetError, AnswerSkip, AnswerFS, AnswerError, PutCompressed, BatchDone, WaitReadable,
     ParseComment, ParseFC, ParseFF, ParseFQ, ParseB, ParsePrompt, ParseUnrecognized,
     ParseBlockSendOnly, ParseBlockMismatch, ParseBlock, Receive, ReceiveError, Record,
     BlockDone, EndOfFile, AtRead, Reading

(* A session that meets no fault goes on as one, or the program hangs up     *)
(* with nothing left to send (wl2k_exchange, wl2kd_exchange).                *)
LEMMA FairStep ==
    ASSUME Fair, Left, Work, UNCHANGED varsP, UNCHANGED faults
    PROVE  \/ Fair' /\ Left'
           \/ link' = "closed" /\ Listed' = {} /\ Out!Parts'
  <1>1. TypeOK /\ Distinct /\ Sound /\ Session
    BY DEF Fair, Sound
  <1>2. pc \notin {"login1", "login2", "answerFW"}
    BY DEF Fair, Session, In!Forth
  <1>3. CASE Exit
    BY <1>3, HangsUp DEF Exit
  <1>4. CASE ~Exit
    <2>1. Sound' /\ Session'
      BY <1>1, DialogueStep
    <2>2. In!Clean' /\ Out!Clean'
      BY <1>4, CleanStep
    <2>3. ~sendonly' /\ ~sendonlyP'
      BY <1>2, SendonlyStep DEF Fair, varsP
    <2>4. link' = "up"
      BY <1>4, FairSteps DEF Fair, GreetIgnored, GreetSID, GreetPrompt, AnswerFS,
         PutCompressed, BatchDone, WaitReadable, ParseFC, ParseFF, ParseBlock, Receive,
         Record, BlockDone, B2Out, netVars
    <2>5. Left'
      BY <1>1, <1>2, LeftStep
    <2>6. QED
      BY <2>1, <2>2, <2>3, <2>4, <2>5 DEF Fair
  <1>5. QED
    BY <1>3, <1>4

(* What is left does not change while the peer takes a step.                 *)
LEMMA LeftSame ==
    ASSUME UNCHANGED <<pc, olist, nprop, del, unsent, outbox>>
    PROVE  (Left => Left') /\ Listed' = Listed
  <1>1. Listed' = Listed /\ BatchSize' = BatchSize
    BY DEF Listed, BatchSize, Remaining
  <1>2. QED
    BY <1>1 DEF Left

(* Nor does anything while neither does.                                     *)
LEMMA FairSame ==
    ASSUME Still
    PROVE  (Fair => Fair') /\ (In!Parts => In!Parts')
  <1>1. /\ UNCHANGED <<pc, sendonly, olist, nprop, rx, tx, link>>
        /\ UNCHANGED <<pcP, sendonlyP, olistP, npropP>>
    BY DEF Still, varsP
  <1>2. In!Clean => In!Clean'
    <2>1. In!Size' = In!Size /\ \A k : In!Proposed(k)' = In!Proposed(k)
      BY <1>1 DEF In!Size, In!SizeOf, In!Proposed
    <2> DEFINE sum == In!Sum([i \in 1..In!Size |-> In!Proposed(i)])
    <2>2. sum' = sum
      BY <2>1 DEF In!Sum
    <2> HIDE DEF sum
    <2>3. QED
      BY <1>1, <2>2 DEF In!Clean, sum
  <1>3. Out!Clean => Out!Clean'
    <2>1. BlockSum' = BlockSum
      BY <1>1 DEF BlockSum, BatchSize, Remaining, Cksum
    <2>2. SidAhead /\ AllClear => SidAhead' /\ AllClear'
      BY <1>1, <2>1 DEF SidAhead, AllClear, Clear
    <2>3. (Out!Clean)' <=> SidAhead' /\ AllClear'
      BY OutClear, PTL
    <2>4. QED
      BY <2>2, <2>3, OutClear
  <1>4. In!Parts => In!Parts'
    BY <1>1 DEF In!Parts
  <1>5. QED
    BY <1>1, <1>2, <1>3, <1>4, StillStep DEF Fair

-------------------------------------------------------------------------------
(***************************************************************************)
(* Reading ahead: when the client can wait for the descriptor although a     *)
(* line is already in its buffer (wl2k_wait_for_response).                   *)
(***************************************************************************)

(* How many proposals of the list are answered.                              *)
Answered == IF pc = "send" THEN nprop + BatchSize ELSE nprop

(* What one program keeps to by itself: its buffer holds lines that have     *)
(* arrived; the first block is the only one whose answer is followed by      *)
(* wl2k_wait_for_response(); a block has proposals, and a batch is of them.  *)
Batched ==
    /\ ahead =< Len(rx)
    /\ pc \in {"greet", "sid"} => nprop = 0
    /\ pc \in {"answer", "answerFW"} => Remaining > 0
    /\ pc \in {"answer", "answerFW", "send"} /\ ret = "wait" => nprop = 0
    /\ pc = "send" => unsent \subseteq nprop+1 .. nprop+BatchSize

(* A program reads ahead no further than what has arrived (wl2kgetline).     *)
LEMMA AheadStep ==
    ASSUME TypeOK, TypeOK', ahead =< Len(rx), Work \/ Mishap \/ Start
    PROVE  ahead' =< Len(rx')
  <1>1. CASE \/ LoginWaits \/ LoginAnswers \/ LoginDone
             \/ GreetIgnored \/ GreetSID \/ GreetPrompt \/ GreetError
             \/ AnswerSkip \/ AnswerFS \/ AnswerError
             \/ ParseComment \/ ParseFC \/ ParseFF \/ ParseFQ \/ ParseB \/ ParsePrompt
             \/ ParseUnrecognized \/ ParseBlockSendOnly \/ ParseBlockMismatch \/ ParseBlock
             \/ Receive \/ ReceiveError
    <2>1. PICK kinds : Reads(kinds)
      BY <1>1 DEF LoginWaits, LoginAnswers, LoginDone, GreetIgnored, GreetSID, GreetPrompt,
           GreetError, AnswerSkip, AnswerFS, AnswerError, ParseComment, ParseFC, ParseFF,
           ParseFQ, ParseB, ParsePrompt, ParseUnrecognized, ParseBlockSendOnly,
           ParseBlockMismatch, ParseBlock, Receive, ReceiveError
    <2>2. Len(rx) \in Nat \ {0} /\ Len(rx') = Len(rx) - 1 /\ ahead \in Nat
      BY <2>1, ReadShifts DEF Reads, TypeOK
    <2>3. QED
      BY <2>1, <2>2 DEF Reads
  <1>2. CASE \/ PutCompressed \/ BatchDone \/ WaitReadable \/ Record \/ BlockDone \/ EndOfFile
             \/ Mishap
    <2>1. ahead' = ahead /\ rx' = rx
      BY <1>2 DEF PutCompressed, BatchDone, WaitReadable, Record, BlockDone, EndOfFile,
           Mishap, Late, Kill, Age, Alarm, Die, WaitGivesUp, netVars
    <2>2. QED
      BY <2>1
  <1>3. CASE Start
    <2>1. ahead' = 0 /\ Len(rx') \in Nat
      BY <1>3, LenProperties DEF Start, TypeOK
    <2>2. QED
      BY <2>1
  <1>4. QED
    BY <1>1, <1>2, <1>3 DEF Work

(* Every step of a program keeps to it (b2outboundproposal, wl2k_exchange).  *)
LEMMA BatchedStep ==
    ASSUME TypeOK, TypeOK', Batched, Work \/ Mishap \/ Start
    PROVE  Batched'
  <1>1. ahead' =< Len(rx')
    BY AheadStep DEF Batched
  <1>2. CASE Start \/ LoginDone
    BY <1>1, <1>2 DEF Start, LoginDone, Begin, Batched
  <1>3. CASE \/ LoginWaits \/ LoginAnswers \/ GreetIgnored \/ GreetSID \/ GreetError
             \/ AnswerError \/ WaitReadable \/ ParseComment \/ ParseFC \/ ParseFQ \/ ParseB
             \/ ParseUnrecognized \/ ParseBlockSendOnly \/ ParseBlockMismatch \/ ParseBlock
             \/ Receive \/ ReceiveError \/ Record \/ EndOfFile
    <2>1. /\ nprop' = nprop
          /\ \/ pc' \in {"login1", "login2", "idle", "parser", "receive", "record"}
             \/ pc \in {"greet", "sid"} /\ pc' \in {"greet", "sid"}
      BY <1>3 DEF LoginWaits, LoginAnswers, GreetIgnored, GreetSID, GreetError, AnswerError,
           WaitReadable, ParseComment, ParseFC, ParseFQ, ParseB, ParseUnrecognized,
           ParseBlockSendOnly, ParseBlockMismatch, ParseBlock, Receive, ReceiveError, Record,
           EndOfFile, Exit, DoDelete, outVars
    <2>2. QED
      BY <1>1, <2>1 DEF Batched
  <1>4. CASE GreetPrompt \/ ParseFF \/ ParsePrompt \/ BlockDone
    <2>1. /\ nprop' = nprop /\ Remaining' = Remaining
          /\ \/ pc' \in {"idle", "wait", "parser"}
             \/ /\ pc' = "answer" /\ Remaining > 0
                /\ ret' = "parser" \/ pc = "sid"
      BY <1>4 DEF GreetPrompt, ParseFF, ParsePrompt, BlockDone, B2Out, Exit, DoDelete, outVars,
           Remaining
    <2>2. QED
      BY <1>1, <2>1 DEF Batched
  <1>5. CASE AnswerSkip
    <2>1. /\ UNCHANGED <<nprop, ret>> /\ Remaining' = Remaining
          /\ pc \in {"answer", "answerFW"} /\ pc' \in {"answer", "answerFW"}
      BY <1>5 DEF AnswerSkip, outVars, Remaining
    <2>2. QED
      BY <1>1, <2>1 DEF Batched
  <1>6. CASE AnswerFS
    <2>1. /\ UNCHANGED <<nprop, ret>> /\ BatchSize' = BatchSize
          /\ pc \in {"answer", "answerFW"}
          /\ \/ pc' = "idle"
             \/ pc' = "send" /\ unsent' \subseteq nprop+1 .. nprop+BatchSize
      BY <1>6 DEF AnswerFS, outVars, Remaining, BatchSize, Exit
    <2>2. QED
      BY <1>1, <2>1 DEF Batched
  <1>7. CASE PutCompressed
    <2>1. /\ UNCHANGED <<pc, nprop, ret>> /\ BatchSize' = BatchSize /\ unsent' \subseteq unsent
          /\ pc = "send"
      BY <1>7 DEF PutCompressed, Remaining, BatchSize
    <2>2. QED
      BY <1>1, <2>1 DEF Batched
  <1>8. CASE BatchDone
    <2>1. pc' \in {"wait", "parser"}
      BY <1>8 DEF BatchDone, TypeOK
    <2>2. QED
      BY <1>1, <2>1 DEF Batched
  <1>9. CASE Mishap
    <2>1. \/ pc' = "idle"
          \/ UNCHANGED <<pc, nprop, ret, olist, unsent>>
      BY <1>9 DEF Mishap, Kill, Late, Age, Alarm, Die, WaitGivesUp, Exit, outVars
    <2>2. CASE UNCHANGED <<pc, nprop, ret, olist, unsent>>
      <3>1. Remaining' = Remaining /\ BatchSize' = BatchSize
        BY <2>2 DEF Remaining, BatchSize
      <3>2. QED
        BY <1>1, <2>2, <3>1 DEF Batched
    <2>3. QED
      BY <1>1, <2>1, <2>2 DEF Batched
  <1>10. QED
    BY <1>2, <1>3, <1>4, <1>5, <1>6, <1>7, <1>8, <1>9 DEF Work

(* Whatever counts as delivered, or is on its way, and is still in the       *)
(* outbox was answered.                                                      *)
BehindPointer ==
    \A m \in outbox \cap (Out!TakenR \cup Out!InFlight) : \E i \in 1..Answered : olist[i] = m

(* The program waits with a line in its buffer only after a block that was   *)
(* refused as a whole, behind which the peer said something at once.  Unless *)
(* a fault happened the peer has no reason to refuse.                        *)
WaitsBehind ==
    link = "up" /\ ahead > 0 /\ (pc = "wait" \/ (pc = "send" /\ ret = "wait")) =>
      /\ faults # MaxFaults
      /\ \A i \in 1..Answered : olist[i] \in Out!TakenR

(* An answer with something behind it refuses every proposal of the block    *)
(* (Out!Back), and all of them count as delivered at the peer (Out!Refused). *)
LEMMA WhollyRefused ==
    ASSUME TypeOK, Out!Back, Out!Refused, pc = "answer", AnswerFS, Len(rx) > 1
    PROVE  \A k \in 1..BatchSize : olist[nprop + k] \in Out!TakenR
  <1>1. rx # <<>> /\ Head(rx).t = "FS"
    BY DEF AnswerFS, Reads
  <1>2. rx \in Seq(Line) /\ Len(rx) \in Nat \ {0} /\ Head(rx) = rx[1]
    BY <1>1, LenProperties, EmptySeq, HeadTailProperties DEF TypeOK
  <1>3. 1 \in 1..Len(rx) /\ rx[1].t = "FS"
    BY <1>1, <1>2
  <1>4. \A j \in 1..Out!Size : rx[1].ans[j] = "N"
    BY <1>3 DEF Out!Back
  <1>5. \A k \in 1..Out!Size : Out!Proposed(k) \in Out!TakenR
    BY <1>1, <1>3, <1>4 DEF Out!Refused
  <1>6. Out!Size = BatchSize
    BY DEF Out!Size, Out!SizeOf, BatchSize, Remaining
  <1>7. QED
    BY <1>5, <1>6 DEF Out!Proposed

(* The client comes to wait in this way only (wl2k_wait_for_response).       *)
LEMMA WaitsStep ==
    ASSUME TypeOK, TypeOK', Distinct, UnansweredKept, Session, Out!Refused, Role = "client",
           Batched, WaitsBehind, faults = MaxFaults => BehindPointer,
           UNCHANGED varsP, Work \/ Mishap
    PROVE  WaitsBehind'
  <1> SUFFICES ASSUME link' = "up", ahead' > 0,
                      pc' = "wait" \/ (pc' = "send" /\ ret' = "wait")
               PROVE  /\ faults' # MaxFaults
                      /\ \A i \in 1..Answered' : olist'[i] \in Out!TakenR'
    BY DEF WaitsBehind
  <1>1. Out!TakenR' = Out!TakenR
    BY DEF varsP, Out!TakenR, Out!DeliveredR
  <1>2. pc \notin {"idle", "login1", "login2", "answerFW"}
    <2>1. pc # "idle" \/ Age
      BY IdleRests DEF Mishap, Kill, Late, Alarm, AlarmDue, AtRead, Reading, WaitGivesUp
    <2>2. Age => pc' = pc
      BY DEF Age
    <2>3. QED
      BY <2>1, <2>2 DEF Session, In!Forth
  <1>3. link = "up" /\ GoesOn
    BY <1>2, ReadsStep, StepKinds DEF Exit
  <1>4. Len(rx) \in Nat /\ nprop \in Nat /\ BatchSize \in Nat /\ ahead \in Nat
    BY BatchType, LenProperties DEF TypeOK
  <1>5. faults # MaxFaults => faults' # MaxFaults
    <2>1. faults \in Int /\ faults =< MaxFaults /\ MaxFaults \in Int
      BY ConstantsAssumption DEF TypeOK
    <2>2. faults' = faults \/ faults' = faults - 1
      BY FaultsFall
    <2>3. QED
      BY <2>1, <2>2
  <1>6. CASE pc \in {"wait", "send"} /\ (Quiet \/ PutCompressed \/ BatchDone)
    <2>1. /\ ahead' = ahead /\ olist' = olist
          /\ pc = "wait" \/ (pc = "send" /\ ret = "wait")
          /\ Answered' = Answered
      <3>1. CASE Quiet
        BY <1>6, <3>1 DEF Quiet, outVars, netVars, Answered, BatchSize, Remaining
      <3>2. CASE PutCompressed
        BY <3>2 DEF PutCompressed, Answered, BatchSize, Remaining
      <3>3. CASE BatchDone
        BY <3>3 DEF BatchDone, netVars, Answered, TypeOK
      <3>4. QED
        BY <1>6, <3>1, <3>2, <3>3
    <2>2. QED
      BY <1>1, <1>3, <1>5, <2>1 DEF WaitsBehind
  <1>7. CASE pc = "answer" /\ AnswerFS
    <2>1. /\ UNCHANGED <<olist, nprop, ret, faults>> /\ pc' = "send" /\ rx # <<>>
          /\ rx' = Tail(rx)
      BY <1>7 DEF AnswerFS, Exit, Reads
    <2>2. nprop = 0 /\ Remaining > 0
      BY <1>7, <2>1 DEF Batched
    <2>3. Len(rx') = Len(rx) - 1 /\ ahead' =< Len(rx')
      BY <2>1, ReadShifts, AheadStep DEF Batched
    <2>4. Len(rx) > 1
      BY <1>4, <2>3 DEF TypeOK
    <2>5. \A k \in 1..BatchSize : olist[nprop + k] \in Out!TakenR
      BY <1>7, <2>4, WhollyRefused DEF Session
    <2>6. Answered' = BatchSize
      BY <1>4, <2>1, <2>2 DEF Answered, BatchSize, Remaining
    <2>7. \A i \in 1..BatchSize : olist[i] \in Out!TakenR
      BY <1>4, <2>2, <2>5
    <2>8. 1 \in 1..BatchSize /\ 1 \in nprop+1 .. Len(olist)
      BY <2>2, LenProperties, ConstantsAssumption DEF BatchSize, Remaining, TypeOK
    <2>9. olist[1] \in outbox /\ olist[1] \in Out!TakenR
      BY <1>2, <2>7, <2>8 DEF UnansweredKept, InSession
    <2>10. Answered = 0
      BY <1>7, <2>2 DEF Answered
    <2>11. faults # MaxFaults
      BY <2>9, <2>10 DEF BehindPointer
    <2>12. QED
      BY <1>1, <2>1, <2>6, <2>7, <2>11
  <1>8. CASE pc \in {"greet", "sid"} /\ GreetPrompt
    <2>1. In!Greets
      <3>1. pc = "sid"
        BY <1>8 DEF GreetPrompt
      <3>2. QED
        BY <1>3, <3>1 DEF Session, In!Talk, Out!Talk, In!Commands, In!Reached, In!Transmits,
           In!Declined, Out!Greets, Out!Commands, Out!Transmits, Out!Declined, RoleP
    <2>2. Head(rx).t = ">" /\ rx # <<>> /\ rx' = Tail(rx)
      BY <1>8 DEF GreetPrompt, Reads
    <2>3. Len(rx) = 1
      <3>1. 1 \in 1 .. Len(rx) - 1 \/ Len(rx) = 1
        BY <2>2, ReadShifts
      <3>2. Head(rx) = rx[1]
        BY <2>2, ReadShifts
      <3>3. QED
        BY <2>1, <2>2, <3>1, <3>2 DEF In!Greets
    <2>4. Len(rx') = 0 /\ ahead' =< Len(rx')
      BY <2>2, <2>3, ReadShifts, AheadStep DEF Batched
    <2>5. QED
      BY <2>4 DEF TypeOK
  <1>9. CASE ~(pc \in {"wait", "send"} /\ (Quiet \/ PutCompressed \/ BatchDone)) /\ ~AnswerFS
               /\ ~GreetPrompt
    BY <1>3, <1>9 DEF GoesOn, Quiet, GreetIgnored, GreetSID, AnswerSkip, WaitReadable,
       ParseComment, ParseFC, ParseFF, ParsePrompt, ParseBlockSendOnly, ParseBlock, Receive,
       BlockDone, Record, B2Out, Exit, PutCompressed, BatchDone
  <1>10. QED
    BY <1>2, <1>6, <1>7, <1>8, <1>9 DEF AnswerFS, GreetPrompt

(* A step of the peer does not change what is waited behind.                 *)
LEMMA WaitsSame ==
    ASSUME UNCHANGED <<pc, ret, olist, nprop, ahead>>, link' = "up" => link = "up",
           Out!TakenR \subseteq Out!TakenR', faults # MaxFaults => faults' # MaxFaults,
           WaitsBehind
    PROVE  WaitsBehind'
  <1>1. Answered' = Answered
    BY DEF Answered, BatchSize, Remaining
  <1>2. QED
    BY <1>1 DEF WaitsBehind

(* Nothing that was said is taken back (fprintf).                            *)
LEMMA SaidStays ==
    ASSUME TypeOK, Work \/ Mishap, pc # "login1", pc # "login2"
    PROVE  Len(tx) =< Len(tx')
  <1>1. tx \in Seq(Line) /\ Len(tx) \in Nat
    BY LenProperties DEF TypeOK
  <1>2. ASSUME NEW q \in Seq(Line), tx' = tx \o q PROVE Len(tx) =< Len(tx')
    BY <1>1, <1>2, SaidAfter
  <1>3. CASE ParseBlock /\ tx' # tx
    <2>1. PICK ans \in Seq(Answer) : tx' = tx \o <<[t |-> "FS", ans |-> ans]>>
      BY <1>3, AnswerSaid
    <2> DEFINE fs == [t |-> "FS", ans |-> ans]
    <2>2. fs \in Line
      BY DEF Line
    <2>3. tx' = tx \o <<fs>>
      BY <2>1
    <2> HIDE DEF fs
    <2>4. <<fs>> \in Seq(Line)
      BY <2>2
    <2>5. QED
      BY <1>2, <2>3, <2>4
  <1>4. CASE pc = "send" /\ PutCompressed
    BY <1>1, <1>2, <1>4, MessageSaid
  <1>5. QED
    BY <1>1, <1>2, <1>3, <1>4, SaidStep

(* What is transmitted is of the batch that is being answered                *)
(* (putcompressed).                                                          *)
LEMMA BehindStep ==
    ASSUME TypeOK, TypeOK', Batched, BehindPointer, UNCHANGED <<varsP, faults>>, Work,
           pc # "login1", pc # "login2"
    PROVE  BehindPointer'
  <1>1. Out!TakenR' = Out!TakenR
    BY DEF varsP, Out!TakenR, Out!DeliveredR
  <1>2. outbox' \subseteq outbox
    BY OutboxStep DEF DoDelete
  <1>3. nprop \in Nat /\ BatchSize \in Nat /\ Answered \in Nat
    <2>1. nprop \in Nat /\ BatchSize \in Nat
      BY BatchType
    <2>2. QED
      BY <2>1 DEF Answered
  <1>4. olist' = olist /\ Answered' \in Nat /\ Answered =< Answered'
    <2>1. CASE BatchDone
      BY <1>3, <2>1 DEF BatchDone, Answered, TypeOK
    <2>2. CASE PutCompressed
      BY <1>3, <2>2 DEF PutCompressed, Answered, BatchSize, Remaining
    <2>3. CASE ~BatchDone /\ ~PutCompressed
      <3>1. pc # "send" /\ UNCHANGED <<olist, nprop>>
        BY <2>3 DEF Work, LoginWaits, LoginAnswers, LoginDone, GreetIgnored, GreetSID,
           GreetPrompt, GreetError, AnswerSkip, AnswerFS, AnswerError, WaitReadable,
           ParseComment, ParseFC, ParseFF, ParseFQ, ParseB, ParsePrompt, ParseUnrecognized,
           ParseBlockSendOnly, ParseBlockMismatch, ParseBlock, Receive, ReceiveError, Record,
           BlockDone, EndOfFile, AtRead, Reading, DoDelete, outVars
      <3>2. BatchSize' = BatchSize
        BY <3>1 DEF BatchSize, Remaining
      <3>3. QED
        BY <1>3, <3>1, <3>2 DEF Answered
    <2>4. QED
      BY <2>1, <2>2, <2>3
  <1>5. CASE Out!InFlight' \subseteq Out!InFlight
    <2>1. \A m \in outbox' \cap (Out!TakenR' \cup Out!InFlight') :
             m \in outbox \cap (Out!TakenR \cup Out!InFlight)
      BY <1>1, <1>2, <1>5
    <2>2. 1..Answered \subseteq 1..Answered'
      BY <1>3, <1>4
    <2>3. QED
      BY <1>4, <2>1, <2>2 DEF BehindPointer
  <1>6. CASE pc = "send" /\ PutCompressed /\ link = "up"
    <2>1. PICK i \in unsent, q \in Seq(Line) :
             /\ Len(q) = 1 /\ q[1].t = "DATA" /\ q[1].m = olist[i]
             /\ tx' = tx \o q
      BY <1>6, MessageSaid
    <2>2. 1 \in 1..Len(q) /\ \A k \in 1..Len(q) : k = 1
      BY <2>1
    <2>3. \A m \in Out!InFlight' : m \in Out!InFlight \/ m = olist[i]
      BY <2>1, <2>2, FlightAppend DEF TypeOK
    <2>4. i \in 1..Answered
      BY <1>3, <1>6 DEF Batched, Answered
    <2>5. Answered' = Answered
      BY <1>6 DEF PutCompressed, Answered, BatchSize, Remaining
    <2>6. QED
      BY <1>1, <1>2, <1>4, <2>3, <2>4, <2>5 DEF BehindPointer
  <1>7. QED
    BY <1>5, <1>6, FlightGrows

(* What the peer takes was on its way to it.                                 *)
LEMMA BehindSame ==
    ASSUME UNCHANGED <<pc, olist, nprop, outbox>>,
           Out!TakenR' \cup Out!InFlight' \subseteq Out!TakenR \cup Out!InFlight, BehindPointer
    PROVE  BehindPointer'
  <1>1. Answered' = Answered
    BY DEF Answered, BatchSize, Remaining
  <1>2. QED
    BY <1>1 DEF BehindPointer

(* What is cut off was on its way.                                           *)
LEMMA CutFlight ==
    ASSUME TypeOK, Cut
    PROVE  Out!TakenR' = Out!TakenR /\ Out!InFlight' \subseteq Out!InFlight
  <1>1. PICK n \in 0..Len(tx) : tx' = SubSeq(tx, 1, n)
    BY DEF Cut
  <1>2. \A k \in 1..Len(tx') : k \in 1..Len(tx) /\ tx'[k] = tx[k]
    BY <1>1, FirstLines DEF TypeOK
  <1>3. Out!InFlight' \subseteq Out!InFlight
    BY <1>2 DEF Out!InFlight
  <1>4. QED
    BY <1>3 DEF Cut, varsP, Out!TakenR, Out!DeliveredR

(* What counts as delivered here was on its way, unless there is a fault     *)
(* (getcompressed, check_mid).                                               *)
LEMMA TakenArrives ==
    ASSUME TypeOK, In!Forth, Work, UNCHANGED faults
    PROVE  In!TakenR' \cup In!InFlight' \subseteq In!TakenR \cup In!InFlight
  <1>1. In!InFlight' \subseteq In!InFlight
    BY FlightStep
  <1>2. CASE Receive
    <2>1. /\ rx # <<>> /\ Head(rx).t = "DATA" /\ missed' = missed
          /\ mailbox' = mailbox \/ mailbox' = [mailbox EXCEPT ![Head(rx).m] = @ + 1]
      BY <1>2, FaultCounts DEF Receive, Reads
    <2>2. rx \in Seq(Line) /\ Len(rx) \in Nat \ {0} /\ Head(rx) = rx[1] /\ 1 \in 1..Len(rx)
      BY <2>1, LenProperties, EmptySeq, HeadTailProperties DEF TypeOK
    <2>3. Head(rx).m \in In!InFlight
      BY <2>1, <2>2 DEF In!InFlight
    <2>4. In!DeliveredR' \subseteq In!DeliveredR \cup {Head(rx).m}
      BY <2>1 DEF In!DeliveredR, TypeOK
    <2>5. QED
      BY <1>1, <2>1, <2>3, <2>4 DEF In!TakenR
  <1>3. CASE ~Receive
    <2>1. mailbox' = mailbox
      BY <1>3, DeliversOne
    <2>2. missed' = missed
      <3>1. CASE ParseBlock
        <4>1. PICK failed \in SUBSET (1..Len(iprops)) :
                 /\ IF failed = {} THEN UNCHANGED faults ELSE Fault("db")
                 /\ missed' = missed \cup ({iprops[i] : i \in failed} \ middb)
          BY <3>1 DEF ParseBlock
        <4>2. failed = {}
          BY <4>1, FaultCounts
        <4>3. QED
          BY <4>1, <4>2
      <3>2. CASE ~ParseBlock
        BY <1>3, <3>2, HostStep DEF Record, Age, Die, Begin
      <3>3. QED
        BY <3>1, <3>2
    <2>3. QED
      BY <1>1, <2>1, <2>2 DEF In!TakenR, In!DeliveredR
  <1>4. QED
    BY <1>2, <1>3

-------------------------------------------------------------------------------
(* An arbitrary peer.                                                        *)

(* The program starts once the link is up.                                   *)
LEMMA ConnectStep ==
    ASSUME TypeOK, Connect
    PROVE  TypeOK'
  <1>1. Greeting \in Seq(Line)
    BY JustType, ConcatProperties, EmptySeq DEF Greeting, Bare
  <1>2. QED
    BY <1>1, StartType, EmptySeq DEF Connect

(* The peer and the link.                                                    *)
LEMMA PeerSteps ==
    ASSUME TypeOK, PeerSends \/ PeerHangsUp
    PROVE  TypeOK'
  <1>1. CASE PeerSends
    <2>1. rx' \in Seq(Line)
      BY <1>1, PeerAssumption, AppendProperties DEF PeerSends, TypeOK
    <2>2. tx' \in Seq(Line)
      BY <1>1, EmptySeq DEF PeerSends
    <2>3. QED
      BY <1>1, <2>1, <2>2
         DEF PeerSends, TypeOK, outVars, inVars, dbVars, hostVars
  <1>2. CASE PeerHangsUp
    BY <1>2 DEF PeerHangsUp, TypeOK, outVars, inVars, dbVars, hostVars
  <1>3. QED
    BY <1>1, <1>2

(* The host before its first session.                                        *)
LEMMA InitTypeOK ==
    ASSUME Init
    PROVE  TypeOK
  BY ConstantsAssumption, EmptySeq DEF Init, HostInit, TypeOK, PC

(* Any step of the program, the peer or the link.                            *)
LEMMA NextTypeOK ==
    ASSUME TypeOK, [Next]_vars
    PROVE  TypeOK'
  <1>1. CASE Next
    BY <1>1, WorkSteps, OtherSteps, ConnectStep, PeerSteps DEF Next
  <1>2. CASE UNCHANGED vars
    BY <1>2 DEF vars, TypeOK, outVars, inVars, dbVars, hostVars, netVars
  <1>3. QED
    BY <1>1, <1>2

(* Whatever the peer sends, every variable of the program keeps its type: in *)
(* particular the proposal pointer (nprop) and the indices of the batch stay *)
(* within the list, and record_mid() is only reached with a proposal to      *)
(* record.                                                                   *)
THEOREM TypeCorrect == Spec => []TypeOK
  <1>1. Init => TypeOK
    BY InitTypeOK
  <1>2. TypeOK /\ [Next]_vars => TypeOK'
    BY NextTypeOK
  <1>3. QED
    BY <1>1, <1>2, PTL DEF Spec

-------------------------------------------------------------------------------
(* What leaves the outbox.                                                   *)

(* What the peer and the link do leaves the list and the files alone.        *)
LEMMA ProgramSteps ==
    ASSUME [Next]_vars
    PROVE  Work \/ Mishap \/ Start \/ UNCHANGED <<pc, outVars, hostVars>>
  BY DEF Next, vars, Connect, PeerSends, PeerHangsUp

(* A flag is only set on a message that was refused or transmitted.          *)
LEMMA FlagSettled ==
    ASSUME TypeOK, [Next]_vars
    PROVE  settled \subseteq settled' /\ del' \subseteq del \cup settled'
  <1>1. CASE AnswerFS
    BY <1>1 DEF AnswerFS, outVars
  <1>2. CASE PutCompressed
    BY <1>2 DEF PutCompressed
  <1>3. CASE BatchDone \/ Connect \/ LoginWaits \/ LoginAnswers \/ LoginDone
    BY <1>3 DEF BatchDone, Connect, Start, Begin, LoginWaits, LoginAnswers, LoginDone,
         outVars, hostVars
  <1>4. CASE ParseFC \/ ParseFF \/ ParseFQ \/ ParsePrompt
    BY <1>4 DEF ParseFC, ParseFF, ParseFQ, ParsePrompt, DoDelete
  <1>5. CASE \/ GreetIgnored \/ GreetSID \/ GreetPrompt \/ GreetError
             \/ AnswerSkip \/ AnswerError \/ WaitReadable \/ ParseComment \/ ParseB
             \/ ParseUnrecognized \/ ParseBlockSendOnly \/ ParseBlockMismatch
             \/ ParseBlock \/ Receive \/ ReceiveError \/ Record \/ BlockDone
             \/ EndOfFile
    BY <1>5 DEF hostVars, outVars, GreetIgnored, GreetSID, GreetPrompt,
         GreetError, AnswerSkip, AnswerError, WaitReadable, ParseComment, ParseB,
         ParseUnrecognized, ParseBlockSendOnly, ParseBlockMismatch, ParseBlock,
         Receive, ReceiveError, Record, BlockDone, EndOfFile
  <1>6. CASE Mishap \/ PeerSends \/ PeerHangsUp \/ UNCHANGED vars
    BY <1>6 DEF hostVars, outVars, vars, PeerSends, PeerHangsUp, Mishap, Late, Kill,
         Age, Alarm, Die, WaitGivesUp
  <1>7. QED
    BY <1>1, <1>2, <1>3, <1>4, <1>5, <1>6 DEF Next, Work

(* OutboxKept is not inductive: a file that will leave is flagged long       *)
(* before, so the flags have to be accounted for as well.                    *)
Accounted == del \subseteq settled /\ OutboxKept

(* Every step keeps both parts of it.                                        *)
LEMMA AccountedStep ==
    ASSUME TypeOK, Accounted, [Next]_vars
    PROVE  Accounted'
  <1>1. del' \subseteq settled'
    BY FlagSettled DEF Accounted
  <1>2. Outgoing \ outbox' \subseteq settled'
    <2>1. settled \subseteq settled'
      BY FlagSettled
    <2>2. CASE outbox' = outbox
      BY <2>1, <2>2 DEF Accounted, OutboxKept
    <2>3. CASE DoDelete
      <3>1. outbox \ Deletable \subseteq outbox' /\ Deletable \subseteq del
        BY <2>3 DEF DoDelete, Deletable
      <3>2. QED
        BY <2>1, <3>1 DEF Accounted, OutboxKept
    <2>4. QED
      BY <2>2, <2>3, ProgramSteps, OutboxStep DEF hostVars
  <1>3. QED
    BY <1>1, <1>2 DEF Accounted, OutboxKept

(* Whatever the peer answers, and whatever fails here, a file that is gone   *)
(* from the outbox is of a message the peer refused or that was transmitted  *)
(* in full (b2outboundproposal, dodelete).                                   *)
THEOREM OutboxIsKept == Spec => []OutboxKept
  <1>1. Init => TypeOK /\ Accounted
    BY InitTypeOK DEF Init, HostInit, Accounted, OutboxKept
  <1>2. TypeOK /\ Accounted /\ [Next]_vars => TypeOK' /\ Accounted'
    BY NextTypeOK, AccountedStep
  <1>3. Accounted => OutboxKept
    BY DEF Accounted
  <1>4. QED
    BY <1>1, <1>2, <1>3, PTL DEF Spec

(* Files are unlinked only when the peer's next command has been read: a     *)
(* proposal, FF, FQ or what may pass for a prompt (the callers of dodelete). *)
THEOREM DeletionFollowsCommand == Spec => DeletedOnCommand
  <1> DEFINE OnCommand == outbox' # outbox =>
               /\ pc = "parser" /\ rx # <<>> /\ rx' = Tail(rx)
               /\ Head(rx).t \in {"FC", "FCbad", "FF", "FQ"} \cup Unknown
  <1>1. TypeOK /\ [Next]_vars => [OnCommand]_vars
    <2> SUFFICES ASSUME TypeOK, [Next]_vars, outbox' # outbox
                 PROVE  /\ pc = "parser" /\ rx # <<>> /\ rx' = Tail(rx)
                        /\ Head(rx).t \in {"FC", "FCbad", "FF", "FQ"} \cup Unknown
      OBVIOUS
    <2>1. ParseFC \/ ParseFF \/ ParseFQ \/ ParsePrompt
      BY ProgramSteps, OutboxStep DEF hostVars
    <2>2. QED
      BY <2>1 DEF ParseFC, ParseFF, ParseFQ, ParsePrompt, Reads
  <1>2. QED
    BY <1>1, TypeCorrect, PTL DEF Spec, DeletedOnCommand

-------------------------------------------------------------------------------
(* What stays in the outbox.                                                 *)

(* Whatever the peer answers, however long its FS line, no message is        *)
(* unlinked before its own block was answered (dodelete's list pointer).     *)
THEOREM UnansweredIsKept == Spec => []UnansweredKept
  <1>1. Init => TypeOK /\ Distinct /\ UnansweredKept
    BY InitTypeOK DEF Init, HostInit, InSession, Distinct, UnansweredKept
  <1>2. TypeOK /\ Distinct /\ UnansweredKept /\ [Next]_vars
          => TypeOK' /\ Distinct' /\ UnansweredKept'
    <2> SUFFICES ASSUME TypeOK, Distinct, UnansweredKept, [Next]_vars
                 PROVE  TypeOK' /\ Distinct' /\ UnansweredKept'
      OBVIOUS
    <2>1. CASE UNCHANGED <<pc, outVars, hostVars>>
      BY <2>1, NextTypeOK DEF InSession, Distinct, UnansweredKept, outVars, hostVars
    <2>2. CASE Work \/ Mishap \/ Start
      BY <2>2, NextTypeOK, UnansweredStep
    <2>3. QED
      BY <2>1, <2>2, ProgramSteps
  <1>3. QED
    BY <1>1, <1>2, PTL DEF Spec
===============================================================================
