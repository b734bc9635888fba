---------------------------- MODULE PeerToPeerProofs ----------------------------
(***************************************************************************)
(* What holds of a client and a daemon of this package connected to each     *)
(* other, for any messages, block size and number of faults.  Each of them   *)
(* is one end of a Dialogue, so that a step of either is one that            *)
(* ExchangeProofs speaks of; what is left are the steps that concern both.   *)
(***************************************************************************)
EXTENDS PeerToPeer, TLAPS

(* The dialogue as the client sees it, and as the daemon does.  There is no  *)
(* peer but the two.                                                         *)
DA == INSTANCE ExchangeProofs WITH
        PeerLine <- {}, MaxRx <- 0,
        Outgoing <- FromA, Qualified <- FromA, Role <- "client", Login <- "none",
        pc <- pcA, ret <- retA, sendonly <- sendonlyA, olist <- olistA,
        nprop <- npropA, del <- delA, unsent <- unsentA, iprops <- ipropsA,
        todo <- todoA, ahead <- aheadA, outbox <- outboxA, middb <- middbA, old <- oldA,
        mailbox <- mailboxA, settled <- settledA, orphan <- orphanA, missed <- missedA,
        OutgoingP <- FromB, QualifiedP <- ForA, SendOnlyP <- {FALSE}, BufferedP <- TRUE, Ax25P <- FALSE,
        pcP <- pcB, retP <- retB, sendonlyP <- sendonlyB, olistP <- olistB,
        npropP <- npropB, delP <- delB, unsentP <- unsentB, ipropsP <- ipropsB,
        todoP <- todoB, aheadP <- aheadB, outboxP <- outboxB, middbP <- middbB,
        oldP <- oldB, mailboxP <- mailboxB, settledP <- settledB, orphanP <- orphanB,
        missedP <- missedB, rx <- toA, tx <- toB
DB == INSTANCE ExchangeProofs WITH
        PeerLine <- {}, MaxRx <- 0,
        Outgoing <- FromB, Qualified <- ForA, Role <- "daemon", Login <- "none",
        SendOnly <- {FALSE}, Buffered <- TRUE, Ax25 <- FALSE,
        pc <- pcB, ret <- retB, sendonly <- sendonlyB, olist <- olistB,
        nprop <- npropB, del <- delB, unsent <- unsentB, iprops <- ipropsB,
        todo <- todoB, ahead <- aheadB, outbox <- outboxB, middb <- middbB, old <- oldB,
        mailbox <- mailboxB, settled <- settledB, orphan <- orphanB, missed <- missedB,
        OutgoingP <- FromA, QualifiedP <- FromA, SendOnlyP <- SendOnly, BufferedP <- Buffered, Ax25P <- Ax25,
        pcP <- pcA, retP <- retA, sendonlyP <- sendonlyA, olistP <- olistA,
        npropP <- npropA, delP <- delA, unsentP <- unsentA, ipropsP <- ipropsA,
        todoP <- todoA, aheadP <- aheadA, outboxP <- outboxA, middbP <- middbA,
        oldP <- oldA, mailboxP <- mailboxA, settledP <- settledA, orphanP <- orphanA,
        missedP <- missedA, rx <- toB, tx <- toA

-------------------------------------------------------------------------------
(* The two sides of a dialogue speak of the same things.                     *)

(* The constants are what Exchange and Dialogue ask for.                     *)
LEMMA Constants ==
    /\ DA!ConstantsAssumption /\ DA!Paired
    /\ DB!ConstantsAssumption /\ DB!Paired
  <1>1. /\ DA!IsFiniteSet(Msg) /\ DA!P!IsFiniteSet(Msg)
        /\ DB!IsFiniteSet(Msg) /\ DB!P!IsFiniteSet(Msg)
    BY PairAssumption DEF IsFiniteSet, DA!IsFiniteSet, DA!P!IsFiniteSet, DB!IsFiniteSet,
       DB!P!IsFiniteSet
  <1>2. DA!ConstantsAssumption /\ DB!ConstantsAssumption
    BY <1>1, PairAssumption DEF DA!ConstantsAssumption, DA!FaultKind, DB!ConstantsAssumption,
       DB!FaultKind
  <1>3. DA!Paired /\ DB!Paired
    BY <1>1, PairAssumption DEF DA!Paired, DA!RoleP, DA!P!ConstantsAssumption,
       DA!P!FaultKind, DB!Paired, DB!RoleP, DB!P!ConstantsAssumption, DB!P!FaultKind
  <1>4. QED
    BY <1>2, <1>3

(* The steps of the client are those of its end of the dialogue.             *)
LEMMA ClientSteps ==
    /\ A!Work <=> DA!Work
    /\ A!Mishap <=> DA!Mishap
    /\ A!Start <=> DA!Start
    /\ A!Greeting = DA!Greeting
  <1>1. \A S : A!Cardinality(S) = DA!Cardinality(S)
    BY DEF A!Cardinality, DA!Cardinality
  <1>2. \A s : A!Cksum(s) = DA!Cksum(s)
    BY <1>1 DEF A!Cksum, DA!Cksum
  <1>3. /\ (A!LoginWaits <=> DA!LoginWaits) /\ (A!LoginAnswers <=> DA!LoginAnswers)
        /\ (A!GreetIgnored <=> DA!GreetIgnored) /\ (A!GreetSID <=> DA!GreetSID)
        /\ (A!GreetError <=> DA!GreetError)
    BY DEF A!LoginWaits, A!LoginAnswers, A!GreetIgnored, A!GreetSID, A!GreetError,
           A!Reads, A!Kind, A!Bare, A!Prompt, A!Exit, A!Asked, A!Just, A!Says,
           A!Dropped, A!Comment, A!outVars, A!inVars, A!dbVars, A!hostVars,
           A!netVars, DA!LoginWaits, DA!LoginAnswers, DA!GreetIgnored, DA!GreetSID,
           DA!GreetError, DA!Reads, DA!Kind, DA!Bare, DA!Prompt, DA!Exit, DA!Asked,
           DA!Just, DA!Says, DA!Dropped, DA!Comment, DA!outVars, DA!inVars,
           DA!dbVars, DA!hostVars, DA!netVars
  <1>4. /\ (A!GreetPrompt <=> DA!GreetPrompt) /\ (A!ParseFF <=> DA!ParseFF)
        /\ (A!ParsePrompt <=> DA!ParsePrompt) /\ (A!BlockDone <=> DA!BlockDone)
    BY <1>2
       DEF A!GreetPrompt, A!ParseFF, A!ParsePrompt, A!BlockDone, A!B2Out, A!Reads,
           A!Unknown, A!Prompt, DA!Unknown, DA!Prompt,
           A!Says, A!Just, A!Exit, A!Block, A!Remaining, A!BatchSize, A!DoDelete,
           A!Deletable, A!Fault, A!outVars, A!inVars, A!dbVars, A!hostVars,
           A!netVars, DA!GreetPrompt, DA!ParseFF, DA!ParsePrompt, DA!BlockDone,
           DA!B2Out, DA!Reads, DA!Says, DA!Just, DA!Exit, DA!Block, DA!Remaining,
           DA!BatchSize, DA!DoDelete, DA!Deletable, DA!Fault, DA!outVars, DA!inVars,
           DA!dbVars, DA!hostVars, DA!netVars
  <1>5. /\ (A!AnswerSkip <=> DA!AnswerSkip) /\ (A!AnswerFS <=> DA!AnswerFS)
        /\ (A!AnswerError <=> DA!AnswerError)
        /\ (A!PutCompressed <=> DA!PutCompressed) /\ (A!BatchDone <=> DA!BatchDone)
        /\ (A!WaitReadable <=> DA!WaitReadable)
    BY DEF A!AnswerSkip, A!AnswerFS, A!AnswerError, A!PutCompressed, A!BatchDone,
           A!WaitReadable, A!Reads, A!Kind, A!Bare, A!Prompt, A!Exit, A!HeardAs,
           A!Heard, A!Answer, A!Remaining, A!BatchSize, A!Says, A!NextOf,
           A!OnDescriptor, A!outVars, A!inVars, A!dbVars, A!hostVars, A!netVars,
           DA!AnswerSkip, DA!AnswerFS, DA!AnswerError, DA!PutCompressed,
           DA!BatchDone, DA!WaitReadable, DA!Reads, DA!Kind, DA!Bare, DA!Prompt,
           DA!Exit, DA!HeardAs, DA!Heard, DA!Answer, DA!Remaining, DA!BatchSize,
           DA!Says, DA!NextOf, DA!OnDescriptor, DA!outVars, DA!inVars, DA!dbVars,
           DA!hostVars, DA!netVars
  <1>6. /\ (A!ParseComment <=> DA!ParseComment) /\ (A!ParseFC <=> DA!ParseFC)
        /\ (A!ParseFQ <=> DA!ParseFQ) /\ (A!ParseB <=> DA!ParseB)
        /\ (A!ParseUnrecognized <=> DA!ParseUnrecognized)
        /\ (A!ParseBlockSendOnly <=> DA!ParseBlockSendOnly)
    BY DEF A!ParseComment, A!ParseFC, A!ParseFQ, A!ParseB, A!ParseUnrecognized,
           A!ParseBlockSendOnly, A!Comment, A!Reads, A!Exit, A!Says, A!Just,
           A!Unknown, A!Prompt, A!DoDelete, A!Deletable, A!Fault, A!outVars, A!inVars, A!dbVars,
           A!hostVars, A!netVars, DA!ParseComment, DA!ParseFC, DA!ParseFQ, DA!ParseB,
           DA!ParseUnrecognized, DA!ParseBlockSendOnly, DA!Comment, DA!Reads,
           DA!Exit, DA!Says, DA!Just, DA!Unknown, DA!Prompt, DA!DoDelete, DA!Deletable, DA!Fault,
           DA!outVars, DA!inVars, DA!dbVars, DA!hostVars, DA!netVars
  <1>7. /\ (A!ParseBlock <=> DA!ParseBlock)
        /\ (A!ParseBlockMismatch <=> DA!ParseBlockMismatch)
    BY <1>2
       DEF A!ParseBlock, A!ParseBlockMismatch, A!Reads, A!Fresh, A!Fault, A!Says,
           A!Exit, A!outVars, A!inVars, A!dbVars, A!hostVars, A!netVars,
           DA!ParseBlock, DA!ParseBlockMismatch, DA!Reads, DA!Fresh, DA!Fault,
           DA!Says, DA!Exit, DA!outVars, DA!inVars, DA!dbVars, DA!hostVars,
           DA!netVars
  <1>8. /\ (A!Receive <=> DA!Receive) /\ (A!ReceiveError <=> DA!ReceiveError)
        /\ (A!Record <=> DA!Record) /\ (A!EndOfFile <=> DA!EndOfFile)
    BY DEF A!Receive, A!ReceiveError, A!Record, A!EndOfFile, A!Reads, A!Kind, A!Bare,
           A!Prompt, A!Exit, A!AtRead, A!Reading, A!Fault, A!NextOf, A!outVars,
           A!inVars, A!dbVars, A!hostVars, A!netVars, DA!Receive, DA!ReceiveError,
           DA!Record, DA!EndOfFile, DA!Reads, DA!Kind, DA!Bare, DA!Prompt, DA!Exit,
           DA!AtRead, DA!Reading, DA!Fault, DA!NextOf, DA!outVars, DA!inVars,
           DA!dbVars, DA!hostVars, DA!netVars
  <1>9. /\ (A!Mishap <=> DA!Mishap)
    BY DEF A!Mishap, A!Kill, A!Age, A!Late, A!Alarm, A!AlarmDue, A!AtRead, A!Reading,
           A!Die, A!WaitGivesUp, A!OnDescriptor, A!Fault, A!Exit, A!NextOf,
           A!outVars, A!inVars, A!dbVars, A!hostVars, A!netVars, DA!Mishap, DA!Kill,
           DA!Age, DA!Late, DA!Alarm, DA!AlarmDue, DA!AtRead, DA!Reading, DA!Die,
           DA!WaitGivesUp, DA!OnDescriptor, DA!Fault, DA!Exit, DA!NextOf, DA!outVars,
           DA!inVars, DA!dbVars, DA!hostVars, DA!netVars
  <1>10. /\ (A!Start <=> DA!Start) /\ (A!LoginDone <=> DA!LoginDone)
    BY <1>1
       DEF A!Start, A!LoginDone, A!Reads, A!Kind, A!Bare, A!Prompt, A!Exit, A!Asked,
           A!Just, A!Says, A!Begin, A!Listed, A!Listings, A!outVars, A!inVars,
           A!dbVars, A!hostVars, A!netVars, DA!Start, DA!LoginDone, DA!Reads,
           DA!Kind, DA!Bare, DA!Prompt, DA!Exit, DA!Asked, DA!Just, DA!Says,
           DA!Begin, DA!Listed, DA!Listings, DA!outVars, DA!inVars, DA!dbVars,
           DA!hostVars, DA!netVars
  <1>11. A!Greeting = DA!Greeting
    BY DEF A!Greeting, DA!Greeting, A!Just, DA!Just
  <1>12. QED
    BY <1>3, <1>4, <1>5, <1>6, <1>7, <1>8, <1>9, <1>10, <1>11 DEF A!Work, DA!Work

(* And those of the daemon.                                                  *)
LEMMA DaemonSteps ==
    /\ B!Work <=> DB!Work
    /\ B!Mishap <=> DB!Mishap
    /\ B!Start <=> DB!Start
    /\ B!Greeting = DB!Greeting
  <1>1. \A S : B!Cardinality(S) = DB!Cardinality(S)
    BY DEF B!Cardinality, DB!Cardinality
  <1>2. \A s : B!Cksum(s) = DB!Cksum(s)
    BY <1>1 DEF B!Cksum, DB!Cksum
  <1>3. /\ (B!LoginWaits <=> DB!LoginWaits) /\ (B!LoginAnswers <=> DB!LoginAnswers)
        /\ (B!GreetIgnored <=> DB!GreetIgnored) /\ (B!GreetSID <=> DB!GreetSID)
        /\ (B!GreetError <=> DB!GreetError)
    BY DEF B!LoginWaits, B!LoginAnswers, B!GreetIgnored, B!GreetSID, B!GreetError,
           B!Reads, B!Kind, B!Bare, B!Prompt, B!Exit, B!Asked, B!Just, B!Says,
           B!Dropped, B!Comment, B!outVars, B!inVars, B!dbVars, B!hostVars,
           B!netVars, DB!LoginWaits, DB!LoginAnswers, DB!GreetIgnored, DB!GreetSID,
           DB!GreetError, DB!Reads, DB!Kind, DB!Bare, DB!Prompt, DB!Exit, DB!Asked,
           DB!Just, DB!Says, DB!Dropped, DB!Comment, DB!outVars, DB!inVars,
           DB!dbVars, DB!hostVars, DB!netVars
  <1>4. /\ (B!GreetPrompt <=> DB!GreetPrompt) /\ (B!ParseFF <=> DB!ParseFF)
        /\ (B!ParsePrompt <=> DB!ParsePrompt) /\ (B!BlockDone <=> DB!BlockDone)
    BY <1>2
       DEF B!GreetPrompt, B!ParseFF, B!ParsePrompt, B!BlockDone, B!B2Out, B!Reads,
           B!Unknown, B!Prompt, DB!Unknown, DB!Prompt,
           B!Says, B!Just, B!Exit, B!Block, B!Remaining, B!BatchSize, B!DoDelete,
           B!Deletable, B!Fault, B!outVars, B!inVars, B!dbVars, B!hostVars,
           B!netVars, DB!GreetPrompt, DB!ParseFF, DB!ParsePrompt, DB!BlockDone,
           DB!B2Out, DB!Reads, DB!Says, DB!Just, DB!Exit, DB!Block, DB!Remaining,
           DB!BatchSize, DB!DoDelete, DB!Deletable, DB!Fault, DB!outVars, DB!inVars,
           DB!dbVars, DB!hostVars, DB!netVars
  <1>5. /\ (B!AnswerSkip <=> DB!AnswerSkip) /\ (B!AnswerFS <=> DB!AnswerFS)
        /\ (B!AnswerError <=> DB!AnswerError)
        /\ (B!PutCompressed <=> DB!PutCompressed) /\ (B!BatchDone <=> DB!BatchDone)
        /\ (B!WaitReadable <=> DB!WaitReadable)
    BY DEF B!AnswerSkip, B!AnswerFS, B!AnswerError, B!PutCompressed, B!BatchDone,
           B!WaitReadable, B!Reads, B!Kind, B!Bare, B!Prompt, B!Exit, B!HeardAs,
           B!Heard, B!Answer, B!Remaining, B!BatchSize, B!Says, B!NextOf,
           B!OnDescriptor, B!outVars, B!inVars, B!dbVars, B!hostVars, B!netVars,
           DB!AnswerSkip, DB!AnswerFS, DB!AnswerError, DB!PutCompressed,
           DB!BatchDone, DB!WaitReadable, DB!Reads, DB!Kind, DB!Bare, DB!Prompt,
           DB!Exit, DB!HeardAs, DB!Heard, DB!Answer, DB!Remaining, DB!BatchSize,
           DB!Says, DB!NextOf, DB!OnDescriptor, DB!outVars, DB!inVars, DB!dbVars,
           DB!hostVars, DB!netVars
  <1>6. /\ (B!ParseComment <=> DB!ParseComment) /\ (B!ParseFC <=> DB!ParseFC)
        /\ (B!ParseFQ <=> DB!ParseFQ) /\ (B!ParseB <=> DB!ParseB)
        /\ (B!ParseUnrecognized <=> DB!ParseUnrecognized)
        /\ (B!ParseBlockSendOnly <=> DB!ParseBlockSendOnly)
    BY DEF B!ParseComment, B!ParseFC, B!ParseFQ, B!ParseB, B!ParseUnrecognized,
           B!ParseBlockSendOnly, B!Comment, B!Reads, B!Exit, B!Says, B!Just,
           B!Unknown, B!Prompt, B!DoDelete, B!Deletable, B!Fault, B!outVars, B!inVars, B!dbVars,
           B!hostVars, B!netVars, DB!ParseComment, DB!ParseFC, DB!ParseFQ, DB!ParseB,
           DB!ParseUnrecognized, DB!ParseBlockSendOnly, DB!Comment, DB!Reads,
           DB!Exit, DB!Says, DB!Just, DB!Unknown, DB!Prompt, DB!DoDelete, DB!Deletable, DB!Fault,
           DB!outVars, DB!inVars, DB!dbVars, DB!hostVars, DB!netVars
  <1>7. /\ (B!ParseBlock <=> DB!ParseBlock)
        /\ (B!ParseBlockMismatch <=> DB!ParseBlockMismatch)
    BY <1>2
       DEF B!ParseBlock, B!ParseBlockMismatch, B!Reads, B!Fresh, B!Fault, B!Says,
           B!Exit, B!outVars, B!inVars, B!dbVars, B!hostVars, B!netVars,
           DB!ParseBlock, DB!ParseBlockMismatch, DB!Reads, DB!Fresh, DB!Fault,
           DB!Says, DB!Exit, DB!outVars, DB!inVars, DB!dbVars, DB!hostVars,
           DB!netVars
  <1>8. /\ (B!Receive <=> DB!Receive) /\ (B!ReceiveError <=> DB!ReceiveError)
        /\ (B!Record <=> DB!Record) /\ (B!EndOfFile <=> DB!EndOfFile)
    BY DEF B!Receive, B!ReceiveError, B!Record, B!EndOfFile, B!Reads, B!Kind, B!Bare,
           B!Prompt, B!Exit, B!AtRead, B!Reading, B!Fault, B!NextOf, B!outVars,
           B!inVars, B!dbVars, B!hostVars, B!netVars, DB!Receive, DB!ReceiveError,
           DB!Record, DB!EndOfFile, DB!Reads, DB!Kind, DB!Bare, DB!Prompt, DB!Exit,
           DB!AtRead, DB!Reading, DB!Fault, DB!NextOf, DB!outVars, DB!inVars,
           DB!dbVars, DB!hostVars, DB!netVars
  <1>9. /\ (B!Mishap <=> DB!Mishap)
    BY DEF B!Mishap, B!Kill, B!Age, B!Late, B!Alarm, B!AlarmDue, B!AtRead, B!Reading,
           B!Die, B!WaitGivesUp, B!OnDescriptor, B!Fault, B!Exit, B!NextOf,
           B!outVars, B!inVars, B!dbVars, B!hostVars, B!netVars, DB!Mishap, DB!Kill,
           DB!Age, DB!Late, DB!Alarm, DB!AlarmDue, DB!AtRead, DB!Reading, DB!Die,
           DB!WaitGivesUp, DB!OnDescriptor, DB!Fault, DB!Exit, DB!NextOf, DB!outVars,
           DB!inVars, DB!dbVars, DB!hostVars, DB!netVars
  <1>10. /\ (B!Start <=> DB!Start) /\ (B!LoginDone <=> DB!LoginDone)
    BY <1>1
       DEF B!Start, B!LoginDone, B!Reads, B!Kind, B!Bare, B!Prompt, B!Exit, B!Asked,
           B!Just, B!Says, B!Begin, B!Listed, B!Listings, B!outVars, B!inVars,
           B!dbVars, B!hostVars, B!netVars, DB!Start, DB!LoginDone, DB!Reads,
           DB!Kind, DB!Bare, DB!Prompt, DB!Exit, DB!Asked, DB!Just, DB!Says,
           DB!Begin, DB!Listed, DB!Listings, DB!outVars, DB!inVars, DB!dbVars,
           DB!hostVars, DB!netVars
  <1>11. B!Greeting = DB!Greeting
    BY DEF B!Greeting, DB!Greeting, B!Just, DB!Just
  <1>12. QED
    BY <1>3, <1>4, <1>5, <1>6, <1>7, <1>8, <1>9, <1>10, <1>11 DEF B!Work, DB!Work

(* What the client's end says of the daemon is what the daemon's end says of *)
(* itself, and the mail to the one is the mail from the other.               *)
LEMMA Turned ==
    /\ A!TypeOK <=> DA!TypeOK
    /\ B!TypeOK <=> DB!TypeOK
    /\ DA!Sound <=> DB!Sound
    /\ DA!Session <=> DB!Session
    /\ DA!P!TypeOK <=> DB!TypeOK
    /\ DA!P!Distinct <=> DB!Distinct
    /\ DA!P!UnansweredKept <=> DB!UnansweredKept
    /\ DA!Out!Forth <=> DB!In!Forth
    /\ DA!In!Back <=> DB!Out!Back
    /\ DA!In!Safe <=> DB!Out!Safe
    /\ DA!Out!Safe <=> DB!In!Safe
    /\ DA!In!Untaken <=> DB!Out!Untaken
    /\ DA!Out!Untaken <=> DB!In!Untaken
    /\ DA!varsP = varsB
    /\ DB!varsP = varsA
  <1>1. /\ A!TypeOK <=> DA!TypeOK
        /\ B!TypeOK <=> DB!TypeOK
        /\ DA!TypeOK <=> DB!P!TypeOK
        /\ DB!TypeOK <=> DA!P!TypeOK
    BY DEF A!TypeOK, A!PC, A!Line, A!Bare, A!Prompt, A!Answer, B!TypeOK, B!PC,
           B!Line, B!Bare, B!Prompt, B!Answer, DA!TypeOK, DA!PC, DA!Line, DA!Bare,
           DA!Prompt, DA!Answer, DB!TypeOK, DB!PC, DB!Line, DB!Bare, DB!Prompt,
           DB!Answer, DA!P!TypeOK, DA!P!PC, DA!P!Line, DA!P!Bare, DA!P!Prompt,
           DA!P!Answer, DB!P!TypeOK, DB!P!PC, DB!P!Line, DB!P!Bare, DB!P!Prompt,
           DB!P!Answer
  <1>2. /\ DA!Distinct <=> DB!P!Distinct
        /\ DB!Distinct <=> DA!P!Distinct
        /\ DA!UnansweredKept <=> DB!P!UnansweredKept
        /\ DB!UnansweredKept <=> DA!P!UnansweredKept
    BY DEF DA!Distinct, DA!UnansweredKept, DA!InSession, DB!Distinct,
           DB!UnansweredKept, DB!InSession, DA!P!Distinct, DA!P!UnansweredKept,
           DA!P!InSession, DB!P!Distinct, DB!P!UnansweredKept, DB!P!InSession
  <1>3. DA!In!Talk <=> DB!Out!Talk
    BY DEF DA!In!Size, DA!In!SizeOf, DA!In!Proposed, DA!In!First, DA!In!Rest,
           DA!In!Carries, DA!In!OneToOne, DA!In!Greets, DA!In!Asked, DA!In!Before,
           DA!In!Reached, DA!In!Commands, DA!In!Complete, DA!In!Transmits,
           DA!In!Declined, DA!In!Talk, DB!Out!Size, DB!Out!SizeOf, DB!Out!Proposed,
           DB!Out!First, DB!Out!Rest, DB!Out!Carries, DB!Out!OneToOne, DB!Out!Greets,
           DB!Out!Asked, DB!Out!Before, DB!Out!Reached, DB!Out!Commands,
           DB!Out!Complete, DB!Out!Transmits, DB!Out!Declined, DB!Out!Talk, DA!RoleP, DB!RoleP
  <1>5. (DA!In!Forth <=> DB!Out!Forth) /\ (DA!In!Back <=> DB!Out!Back)
    BY DEF DA!In!Forth, DA!In!Back, DA!In!Told, DA!In!Size, DA!In!SizeOf,
           DA!In!First, DA!In!Rest, DA!In!Carries, DA!In!OneToOne, DB!Out!Forth,
           DB!Out!Back, DB!Out!Told, DB!Out!Size, DB!Out!SizeOf, DB!Out!First,
           DB!Out!Rest, DB!Out!Carries, DB!Out!OneToOne
  <1>7. (DA!In!Safe <=> DB!Out!Safe) /\ (DA!In!Untaken <=> DB!Out!Untaken)
    BY DEF DA!In!Safe, DA!In!Flagged, DA!In!Refused, DA!In!InFlight,
           DA!In!TakenR, DA!In!DeliveredR, DA!In!Untaken, DA!In!Size, DA!In!SizeOf, DA!In!Proposed,
           DB!Out!Safe, DB!Out!Flagged, DB!Out!Refused, DB!Out!InFlight,
           DB!Out!TakenR, DB!Out!DeliveredR, DB!Out!Untaken, DB!Out!Size, DB!Out!SizeOf,
           DB!Out!Proposed
  <1>4. DA!Out!Talk <=> DB!In!Talk
    BY DEF DA!Out!Size, DA!Out!SizeOf, DA!Out!Proposed, DA!Out!First, DA!Out!Rest,
           DA!Out!Carries, DA!Out!OneToOne, DA!Out!Greets, DA!Out!Asked,
           DA!Out!Before, DA!Out!Reached, DA!Out!Commands, DA!Out!Complete,
           DA!Out!Transmits, DA!Out!Declined, DA!Out!Talk, DB!In!Size, DB!In!SizeOf,
           DB!In!Proposed, DB!In!First, DB!In!Rest, DB!In!Carries, DB!In!OneToOne,
           DB!In!Greets, DB!In!Asked, DB!In!Before, DB!In!Reached, DB!In!Commands,
           DB!In!Complete, DB!In!Transmits, DB!In!Declined, DB!In!Talk, DA!RoleP, DB!RoleP
  <1>6. (DA!Out!Forth <=> DB!In!Forth) /\ (DA!Out!Back <=> DB!In!Back)
    BY DEF DA!Out!Forth, DA!Out!Back, DA!Out!Told, DA!Out!Size, DA!Out!SizeOf,
           DA!Out!First, DA!Out!Rest, DA!Out!Carries, DA!Out!OneToOne, DB!In!Forth,
           DB!In!Back, DB!In!Told, DB!In!Size, DB!In!SizeOf, DB!In!First, DB!In!Rest,
           DB!In!Carries, DB!In!OneToOne
  <1>8. (DA!Out!Safe <=> DB!In!Safe) /\ (DA!Out!Untaken <=> DB!In!Untaken)
    BY DEF DA!Out!Safe, DA!Out!Flagged, DA!Out!Refused, DA!Out!InFlight,
           DA!Out!TakenR, DA!Out!DeliveredR, DA!Out!Untaken, DA!Out!Size, DA!Out!SizeOf,
           DA!Out!Proposed, DB!In!Safe, DB!In!Flagged, DB!In!Refused, DB!In!InFlight,
           DB!In!TakenR, DB!In!DeliveredR, DB!In!Untaken, DB!In!Size, DB!In!SizeOf, DB!In!Proposed
  <1>9. DA!Sound <=> DB!Sound
    BY <1>1, <1>2 DEF DA!Sound, DB!Sound
  <1>10. DA!Session <=> DB!Session
    BY <1>3, <1>4, <1>5, <1>6 DEF DA!Session, DB!Session
  <1>11. DA!varsP = varsB /\ DB!varsP = varsA
    BY DEF DA!varsP, DB!varsP, varsA, varsB
  <1>12. QED
    BY <1>1, <1>2, <1>5, <1>6, <1>7, <1>8, <1>9, <1>10, <1>11

(* So is the start of the daemon.                                            *)
LEMMA PeerStarts == (B!Start <=> DA!P!Start) /\ B!Greeting = DA!P!Greeting
  <1>1. \A S : B!Cardinality(S) = DA!P!Cardinality(S)
    BY DEF B!Cardinality, DA!P!Cardinality
  <1>2. B!Start <=> DA!P!Start
    BY <1>1
       DEF B!Start, B!Begin, B!Listed, B!Listings, B!outVars, B!inVars, B!dbVars,
           B!hostVars, DA!P!Start, DA!P!Begin, DA!P!Listed, DA!P!Listings,
           DA!P!outVars, DA!P!inVars, DA!P!dbVars, DA!P!hostVars, DA!RoleP
  <1>3. B!Greeting = DA!P!Greeting
    BY DEF B!Greeting, DA!P!Greeting, B!Just, DA!P!Just, DA!RoleP
  <1>4. QED
    BY <1>2, <1>3

-------------------------------------------------------------------------------
(* The session of the two.                                                   *)

(* What holds of the two whatever goes wrong.                                *)
Inv == DA!Sound /\ DA!Session

(* Inv from the daemon's side.                                               *)
LEMMA InvTurned == Inv <=> DB!Sound /\ DB!Session
  BY Turned DEF Inv

(* Both programs are being started (Connect).                                *)
Begins == /\ DA!Start /\ DB!Start /\ DA!P!Start
          /\ link' = "up" /\ toA' = DA!P!Greeting /\ toB' = DA!Greeting

(* A step of the two is one of either, seen from its end of the dialogue.    *)
LEMMA Steps ==
    ASSUME Inv, [Next]_vars
    PROVE  \/ (DA!Work \/ DA!Mishap) /\ UNCHANGED DA!varsP
           \/ (DB!Work \/ DB!Mishap) /\ UNCHANGED DB!varsP
           \/ Begins
           \/ DA!Cut /\ DB!Cut /\ aheadA =< Len(toA')
           \/ DA!Stops /\ pcA = "wait" /\ UNCHANGED DA!varsP
           \/ DB!Stops /\ UNCHANGED DB!varsP
           \/ DA!Still /\ DB!Still
  <1>1. CASE WorkA \/ MishapA
    BY <1>1, ClientSteps DEF WorkA, MishapA, DA!varsP, varsB
  <1>2. CASE WorkB \/ MishapB
    BY <1>2, DaemonSteps DEF WorkB, MishapB, DB!varsP, varsA
  <1>3. CASE Connect
    BY <1>3, ClientSteps, DaemonSteps, PeerStarts DEF Connect, Begins
  <1>4. CASE Drop
    <2>1. /\ toA \in Seq(DA!Line) /\ toB \in Seq(DA!Line) /\ faults \in 0..MaxFaults
          /\ aheadA \in Nat /\ aheadB \in Nat
      BY DEF Inv, DA!Sound, DA!TypeOK, DA!P!TypeOK
    <2>2. Len(toA) \in Nat /\ Len(toB) \in Nat
      BY <2>1
    <2>3. faults' \in 0..MaxFaults
      BY <1>4, <2>1, PairAssumption DEF Drop, A!Fault
    <2>4. \E n \in 0..Len(toA) : toA' = SubSeq(toA, 1, n)
      BY <1>4, <2>1, <2>2 DEF Drop
    <2>5. \E n \in 0..Len(toB) : toB' = SubSeq(toB, 1, n)
      <3>1. PICK n \in aheadB .. Len(toB) : toB' = SubSeq(toB, 1, n)
        BY <1>4 DEF Drop
      <3>2. n \in 0..Len(toB)
        BY <2>1, <2>2
      <3>3. QED
        BY <3>1, <3>2
    <2>6. link' = "closed" /\ UNCHANGED <<varsA, varsB>>
      BY <1>4 DEF Drop
    <2>7. DA!Cut
      BY <2>3, <2>4, <2>5, <2>6 DEF DA!Cut, DA!varsP, varsA, varsB
    <2>8. DB!Cut
      BY <2>3, <2>4, <2>5, <2>6 DEF DB!Cut, DB!varsP, varsA, varsB
    <2>9. aheadA =< Len(toA')
      <3>1. PICK n \in aheadA .. Len(toA) : toA' = SubSeq(toA, 1, n)
        BY <1>4 DEF Drop
      <3>2. n \in 0..Len(toA) /\ aheadA =< n
        BY <2>1, <2>2
      <3>3. Len(toA') = n
        BY <2>1, <2>2, <3>1, <3>2
      <3>4. QED
        BY <3>2, <3>3
    <2>10. QED
      BY <2>7, <2>8, <2>9
  <1>5. CASE StallEnds
    <2>1. CASE A!WaitGivesUp /\ UNCHANGED varsB
      <3>1. DA!Stops
        BY <1>5, <2>1 DEF StallEnds, A!WaitGivesUp, A!Exit, DA!Stops, DA!Exit, A!outVars,
           A!inVars, A!dbVars, A!hostVars, DA!outVars, DA!inVars, DA!dbVars, DA!hostVars
      <3>2. QED
        BY <2>1, <3>1 DEF A!WaitGivesUp, DA!varsP, varsB
    <2>2. CASE B!Alarm /\ UNCHANGED varsA
      <3>1. pcB # "record"
        BY <1>5 DEF StallEnds, Stalled, BlockedB, B!AtRead, B!Reading
      <3>2. DB!Stops
        BY <1>5, <2>2, <3>1 DEF StallEnds, B!Alarm, B!Die, B!Exit, DB!Stops, DB!Exit,
           B!outVars, B!inVars, B!hostVars, DB!outVars, DB!inVars, DB!dbVars, DB!hostVars
      <3>3. QED
        BY <2>2, <3>2 DEF DB!varsP, varsA
    <2>3. QED
      BY <1>5, <2>1, <2>2 DEF StallEnds
  <1>6. CASE UNCHANGED vars
    BY <1>6 DEF vars, varsA, varsB, DA!Still, DB!Still, DA!varsP, DB!varsP
  <1>7. QED
    BY <1>1, <1>2, <1>3, <1>4, <1>5, <1>6 DEF Next

(* What is said first are lines.                                             *)
LEMMA GreetingLines ==
    /\ DA!P!Greeting \in Seq(DA!Line) /\ DA!Greeting \in Seq(DA!Line)
    /\ DA!P!Greeting \in Seq(DB!Line) /\ DA!Greeting \in Seq(DB!Line)
  <1>1. /\ [t |-> "SID"] \in DA!Line /\ [t |-> "?"] \in DA!Line /\ [t |-> ">"] \in DA!Line
        /\ [t |-> "SID"] \in DB!Line /\ [t |-> "?"] \in DB!Line /\ [t |-> ">"] \in DB!Line
    BY DEF DA!Line, DA!Bare, DB!Line, DB!Bare
  <1>2. DA!Greeting = <<>>
    BY DEF DA!Greeting
  <1>3. DA!P!Greeting = <<[t |-> "SID"]>> \o <<[t |-> "?"]>> \o <<[t |-> ">"]>>
    BY DEF DA!P!Greeting, DA!P!Just, DA!RoleP
  <1>4. QED
    BY <1>1, <1>2, <1>3

(* Before the first session.                                                 *)
LEMMA InitInv == Init => Inv
  <1> SUFFICES ASSUME Init PROVE Inv
    OBVIOUS
  <1>1. /\ A!HostInit /\ B!HostInit
        /\ toA = <<>> /\ toB = <<>> /\ link = "closed" /\ faults = MaxFaults
    BY DEF Init
  <1>2. DA!TypeOK /\ DA!P!TypeOK
    <2>1. \A S : <<>> \in Seq(S) /\ Len(<<>>) = 0
      OBVIOUS
    <2>2. DA!TypeOK
      BY <1>1, <2>1, PairAssumption DEF A!HostInit, DA!TypeOK, DA!PC
    <2>3. DA!P!TypeOK
      BY <1>1, <2>1, PairAssumption DEF B!HostInit, DA!P!TypeOK, DA!P!PC
    <2>4. QED
      BY <2>2, <2>3
  <1>3. /\ DA!Distinct /\ DA!P!Distinct
        /\ DA!UnansweredKept /\ DA!P!UnansweredKept
    BY <1>1 DEF A!HostInit, B!HostInit, DA!Distinct, DA!P!Distinct, DA!UnansweredKept,
       DA!P!UnansweredKept, DA!InSession, DA!P!InSession
  <1>4. DA!Session
    BY <1>1 DEF A!HostInit, B!HostInit, DA!Session, DA!In!Forth, DA!In!Back, DA!Out!Forth,
       DA!Out!Back
  <1>5. QED
    BY <1>2, <1>3, <1>4 DEF Inv, DA!Sound

(* Whoever takes a step, both keep to the session.                           *)
LEMMA NextInv == Inv /\ [Next]_vars => Inv'
  <1> SUFFICES ASSUME Inv, [Next]_vars PROVE Inv'
    OBVIOUS
  <1>1. DB!Sound /\ DB!Session
    BY InvTurned
  <1>2. DB!Sound' /\ DB!Session' => Inv'
    <2>1. (Inv <=> DB!Sound /\ DB!Session)'
      BY InvTurned, PTL
    <2>2. QED
      BY <2>1
  <1>3. CASE (DA!Work \/ DA!Mishap) /\ UNCHANGED DA!varsP
    BY <1>3, Constants, DA!DialogueStep DEF Inv
  <1>4. CASE (DB!Work \/ DB!Mishap) /\ UNCHANGED DB!varsP
    BY <1>1, <1>2, <1>4, Constants, DB!DialogueStep
  <1>5. CASE DA!Stops /\ UNCHANGED DA!varsP
    BY <1>5, Constants, DA!StopStep DEF Inv
  <1>6. CASE DB!Stops /\ UNCHANGED DB!varsP
    BY <1>1, <1>2, <1>6, Constants, DB!StopStep
  <1>7. CASE DA!Cut /\ DB!Cut
    <2>1. /\ DA!Sound' /\ DA!In!Forth' /\ DA!Out!Back' /\ (toA' = <<>> \/ toB' = <<>>)
      BY <1>7, Constants, DA!DropStep DEF Inv
    <2>2. DB!In!Forth' /\ DB!Out!Back'
      BY <1>1, <1>7, Constants, DB!DropStep
    <2>3. (DA!Out!Forth <=> DB!In!Forth)' /\ (DA!In!Back <=> DB!Out!Back)'
      BY Turned, PTL
    <2>4. link' # "up"
      BY <1>7 DEF DA!Cut
    <2>5. QED
      BY <2>1, <2>2, <2>3, <2>4 DEF Inv, DA!Session
  <1>8. CASE Begins
    <2>1. DA!Session'
      BY <1>8, Constants, DA!GreetingStep DEF Begins
    <2>2. DA!Sound'
      <3>1. DA!TypeOK' /\ DB!TypeOK'
        <4>1. /\ toA' \in Seq(DA!Line) /\ toB' \in Seq(DA!Line)
              /\ toA' \in Seq(DB!Line) /\ toB' \in Seq(DB!Line)
          BY <1>8, GreetingLines DEF Begins
        <4>2. DA!TypeOK'
          BY <1>8, <4>1, Constants, DA!StartType DEF Begins, Inv, DA!Sound
        <4>3. DB!TypeOK'
          BY <1>1, <1>8, <4>1, Constants, DB!StartType DEF Begins, DB!Sound
        <4>4. QED
          BY <4>2, <4>3
      <3>2. DA!Distinct' /\ DA!UnansweredKept'
        BY <1>8, <3>1, Constants, DA!UnansweredStep DEF Begins, Inv, DA!Sound
      <3>3. DB!Distinct' /\ DB!UnansweredKept'
        BY <1>1, <1>8, <3>1, Constants, DB!UnansweredStep DEF Begins, DB!Sound
      <3>4. QED
        <4>1. /\ (DA!P!TypeOK <=> DB!TypeOK)'
              /\ (DA!P!Distinct <=> DB!Distinct)'
              /\ (DA!P!UnansweredKept <=> DB!UnansweredKept)'
          BY Turned, PTL
        <4>2. QED
          BY <3>1, <3>2, <3>3, <4>1 DEF DA!Sound
    <2>3. QED
      BY <2>1, <2>2 DEF Inv
  <1>9. CASE DA!Still
    BY <1>9, Constants, DA!StillStep DEF Inv
  <1>10. QED
    BY <1>3, <1>4, <1>5, <1>6, <1>7, <1>8, <1>9, Steps

-------------------------------------------------------------------------------
(* The theorems.                                                             *)

(* Both endpoints stay in the phases of a session, whatever the link and the *)
(* hosts do to it, and each one's state says what the other may be doing     *)
(* (wl2k_exchange, wl2kd_exchange).                                          *)
THEOREM SessionKept == Spec => []Inv
  <1>1. Init => Inv
    BY InitInv
  <1>2. Inv /\ [Next]_vars => Inv'
    BY NextInv
  <1>3. QED
    BY <1>1, <1>2, PTL DEF Spec

(* The variables of both keep their types.                                   *)
THEOREM TypesKept == Spec => []TypeOK
  <1>1. Inv => TypeOK
    BY Turned DEF Inv, DA!Sound, TypeOK
  <1>2. QED
    BY <1>1, SessionKept, PTL

(* The line is half-duplex: what a program writes is never written while     *)
(* something it has not read is on its way to it (wl2k_exchange).            *)
THEOREM NeverBothTalk == Spec => []HalfDuplex
  <1>1. Inv => HalfDuplex
    BY DEF Inv, DA!Session, HalfDuplex
  <1>2. QED
    BY <1>1, SessionKept, PTL

-------------------------------------------------------------------------------
(* What is delivered, at either end, is accounted for in the MID database.   *)
BothStored == DA!Stored /\ DB!Stored

(* Every step of the two keeps it so (record_mid, check_mid).                *)
LEMMA StoredSteps == Inv /\ BothStored /\ [Next]_vars => BothStored'
  <1> SUFFICES ASSUME Inv, BothStored, [Next]_vars PROVE BothStored'
    OBVIOUS
  <1>1. DB!Sound /\ DB!Session
    BY InvTurned
  <1>2. DA!TypeOK /\ DA!In!Forth /\ DB!TypeOK /\ DB!In!Forth
    BY <1>1 DEF Inv, DA!Sound, DA!Session, DB!Sound, DB!Session
  <1>3. CASE (DA!Work \/ DA!Mishap) /\ UNCHANGED DA!varsP
    <2>1. DA!Stored'
      BY <1>2, <1>3, Constants, DA!StoredStep DEF BothStored
    <2>2. DB!Stored'
      BY <1>3, Constants, DB!HostStill DEF BothStored, DA!varsP
    <2>3. QED
      BY <2>1, <2>2 DEF BothStored
  <1>4. CASE (DB!Work \/ DB!Mishap) /\ UNCHANGED DB!varsP
    <2>1. DB!Stored'
      BY <1>2, <1>4, Constants, DB!StoredStep DEF BothStored
    <2>2. DA!Stored'
      BY <1>4, Constants, DA!HostStill DEF BothStored, DB!varsP
    <2>3. QED
      BY <2>1, <2>2 DEF BothStored
  <1>5. CASE Begins
    BY <1>2, <1>5, Constants, DA!StoredStep, DB!StoredStep DEF BothStored, Begins
  <1>6. CASE DA!Cut /\ DB!Cut
    BY <1>1, <1>6, Constants, DA!DropStep, DB!DropStep DEF Inv, BothStored
  <1>7. CASE DA!Stops /\ UNCHANGED DA!varsP
    <2>1. DA!Stored'
      BY <1>7, Constants, DA!StopStep DEF Inv, BothStored
    <2>2. DB!Stored'
      BY <1>7, Constants, DB!HostStill DEF BothStored, DA!varsP
    <2>3. QED
      BY <2>1, <2>2 DEF BothStored
  <1>8. CASE DB!Stops /\ UNCHANGED DB!varsP
    <2>1. DB!Stored'
      BY <1>1, <1>8, Constants, DB!StopStep DEF BothStored
    <2>2. DA!Stored'
      BY <1>8, Constants, DA!HostStill DEF BothStored, DB!varsP
    <2>3. QED
      BY <2>1, <2>2 DEF BothStored
  <1>9. CASE DA!Still /\ DB!Still
    BY <1>9, Constants, DA!StillStep, DB!StillStep DEF BothStored
  <1>10. QED
    BY <1>3, <1>4, <1>5, <1>6, <1>7, <1>8, <1>9, Steps

(* A message is delivered twice only if a copy of it was delivered without   *)
(* its MID being stored, or the MID had expired (check_mid, record_mid),     *)
(* whatever fails.                                                           *)
THEOREM DuplicatesExplained == Spec => []NoDuplicate
  <1>1. Init => BothStored
    BY DEF Init, A!HostInit, B!HostInit, BothStored, DA!Stored, DB!Stored
  <1>2. Inv /\ BothStored /\ [Next]_vars => BothStored'
    BY StoredSteps
  <1>3. BothStored => NoDuplicate
    BY DEF BothStored, DA!Stored, DB!Stored, NoDuplicate
  <1>4. QED
    BY <1>1, <1>2, <1>3, SessionKept, PTL DEF Spec

(* There are no orphans, nor expired MIDs.                                   *)
NoOrphans == oldA = {} /\ orphanA = {} /\ oldB = {} /\ orphanB = {}

(* Nothing makes one, if no process is killed, no alarm strikes, the MID     *)
(* database neither fails nor expires.                                       *)
LEMMA NoOrphansStep ==
    ASSUME Faults \cap {"kill", "timeout", "db", "age"} = {}
    PROVE  Inv /\ NoOrphans /\ [Next]_vars => NoOrphans'
  <1> SUFFICES ASSUME Inv, NoOrphans, [Next]_vars PROVE NoOrphans'
    OBVIOUS
  <1>1. DA!TypeOK /\ DB!TypeOK
    BY Turned DEF Inv, DA!Sound, DB!Sound
  <1>2. CASE (DA!Work \/ DA!Mishap) /\ UNCHANGED DA!varsP
    BY <1>1, <1>2, Constants, DA!NoOrphanStep DEF NoOrphans, DA!varsP
  <1>3. CASE (DB!Work \/ DB!Mishap) /\ UNCHANGED DB!varsP
    BY <1>1, <1>3, Constants, DB!NoOrphanStep DEF NoOrphans, DB!varsP
  <1>4. CASE Begins
    BY <1>1, <1>4, Constants, DA!NoOrphanStep, DB!NoOrphanStep DEF NoOrphans, Begins
  <1>5. CASE DA!Cut
    BY <1>5 DEF DA!Cut, DA!varsP, NoOrphans
  <1>6. CASE DA!Stops /\ UNCHANGED DA!varsP
    BY <1>6 DEF DA!Stops, DA!dbVars, DA!varsP, NoOrphans
  <1>7. CASE DB!Stops /\ UNCHANGED DB!varsP
    BY <1>7 DEF DB!Stops, DB!dbVars, DB!varsP, NoOrphans
  <1>8. CASE DA!Still
    BY <1>8 DEF DA!Still, DA!varsP, NoOrphans
  <1>9. QED
    BY <1>2, <1>3, <1>4, <1>5, <1>6, <1>7, <1>8, Steps

(* If only the link, sendmail and unlink() fail, no message is delivered     *)
(* twice (check_mid, record_mid).                                            *)
THEOREM DeliveredAtMostOnce ==
    ASSUME Faults \cap {"kill", "timeout", "db", "age"} = {}
    PROVE  Spec => []AtMostOnce
  <1>1. Init => NoOrphans
    BY DEF Init, A!HostInit, B!HostInit, NoOrphans
  <1>2. Inv /\ NoOrphans /\ [Next]_vars => NoOrphans'
    BY NoOrphansStep
  <1>3. Inv /\ NoOrphans /\ NoDuplicate => AtMostOnce
    <2> SUFFICES ASSUME Inv, NoOrphans, NoDuplicate, NEW m \in Msg
                 PROVE  mailboxA[m] =< 1 /\ mailboxB[m] =< 1
      BY DEF AtMostOnce
    <2>1. mailboxA[m] \in Nat /\ mailboxB[m] \in Nat
      BY DEF Inv, DA!Sound, DA!TypeOK, DA!P!TypeOK
    <2>2. ~(mailboxA[m] > 1) /\ ~(mailboxB[m] > 1)
      BY DEF NoOrphans, NoDuplicate
    <2>3. QED
      BY <2>1, <2>2
  <1>4. QED
    BY <1>1, <1>2, <1>3, SessionKept, DuplicatesExplained, PTL DEF Spec

-------------------------------------------------------------------------------
(* What is in the MID database of either end was composed there, or counts   *)
(* as delivered there.                                                       *)
BothRecorded == DA!Recorded /\ DB!Recorded

(* Every step of the two keeps it so (inbound_parser).                       *)
LEMMA RecordedSteps == Inv /\ BothRecorded /\ [Next]_vars => BothRecorded'
  <1> SUFFICES ASSUME Inv, BothRecorded, [Next]_vars PROVE BothRecorded'
    OBVIOUS
  <1>1. DB!Sound /\ DB!Session
    BY InvTurned
  <1>2. DA!TypeOK /\ DA!In!Forth /\ DB!TypeOK /\ DB!In!Forth
    BY <1>1 DEF Inv, DA!Sound, DA!Session, DB!Sound, DB!Session
  <1>3. CASE (DA!Work \/ DA!Mishap) /\ UNCHANGED DA!varsP
    <2>1. DA!Recorded'
      BY <1>2, <1>3, Constants, DA!RecordedStep DEF BothRecorded
    <2>2. DB!Recorded'
      BY <1>3, Constants, DB!HostStill DEF BothRecorded, DA!varsP
    <2>3. QED
      BY <2>1, <2>2 DEF BothRecorded
  <1>4. CASE (DB!Work \/ DB!Mishap) /\ UNCHANGED DB!varsP
    <2>1. DB!Recorded'
      BY <1>2, <1>4, Constants, DB!RecordedStep DEF BothRecorded
    <2>2. DA!Recorded'
      BY <1>4, Constants, DA!HostStill DEF BothRecorded, DB!varsP
    <2>3. QED
      BY <2>1, <2>2 DEF BothRecorded
  <1>5. CASE Begins
    BY <1>2, <1>5, Constants, DA!RecordedStep, DB!RecordedStep DEF BothRecorded, Begins
  <1>6. CASE DA!Cut /\ DB!Cut
    BY <1>1, <1>6, Constants, DA!DropStep, DB!DropStep DEF Inv, BothRecorded
  <1>7. CASE DA!Stops /\ UNCHANGED DA!varsP
    <2>1. DA!Recorded'
      BY <1>7, Constants, DA!StopStep DEF Inv, BothRecorded
    <2>2. DB!Recorded'
      BY <1>7, Constants, DB!HostStill DEF BothRecorded, DA!varsP
    <2>3. QED
      BY <2>1, <2>2 DEF BothRecorded
  <1>8. CASE DB!Stops /\ UNCHANGED DB!varsP
    <2>1. DB!Recorded'
      BY <1>1, <1>8, Constants, DB!StopStep DEF Inv, BothRecorded
    <2>2. DA!Recorded'
      BY <1>8, Constants, DA!HostStill DEF BothRecorded, DB!varsP
    <2>3. QED
      BY <2>1, <2>2 DEF BothRecorded
  <1>9. CASE DA!Still /\ DB!Still
    BY <1>9, Constants, DA!StillStep, DB!StillStep DEF BothRecorded
  <1>10. QED
    BY <1>3, <1>4, <1>5, <1>6, <1>7, <1>8, <1>9, Steps

(* The databases, session after session.                                     *)
LEMMA RecordedAlways == Spec => []BothRecorded
  <1>1. Init => BothRecorded
    BY DEF Init, A!HostInit, B!HostInit, BothRecorded, DA!Recorded, DB!Recorded
  <1>2. Inv /\ BothRecorded /\ [Next]_vars => BothRecorded'
    BY RecordedSteps
  <1>3. QED
    BY <1>1, <1>2, SessionKept, PTL DEF Spec

(* A MID in the database was composed here or delivered here, or sendmail    *)
(* failed on that very message and its status was lost: the proposal         *)
(* recorded is the message that was transmitted (inbound_parser,             *)
(* record_mid), whatever fails.                                              *)
THEOREM RecordedWasDelivered == Spec => []RecordedIsDelivered
  <1>1. BothRecorded => RecordedIsDelivered
    BY DEF BothRecorded, DA!Recorded, DB!Recorded, DA!In!TakenR, DB!In!TakenR,
       DA!In!DeliveredR, DB!In!DeliveredR, RecordedIsDelivered, DeliveredAtA, DeliveredAtB
  <1>2. QED
    BY <1>1, RecordedAlways, PTL

-------------------------------------------------------------------------------
(* Where the messages of both directions are.                                *)
BothSafe == DA!In!Safe /\ DA!Out!Safe

(* BothSafe from the daemon's side.                                          *)
LEMMA SafeTurned == BothSafe <=> DB!In!Safe /\ DB!Out!Safe
  BY Turned DEF BothSafe

(* The session is sound seen from either side.                               *)
LEMMA InvSound == Inv => DA!Sound /\ DB!Sound
  BY Turned DEF Inv

(* No step of either, fault or cut makes a message disappear from between    *)
(* the outbox and what the peer counts as delivered (getcompressed,          *)
(* dodelete).                                                                *)
LEMMA SafeSteps == Inv /\ BothRecorded /\ BothSafe /\ [Next]_vars => BothSafe'
  <1> SUFFICES ASSUME Inv, BothRecorded, BothSafe, [Next]_vars PROVE BothSafe'
    OBVIOUS
  <1>1. Inv' /\ DA!Sound' /\ DB!Sound'
    <2>1. Inv'
      BY NextInv
    <2>2. (Inv => DA!Sound /\ DB!Sound)'
      BY InvSound, PTL
    <2>3. QED
      BY <2>1, <2>2
  <1>2. DB!Sound /\ DB!Session /\ DB!In!Safe /\ DB!Out!Safe
    BY InvTurned, SafeTurned
  <1>3. DB!In!Safe' /\ DB!Out!Safe' => BothSafe'
    <2>1. (BothSafe <=> DB!In!Safe /\ DB!Out!Safe)'
      BY SafeTurned, PTL
    <2>2. QED
      BY <2>1
  <1>4. CASE (DA!Work \/ DA!Mishap) /\ UNCHANGED DA!varsP
    BY <1>1, <1>4, Constants, DA!SafeStep DEF Inv, BothSafe, BothRecorded
  <1>5. CASE (DB!Work \/ DB!Mishap) /\ UNCHANGED DB!varsP
    BY <1>1, <1>2, <1>3, <1>5, Constants, DB!SafeStep DEF BothRecorded
  <1>6. CASE Begins
    BY <1>6, Constants, DA!GreetingStep DEF Begins, BothSafe
  <1>7. CASE DA!Cut
    BY <1>7, Constants, DA!DropStep DEF Inv, BothSafe
  <1>8. CASE DA!Stops /\ UNCHANGED DA!varsP
    BY <1>8, Constants, DA!StopStep DEF Inv, BothSafe
  <1>9. CASE DB!Stops /\ UNCHANGED DB!varsP
    BY <1>2, <1>3, <1>9, Constants, DB!StopStep
  <1>10. CASE DA!Still
    BY <1>10, Constants, DA!StillStep DEF BothSafe
  <1>11. QED
    BY <1>4, <1>5, <1>6, <1>7, <1>8, <1>9, <1>10, Steps

(* The messages, session after session.                                      *)
LEMMA SafeAlways == Spec => []BothSafe
  <1>1. Init => BothSafe
    <2> SUFFICES ASSUME Init PROVE BothSafe
      OBVIOUS
    <2>1. /\ A!HostInit /\ B!HostInit /\ link = "closed"
          /\ toA = <<>> /\ toB = <<>>
      BY DEF Init
    <2>2. 1..Len(toA) = {} /\ 1..Len(toB) = {}
      BY <2>1
    <2>3. DA!In!Safe
      BY <2>1, <2>2 DEF A!HostInit, B!HostInit, DA!In!Safe, DA!In!Flagged, DA!In!Refused,
         DA!In!InFlight
    <2>4. DA!Out!Safe
      BY <2>1, <2>2 DEF A!HostInit, B!HostInit, DA!Out!Safe, DA!Out!Flagged, DA!Out!Refused,
         DA!Out!InFlight
    <2>5. QED
      BY <2>3, <2>4 DEF BothSafe
  <1>2. Inv /\ BothRecorded /\ BothSafe /\ [Next]_vars => BothSafe'
    BY SafeSteps
  <1>3. QED
    BY <1>1, <1>2, SessionKept, RecordedAlways, PTL DEF Spec

(* No message is lost: one that is gone from the sender's outbox has been    *)
(* handed to sendmail at the other end (dodelete), or is one of those whose  *)
(* check_mid() failed or whose failed sendmail was taken for a success,      *)
(* whatever fails.                                                           *)
THEOREM NothingLost == Spec => []NoLoss
  <1>1. BothSafe => NoLoss
    BY DEF BothSafe, DA!In!Safe, DA!Out!Safe, DA!In!TakenR, DA!Out!TakenR,
       DA!In!DeliveredR, DA!Out!DeliveredR, NoLoss, DeliveredAtA, DeliveredAtB
  <1>2. QED
    BY <1>1, SafeAlways, PTL

-------------------------------------------------------------------------------
(* The abstract transfer, in both directions.                                *)

(* Nothing counts as delivered that was not.                                 *)
NoneMissed == missedA = {} /\ missedB = {}

(* Nothing does as long as the MID database works and sendmail's status is   *)
(* not lost (check_mid, inbound_parser).                                     *)
LEMMA MissedSteps ==
    ASSUME "reap" \notin Faults, "db" \notin Faults
    PROVE  NoneMissed /\ [Next]_vars /\ Inv => NoneMissed'
  <1> SUFFICES ASSUME NoneMissed, [Next]_vars, Inv PROVE NoneMissed'
    OBVIOUS
  <1>0. DA!TypeOK /\ DB!TypeOK
    BY Turned DEF Inv, DA!Sound
  <1>1. CASE (DA!Work \/ DA!Mishap) /\ UNCHANGED DA!varsP
    BY <1>0, <1>1, Constants, DA!MissedStep DEF NoneMissed, DA!varsP
  <1>2. CASE (DB!Work \/ DB!Mishap) /\ UNCHANGED DB!varsP
    BY <1>0, <1>2, Constants, DB!MissedStep DEF NoneMissed, DB!varsP
  <1>3. CASE Begins
    BY <1>3 DEF NoneMissed, Begins, DA!Start, DA!Begin, DB!Start, DB!Begin, DA!dbVars,
         DB!dbVars
  <1>4. CASE DA!Cut \/ DA!Still
    BY <1>4 DEF NoneMissed, DA!Cut, DA!Still, DA!varsP
  <1>5. CASE \/ DA!Stops /\ UNCHANGED DA!varsP
             \/ DB!Stops /\ UNCHANGED DB!varsP
    BY <1>5 DEF NoneMissed, DA!Stops, DA!dbVars, DA!varsP, DB!Stops, DB!dbVars, DB!varsP
  <1>6. QED
    BY <1>1, <1>2, <1>3, <1>4, <1>5, Steps

(* What a step does to the mail that is pending and delivered.               *)
LEMMA MailSteps ==
    ASSUME Inv, BothSafe, NoneMissed, [Next]_vars
    PROVE  \/ /\ UNCHANGED <<outboxB, mailboxB>>
              /\ \/ /\ UNCHANGED mailboxA /\ outboxA' \subseteq outboxA
                    /\ outboxA \subseteq outboxA' \cup DeliveredAtB
                 \/ /\ UNCHANGED outboxA
                    /\ \E m \in Msg : DeliveredAtA' = DeliveredAtA \cup {m}
           \/ /\ UNCHANGED <<outboxA, mailboxA>>
              /\ \/ /\ UNCHANGED mailboxB /\ outboxB' \subseteq outboxB
                    /\ outboxB \subseteq outboxB' \cup DeliveredAtA
                 \/ /\ UNCHANGED outboxB
                    /\ \E m \in Msg : DeliveredAtB' = DeliveredAtB \cup {m}
  <1>1. CASE (DA!Work \/ DA!Mishap) /\ UNCHANGED DA!varsP
    <2>1. UNCHANGED <<outboxB, mailboxB>>
      BY <1>1 DEF DA!varsP
    <2>2. DA!TypeOK /\ DA!Out!Back /\ DA!Out!Flagged
      BY DEF Inv, DA!Sound, DA!Session, BothSafe, DA!Out!Safe
    <2>3. outboxA' \subseteq outboxA /\ outboxA \subseteq outboxA' \cup DeliveredAtB
      <3>1. outboxA' = outboxA \/ DA!DoDelete
        BY <1>1, Constants, DA!OutboxStep
      <3>2. outboxA' \subseteq outboxA
        BY <3>1 DEF DA!DoDelete
      <3>3. outboxA' # outboxA => outboxA \subseteq outboxA' \cup DA!Out!TakenR
        BY <1>1, <2>2, Constants, DA!UnlinksDelivered
      <3>4. QED
        BY <3>2, <3>3 DEF DA!Out!TakenR, DA!Out!DeliveredR, DeliveredAtB, NoneMissed
    <2>4. \/ mailboxA' = mailboxA
          \/ /\ pcA = "receive" /\ DA!Receive
             /\ \E m \in Msg : DA!In!DeliveredR' = DA!In!DeliveredR \cup {m}
      BY <1>1, <2>2, Constants, DA!DeliversOne
    <2>5. DA!Receive => outboxA' = outboxA
      BY DEF DA!Receive
    <2>6. QED
      BY <2>1, <2>3, <2>4, <2>5 DEF DA!In!DeliveredR, DeliveredAtA
  <1>2. CASE (DB!Work \/ DB!Mishap) /\ UNCHANGED DB!varsP
    <2>1. UNCHANGED <<outboxA, mailboxA>>
      BY <1>2 DEF DB!varsP
    <2>2. DB!TypeOK /\ DB!Out!Back /\ DB!Out!Flagged
      <3>1. DB!Sound /\ DB!Session /\ DB!Out!Safe
        BY InvTurned, SafeTurned
      <3>2. QED
        BY <3>1 DEF DB!Sound, DB!Session, DB!Out!Safe
    <2>3. outboxB' \subseteq outboxB /\ outboxB \subseteq outboxB' \cup DeliveredAtA
      <3>1. outboxB' = outboxB \/ DB!DoDelete
        BY <1>2, Constants, DB!OutboxStep
      <3>2. outboxB' \subseteq outboxB
        BY <3>1 DEF DB!DoDelete
      <3>3. outboxB' # outboxB => outboxB \subseteq outboxB' \cup DB!Out!TakenR
        BY <1>2, <2>2, Constants, DB!UnlinksDelivered
      <3>4. QED
        BY <3>2, <3>3 DEF DB!Out!TakenR, DB!Out!DeliveredR, DeliveredAtA, NoneMissed
    <2>4. \/ mailboxB' = mailboxB
          \/ /\ pcB = "receive" /\ DB!Receive
             /\ \E m \in Msg : DB!In!DeliveredR' = DB!In!DeliveredR \cup {m}
      BY <1>2, <2>2, Constants, DB!DeliversOne
    <2>5. DB!Receive => outboxB' = outboxB
      BY DEF DB!Receive
    <2>6. QED
      BY <2>1, <2>3, <2>4, <2>5 DEF DB!In!DeliveredR, DeliveredAtB
  <1>3. CASE \/ Begins \/ (DA!Cut /\ DB!Cut) \/ DA!Still
             \/ DA!Stops /\ UNCHANGED DA!varsP
             \/ DB!Stops /\ UNCHANGED DB!varsP
    <2>1. UNCHANGED <<outboxA, mailboxA, outboxB, mailboxB>>
      BY <1>3 DEF Begins, DA!Start, DA!Begin, DA!hostVars, DB!Start, DB!Begin, DB!hostVars,
         DA!Cut, DA!Stops, DB!Stops, DA!Still, DA!varsP, DB!varsP
    <2>2. QED
      BY <2>1
  <1>4. QED
    BY <1>1, <1>2, <1>3, Steps

(* If a failed sendmail is never taken for a success and the MID database    *)
(* never fails, then each direction implements the abstract transfer: every  *)
(* message is handed over while its sender still has it, and only then       *)
(* removed (getcompressed, dodelete).                                        *)
THEOREM TransferImplemented ==
    ASSUME "reap" \notin Faults, "db" \notin Faults
    PROVE  Spec => Implements
  <1> DEFINE AB == [TransferAB!Next]_<<outboxA, DeliveredAtB \cap FromA>>
             BA == [TransferBA!Next]_<<outboxB \cap ForA, DeliveredAtA \cap ForA>>
  <1>1. Init => TransferAB!Init /\ TransferBA!Init
    BY PairAssumption DEF Init, A!HostInit, B!HostInit, TransferAB!Init, TransferBA!Init,
       DeliveredAtA, DeliveredAtB
  <1>2. Inv /\ BothSafe /\ NoneMissed /\ [Next]_vars => AB /\ BA
    <2> SUFFICES ASSUME Inv, BothSafe, NoneMissed, [Next]_vars PROVE AB /\ BA
      OBVIOUS
    <2>1. /\ outboxA \subseteq FromA /\ FromA \subseteq outboxA \cup DeliveredAtB
          /\ outboxB \subseteq FromB /\ FromB \subseteq outboxB \cup DeliveredAtA
      BY DEF Inv, DA!Sound, DA!TypeOK, DA!P!TypeOK, BothSafe, DA!In!Safe, DA!Out!Safe,
         DA!In!TakenR, DA!Out!TakenR, DA!In!DeliveredR, DA!Out!DeliveredR, DeliveredAtA,
         DeliveredAtB, NoneMissed
    <2>2. ASSUME UNCHANGED <<outboxB, mailboxB>>, UNCHANGED mailboxA,
                 outboxA' \subseteq outboxA, outboxA \subseteq outboxA' \cup DeliveredAtB
          PROVE  AB /\ BA
      <3>1. DeliveredAtA' = DeliveredAtA /\ DeliveredAtB' = DeliveredAtB
        BY <2>2 DEF DeliveredAtA, DeliveredAtB
      <3>2. TransferAB!Remove(outboxA \ outboxA') /\ outboxA \ outboxA' \in SUBSET FromA
        BY <2>1, <2>2, <3>1 DEF TransferAB!Remove
      <3>3. QED
        BY <2>2, <3>1, <3>2 DEF TransferAB!Next
    <2>3. ASSUME UNCHANGED <<outboxB, mailboxB>>, UNCHANGED outboxA,
                 NEW m \in Msg, DeliveredAtA' = DeliveredAtA \cup {m}
          PROVE  AB /\ BA
      <3>1. DeliveredAtB' = DeliveredAtB
        BY <2>3 DEF DeliveredAtB
      <3>2. CASE m \in ForA \ DeliveredAtA
        <4>1. TransferBA!HandOver(m) /\ m \in ForA
          BY <2>1, <2>3, <3>2, PairAssumption DEF TransferBA!HandOver
        <4>2. QED
          BY <2>3, <3>1, <4>1 DEF TransferBA!Next
      <3>3. CASE m \notin ForA \ DeliveredAtA
        BY <2>3, <3>1, <3>3
      <3>4. QED
        BY <3>2, <3>3
    <2>4. ASSUME UNCHANGED <<outboxA, mailboxA>>, UNCHANGED mailboxB,
                 outboxB' \subseteq outboxB, outboxB \subseteq outboxB' \cup DeliveredAtA
          PROVE  AB /\ BA
      <3> DEFINE S == (outboxB \ outboxB') \cap ForA
      <3>1. DeliveredAtA' = DeliveredAtA /\ DeliveredAtB' = DeliveredAtB
        BY <2>4 DEF DeliveredAtA, DeliveredAtB
      <3>2. TransferBA!Remove(S) /\ S \in SUBSET ForA
        BY <2>1, <2>4, <3>1 DEF TransferBA!Remove
      <3>3. QED
        BY <2>4, <3>1, <3>2 DEF TransferBA!Next
    <2>5. ASSUME UNCHANGED <<outboxA, mailboxA>>, UNCHANGED outboxB,
                 NEW m \in Msg, DeliveredAtB' = DeliveredAtB \cup {m}
          PROVE  AB /\ BA
      <3>1. DeliveredAtA' = DeliveredAtA
        BY <2>5 DEF DeliveredAtA
      <3>2. CASE m \in FromA \ DeliveredAtB
        <4>1. TransferAB!HandOver(m) /\ m \in FromA
          BY <2>1, <2>5, <3>2 DEF TransferAB!HandOver
        <4>2. QED
          BY <2>5, <3>1, <4>1 DEF TransferAB!Next
      <3>3. CASE m \notin FromA \ DeliveredAtB
        BY <2>5, <3>1, <3>3
      <3>4. QED
        BY <3>2, <3>3
    <2>6. QED
      BY <2>2, <2>3, <2>4, <2>5, MailSteps
  <1>3. Init => NoneMissed
    BY DEF Init, A!HostInit, B!HostInit, NoneMissed
  <1>4. NoneMissed /\ [Next]_vars /\ Inv => NoneMissed'
    BY MissedSteps
  <1>5. QED
    BY <1>1, <1>2, <1>3, <1>4, SessionKept, SafeAlways, PTL DEF Spec, Implements,
       TransferAB!Spec, TransferBA!Spec

-------------------------------------------------------------------------------
(* A session with -s.                                                        *)
BothUntaken == DA!In!Untaken /\ DA!Out!Untaken

(* BothUntaken from the daemon's side.                                       *)
LEMMA UntakenTurned == BothUntaken <=> DB!In!Untaken /\ DB!Out!Untaken
  BY Turned DEF BothUntaken

(* No step takes a message for an end that only sends (inbound_parser).      *)
LEMMA UntakenKept == Inv /\ BothUntaken /\ [Next]_vars => BothUntaken'
  <1> SUFFICES ASSUME Inv, BothUntaken, [Next]_vars PROVE BothUntaken'
    OBVIOUS
  <1>1. DB!Sound /\ DB!Session /\ DB!In!Untaken /\ DB!Out!Untaken
    BY InvTurned, UntakenTurned
  <1>2. DB!In!Untaken' /\ DB!Out!Untaken' => BothUntaken'
    <2>1. (BothUntaken <=> DB!In!Untaken /\ DB!Out!Untaken)'
      BY UntakenTurned, PTL
    <2>2. QED
      BY <2>1
  <1>3. CASE (DA!Work \/ DA!Mishap) /\ UNCHANGED DA!varsP
    BY <1>3, Constants, DA!UntakenSteps DEF Inv, BothUntaken
  <1>4. CASE (DB!Work \/ DB!Mishap) /\ UNCHANGED DB!varsP
    BY <1>1, <1>2, <1>4, Constants, DB!UntakenSteps
  <1>5. CASE Begins
    BY <1>5, Constants, DA!GreetingStep DEF Begins, BothUntaken
  <1>6. CASE DA!Cut
    BY <1>6, Constants, DA!DropStep DEF Inv, BothUntaken
  <1>7. CASE DA!Stops /\ UNCHANGED DA!varsP
    BY <1>7, Constants, DA!StopStep DEF Inv, BothUntaken
  <1>8. CASE DB!Stops /\ UNCHANGED DB!varsP
    BY <1>1, <1>2, <1>8, Constants, DB!StopStep
  <1>9. CASE DA!Still
    BY <1>9, Constants, DA!StillStep DEF BothUntaken
  <1>10. QED
    BY <1>3, <1>4, <1>5, <1>6, <1>7, <1>8, <1>9, Steps

(* A session with -s takes nothing, and the peer unlinks none of what it has *)
(* for this end (inbound_parser with gsendmsgonly_flag), whatever fails.     *)
THEOREM SendOnlyTakesNothing == Spec => NothingTaken
  <1> DEFINE Kept == sendonlyA => UNCHANGED <<mailboxA, outboxB>>
  <1>1. Init => BothUntaken
    BY DEF Init, A!HostInit, B!HostInit, BothUntaken, DA!In!Untaken, DA!Out!Untaken
  <1>2. Inv /\ BothUntaken /\ [Next]_vars => BothUntaken'
    BY UntakenKept
  <1>3. Inv /\ BothUntaken /\ [Next]_vars => [Kept]_vars
    <2> SUFFICES ASSUME Inv, BothUntaken, [Next]_vars, sendonlyA
                 PROVE  UNCHANGED <<mailboxA, outboxB>>
      OBVIOUS
    <2>1. DA!TypeOK /\ DB!TypeOK /\ DB!Out!Untaken
      BY Turned, UntakenTurned DEF Inv, DA!Sound, DB!Sound
    <2>2. CASE (DA!Work \/ DA!Mishap) /\ UNCHANGED DA!varsP
      BY <2>1, <2>2, Constants, DA!NothingStep DEF BothUntaken, DA!varsP
    <2>3. CASE (DB!Work \/ DB!Mishap) /\ UNCHANGED DB!varsP
      BY <2>1, <2>3, Constants, DB!NothingStep DEF DB!varsP
    <2>4. CASE \/ Begins \/ DA!Cut \/ DA!Still
               \/ DA!Stops /\ UNCHANGED DA!varsP
               \/ DB!Stops /\ UNCHANGED DB!varsP
      BY <2>4 DEF Begins, DA!Start, DA!Begin, DA!hostVars, DB!Start, DB!Begin, DB!hostVars,
         DA!Cut, DA!Stops, DB!Stops, DA!Still, DA!varsP, DB!varsP
    <2>5. QED
      BY <2>2, <2>3, <2>4, Steps
  <1>4. QED
    BY <1>1, <1>2, <1>3, SessionKept, PTL DEF Spec, NothingTaken

-------------------------------------------------------------------------------
(* A session that meets no fault.                                            *)

(* What the client's end says of it is what the daemon's end says.           *)
LEMMA FairTurned ==
    /\ DA!Fair <=> DB!Fair
    /\ DA!Out!Parts <=> DB!In!Parts
    /\ DB!Out!Parts <=> DA!In!Parts
  <1>1. DA!In!Clean <=> DB!Out!Clean
    BY DEF DA!In!Clean, DA!In!Sum, DA!In!Cardinality, DA!In!Size, DA!In!SizeOf,
           DA!In!Proposed, DB!Out!Clean, DB!Out!Sum, DB!Out!Cardinality, DB!Out!Size,
           DB!Out!SizeOf, DB!Out!Proposed, DB!RoleP
  <1>2. DA!Out!Clean <=> DB!In!Clean
    BY DEF DA!Out!Clean, DA!Out!Sum, DA!Out!Cardinality, DA!Out!Size, DA!Out!SizeOf,
           DA!Out!Proposed, DB!In!Clean, DB!In!Sum, DB!In!Cardinality, DB!In!Size,
           DB!In!SizeOf, DB!In!Proposed, DA!RoleP
  <1>3. DA!Fair <=> DB!Fair
    BY <1>1, <1>2, Turned DEF DA!Fair, DB!Fair
  <1>4. DA!Out!Parts <=> DB!In!Parts
    BY DEF DA!Out!Parts, DB!In!Parts
  <1>5. DB!Out!Parts <=> DA!In!Parts
    BY DEF DB!Out!Parts, DA!In!Parts
  <1>6. QED
    BY <1>3, <1>4, <1>5

(* Until a fault is met, either no session was started or the last one has   *)
(* emptied both outboxes; or the two are in a session that goes on as it     *)
(* should; or one has hung up, with nothing left, and the other is about to  *)
(* hear it, and has nothing left to propose.                                 *)
Drains ==
    \/ faults # MaxFaults
    \/ /\ link = "closed" /\ pcA = "idle" /\ pcB = "idle"
       /\ olistA = <<>> \/ (DA!Listed = {} /\ DB!Listed = {})
    \/ DA!Fair /\ DA!Left /\ DB!Left
    \/ link = "closed" /\ DA!In!Parts /\ DA!Left /\ DB!Listed = {}
    \/ link = "closed" /\ DB!In!Parts /\ DB!Left /\ DA!Listed = {}

(* A fault stays a fault.                                                    *)
LEMMA FaultsStep ==
    ASSUME Inv, [Next]_vars
    PROVE  /\ faults' # faults \/ faults # MaxFaults => faults' # MaxFaults
           /\ MishapA \/ MishapB \/ Drop => faults' # faults
  <1>1. DA!TypeOK /\ DB!TypeOK
    BY Turned DEF Inv, DA!Sound
  <1>2. faults \in Int /\ faults =< MaxFaults /\ MaxFaults \in Int
    BY <1>1, PairAssumption DEF DA!TypeOK
  <1>3. MishapA \/ MishapB \/ Drop => faults' # faults
    <2>1. MishapA => faults' # faults
      BY <1>1, ClientSteps, Constants, DA!FaultsFall DEF MishapA
    <2>2. MishapB => faults' # faults
      BY <1>1, DaemonSteps, Constants, DB!FaultsFall DEF MishapB
    <2>3. Drop => faults' # faults
      BY <1>2 DEF Drop, A!Fault
    <2>4. QED
      BY <2>1, <2>2, <2>3
  <1>4. faults' = faults \/ faults' = faults - 1
    <2>1. CASE WorkA \/ MishapA
      BY <1>1, <2>1, ClientSteps, Constants, DA!FaultsFall DEF WorkA, MishapA
    <2>2. CASE WorkB \/ MishapB
      BY <1>1, <2>2, DaemonSteps, Constants, DB!FaultsFall DEF WorkB, MishapB
    <2>3. CASE Drop
      BY <2>3 DEF Drop, A!Fault
    <2>4. CASE Connect
      BY <1>1, <2>4, ClientSteps, Constants, DA!FaultsFall DEF Connect
    <2>5. CASE StallEnds \/ UNCHANGED vars
      BY <2>5 DEF StallEnds, vars
    <2>6. QED
      BY <2>1, <2>2, <2>3, <2>4, <2>5 DEF Next
  <1>5. QED
    BY <1>2, <1>3, <1>4

(* How far the client has read ahead, and behind what it may be waiting.     *)
ReadAhead ==
    /\ DA!Batched /\ DA!WaitsBehind
    /\ faults = MaxFaults => DA!BehindPointer

(* A session that begins before any fault finds nothing in the client's      *)
(* outbox that the daemon has (prepare_outbound_proposals).                  *)
LEMMA NothingBehind ==
    ASSUME Inv, Drains, ReadAhead, Begins, faults = MaxFaults
    PROVE  DA!BehindPointer'
  <1>1. pcA = "idle" /\ pcB = "idle"
    BY DEF Begins, DA!Start, DB!Start
  <1>2. ~DA!Fair /\ ~DA!In!Parts /\ ~DB!In!Parts
    BY <1>1 DEF DA!Fair, DA!Session, DA!In!Talk, DA!Out!Talk, DA!In!Greets, DA!In!Commands,
       DA!In!Transmits, DA!In!Declined, DA!Out!Greets, DA!Out!Commands, DA!Out!Transmits,
       DA!Out!Declined, DA!In!Parts, DB!In!Parts
  <1>3. outboxA \cap DA!Out!TakenR = {}
    <2>1. CASE olistA = <<>>
      <3>1. npropA = 0
        BY <2>1 DEF Inv, DA!Sound, DA!TypeOK
      <3>2. DA!Answered = 0
        BY <1>1, <3>1 DEF DA!Answered
      <3>3. QED
        BY <3>2 DEF ReadAhead, DA!BehindPointer
    <2>2. CASE DA!Listed = {}
      BY <2>2 DEF DA!Listed
    <2>3. QED
      BY <1>2, <2>1, <2>2 DEF Drains
  <1>4. outboxA' = outboxA /\ toB' = DA!Greeting
    BY DEF Begins, DA!Start, DA!Begin, DA!hostVars
  <1>5. DA!Out!TakenR' = DA!Out!TakenR
    BY DEF Begins, DB!Start, DB!Begin, DB!hostVars, DA!Out!TakenR, DA!Out!DeliveredR
  <1>6. 1..Len(toB') = {}
    BY <1>4 DEF DA!Greeting
  <1>7. DA!Out!InFlight' = {}
    BY <1>6 DEF DA!Out!InFlight
  <1>8. QED
    BY <1>3, <1>4, <1>5, <1>7 DEF DA!BehindPointer

(* Every step of the two keeps it so (getline_with_timeout,                  *)
(* b2outboundproposal, wl2k_wait_for_response).                              *)
LEMMA ReadAheadStep == Inv /\ BothSafe /\ Drains /\ ReadAhead /\ [Next]_vars => ReadAhead'
  <1> SUFFICES ASSUME Inv, BothSafe, Drains, ReadAhead, [Next]_vars PROVE ReadAhead'
    OBVIOUS
  <1>1. DA!TypeOK /\ DB!TypeOK /\ DA!TypeOK'
    <2>1. Inv' /\ (Inv => DA!Sound)' /\ Inv => DA!Sound
      BY NextInv, InvSound, PTL
    <2>2. QED
      BY <2>1, NextInv, Turned DEF Inv, DA!Sound
  <1>2. /\ DA!Distinct /\ DA!UnansweredKept /\ DA!Session /\ DA!Out!Refused
        /\ DB!Session /\ DB!In!Forth
    BY InvTurned DEF Inv, DA!Sound, DB!Session, BothSafe, DA!Out!Safe
  <1>3. /\ faults # MaxFaults => faults' # MaxFaults
        /\ faults' = MaxFaults => faults = MaxFaults /\ UNCHANGED faults
    BY FaultsStep
  <1>4. CASE (DA!Work \/ DA!Mishap) /\ UNCHANGED DA!varsP
    <2>1. DA!Batched'
      BY <1>1, <1>4, Constants, DA!BatchedStep DEF ReadAhead
    <2>2. DA!WaitsBehind'
      BY <1>1, <1>2, <1>4, Constants, DA!WaitsStep DEF ReadAhead
    <2>3. ASSUME faults' = MaxFaults PROVE DA!BehindPointer'
      <3>1. DA!Work /\ UNCHANGED faults
        BY <1>1, <1>3, <1>4, <2>3, Constants, DA!FaultsFall
      <3>2. pcA # "login1" /\ pcA # "login2"
        BY <1>2, DA!IdleRests, <3>1, Constants DEF DA!Session, DA!In!Forth
      <3>3. QED
        BY <1>1, <1>3, <1>4, <2>3, <3>1, <3>2, Constants, DA!BehindStep DEF ReadAhead
    <2>4. QED
      BY <2>1, <2>2, <2>3 DEF ReadAhead
  <1>5. CASE (DB!Work \/ DB!Mishap) /\ UNCHANGED DB!varsP
    <2>1. UNCHANGED <<pcA, retA, olistA, npropA, unsentA, aheadA, outboxA>>
      BY <1>5 DEF DB!varsP
    <2>2. Len(toA) =< Len(toA') /\ aheadA \in Nat /\ Len(toA) \in Nat /\ Len(toA') \in Nat
      <3>1. pcB # "login1" /\ pcB # "login2"
        BY <1>2 DEF DB!In!Forth
      <3>2. Len(toA) =< Len(toA')
        BY <1>1, <1>5, <3>1, Constants, DB!SaidStays
      <3>3. toA \in Seq(DA!Line) /\ toA' \in Seq(DA!Line) /\ aheadA \in Nat
        BY <1>1 DEF DA!TypeOK
      <3>4. QED
        BY <3>2, <3>3
    <2>3. DA!Batched'
      <3>1. DA!Remaining' = DA!Remaining /\ DA!BatchSize' = DA!BatchSize
        BY <2>1 DEF DA!Remaining, DA!BatchSize
      <3>2. aheadA' =< Len(toA')
        BY <2>1, <2>2 DEF ReadAhead, DA!Batched
      <3>3. QED
        BY <2>1, <3>1, <3>2 DEF ReadAhead, DA!Batched
    <2>4. DA!Out!TakenR = DB!In!TakenR /\ DA!Out!InFlight = DB!In!InFlight
      BY DEF DA!Out!TakenR, DB!In!TakenR, DA!Out!DeliveredR, DB!In!DeliveredR,
         DA!Out!InFlight, DB!In!InFlight
    <2>5. /\ (DA!Out!TakenR = DB!In!TakenR)'
          /\ (DA!Out!InFlight = DB!In!InFlight)'
      BY DEF DA!Out!TakenR, DB!In!TakenR, DA!Out!DeliveredR, DB!In!DeliveredR,
         DA!Out!InFlight, DB!In!InFlight
    <2>6. DA!WaitsBehind'
      <3>1. DA!Out!TakenR \subseteq DA!Out!TakenR'
        BY <1>1, <1>5, <2>4, <2>5, Constants, DB!DeliveredGrows
      <3>2. link' = "up" => link = "up"
        BY <1>5, Constants, DB!ReadsStep
      <3>3. QED
        BY <1>3, <2>1, <3>1, <3>2, Constants, DA!WaitsSame DEF ReadAhead
    <2>7. ASSUME faults' = MaxFaults PROVE DA!BehindPointer'
      <3>1. DB!Work /\ UNCHANGED faults
        BY <1>1, <1>3, <1>5, <2>7, Constants, DB!FaultsFall
      <3>2. DA!Out!TakenR' \cup DA!Out!InFlight' \subseteq DA!Out!TakenR \cup DA!Out!InFlight
        BY <1>1, <1>2, <2>4, <2>5, <3>1, Constants, DB!TakenArrives
      <3>3. QED
        BY <1>3, <2>1, <2>7, <3>2, Constants, DA!BehindSame DEF ReadAhead
    <2>8. QED
      BY <2>3, <2>6, <2>7 DEF ReadAhead
  <1>6. CASE Begins
    <2>1. DA!Batched'
      BY <1>1, <1>6, Constants, DA!BatchedStep DEF ReadAhead, Begins
    <2>2. DA!WaitsBehind'
      BY <1>1, <1>6 DEF Begins, DA!Start, DA!WaitsBehind
    <2>3. faults' = MaxFaults => DA!BehindPointer'
      BY <1>3, <1>6, NothingBehind
    <2>4. QED
      BY <2>1, <2>2, <2>3 DEF ReadAhead
  <1>7. CASE DA!Cut /\ aheadA =< Len(toA')
    <2>1. UNCHANGED <<pcA, retA, olistA, npropA, unsentA, aheadA>> /\ link' = "closed"
      BY <1>7 DEF DA!Cut
    <2>2. DA!Batched'
      <3>1. DA!Remaining' = DA!Remaining /\ DA!BatchSize' = DA!BatchSize
        BY <2>1 DEF DA!Remaining, DA!BatchSize
      <3>2. QED
        BY <1>7, <2>1, <3>1 DEF ReadAhead, DA!Batched
    <2>3. DA!WaitsBehind'
      BY <2>1 DEF DA!WaitsBehind
    <2>4. ASSUME faults' = MaxFaults PROVE DA!BehindPointer'
      <3>1. DA!Out!TakenR' = DA!Out!TakenR /\ DA!Out!InFlight' \subseteq DA!Out!InFlight
        BY <1>1, <1>7, Constants, DA!CutFlight
      <3>2. UNCHANGED <<pcA, olistA, npropA, outboxA>>
        BY <1>7 DEF DA!Cut
      <3>3. QED
        BY <1>3, <2>4, <3>1, <3>2, Constants, DA!BehindSame DEF ReadAhead
    <2>5. QED
      BY <2>2, <2>3, <2>4 DEF ReadAhead
  <1>8. CASE DA!Stops /\ pcA = "wait" /\ UNCHANGED DA!varsP
    <2>1. /\ pcA' = "idle" /\ link' = "closed"
          /\ UNCHANGED <<olistA, npropA, aheadA, outboxA, toA, toB, mailboxB, missedB>>
      BY <1>8 DEF DA!Stops, DA!Exit, DA!outVars, DA!hostVars, DA!varsP
    <2>2. DA!Batched' /\ DA!WaitsBehind'
      BY <2>1 DEF ReadAhead, DA!Batched, DA!WaitsBehind
    <2>3. /\ DA!Answered' = DA!Answered /\ DA!Out!TakenR' = DA!Out!TakenR
          /\ DA!Out!InFlight' = DA!Out!InFlight
      BY <1>8, <2>1 DEF DA!Answered, DA!Out!TakenR, DA!Out!DeliveredR, DA!Out!InFlight
    <2>4. faults' = MaxFaults => DA!BehindPointer'
      BY <1>3, <2>1, <2>3 DEF ReadAhead, DA!BehindPointer
    <2>5. QED
      BY <2>2, <2>4 DEF ReadAhead
  <1>9. CASE DA!Still \/ (DB!Stops /\ UNCHANGED DB!varsP)
    <2>1. /\ UNCHANGED <<pcA, retA, olistA, npropA, unsentA, aheadA, outboxA, toA, toB,
                         mailboxB, missedB>>
          /\ link' = link \/ link' = "closed"
      BY <1>9 DEF DA!Still, DA!varsP, DB!Stops, DB!Exit, DB!hostVars, DB!dbVars, DB!varsP
    <2>2. DA!Batched'
      <3>1. DA!Remaining' = DA!Remaining /\ DA!BatchSize' = DA!BatchSize
        BY <2>1 DEF DA!Remaining, DA!BatchSize
      <3>2. QED
        BY <2>1, <3>1 DEF ReadAhead, DA!Batched
    <2>3. DA!Out!TakenR' = DA!Out!TakenR /\ DA!Out!InFlight' = DA!Out!InFlight
      BY <2>1 DEF DA!Out!TakenR, DA!Out!DeliveredR, DA!Out!InFlight
    <2>4. DA!WaitsBehind'
      BY <1>3, <2>1, <2>3, Constants, DA!WaitsSame DEF ReadAhead
    <2>5. faults' = MaxFaults => DA!BehindPointer'
      BY <1>3, <2>1, <2>3, Constants, DA!BehindSame DEF ReadAhead
    <2>6. QED
      BY <2>2, <2>4, <2>5 DEF ReadAhead
  <1>10. QED
    BY <1>4, <1>5, <1>6, <1>7, <1>8, <1>9, Steps

(* If neither can go on, the client waits behind a line it has read already. *)
LEMMA StallBehind == Inv /\ ReadAhead => StallIsReadAhead
  <1> SUFFICES ASSUME Inv, ReadAhead, Stalled
               PROVE  /\ pcA = "wait" /\ aheadA = Len(toA) /\ aheadA > 0
                      /\ \A i \in 1..npropA : olistA[i] \in DeliveredAtB \cup missedB
                      /\ faults < MaxFaults
    BY DEF StallIsReadAhead
  <1>1. /\ toA \in Seq(DA!Line) /\ Len(toA) \in Nat /\ aheadA \in Nat
        /\ faults \in 0..MaxFaults /\ link \in {"up", "closed"}
    BY DEF Inv, DA!Sound, DA!TypeOK
  <1>2. link = "up" /\ toB = <<>> /\ DA!P!AtRead
    BY DEF Stalled, BlockedB, B!AtRead, B!Reading, DA!P!AtRead, DA!P!Reading
  <1>3. toA # <<>> \/ ~(pcA = "wait" \/ DA!AtRead)
    BY <1>2, Constants, DA!OneGoesOn DEF Inv
  <1>4. pcA = "wait" /\ ~(Len(toA) > aheadA)
    BY <1>3 DEF Stalled, BlockedA, A!AtRead, A!Reading, DA!AtRead, DA!Reading, A!OnDescriptor
  <1>5. aheadA = Len(toA) /\ aheadA > 0
    <2>1. aheadA =< Len(toA)
      BY DEF ReadAhead, DA!Batched
    <2>2. Len(toA) # 0
      BY <1>1, <1>3, <1>4
    <2>3. QED
      BY <1>1, <1>4, <2>1, <2>2
  <1>6. DA!Answered = npropA /\ DA!Out!TakenR = DeliveredAtB \cup missedB
    BY <1>4 DEF DA!Answered, DA!Out!TakenR, DA!Out!DeliveredR, DeliveredAtB
  <1>7. faults # MaxFaults /\ \A i \in 1..npropA : olistA[i] \in DeliveredAtB \cup missedB
    BY <1>2, <1>4, <1>5, <1>6 DEF ReadAhead, DA!WaitsBehind
  <1>8. QED
    BY <1>1, <1>4, <1>5, <1>7, PairAssumption

(* Whoever takes a step, it stays so (b2outboundproposal, inbound_parser).   *)
LEMMA DrainsStep ==
    ASSUME SendOnly \subseteq {FALSE}
    PROVE  Inv /\ ReadAhead /\ Drains /\ [Next]_vars => Drains'
  <1> SUFFICES ASSUME Inv, ReadAhead, Drains, [Next]_vars PROVE Drains'
    OBVIOUS
  <1>1. CASE faults # MaxFaults \/ faults' # faults
    BY <1>1, FaultsStep DEF Drains
  <1> SUFFICES ASSUME faults = MaxFaults, UNCHANGED faults PROVE Drains'
    BY <1>1
  <1>2. Inv' /\ (DA!Fair <=> DB!Fair)' /\ (DA!Out!Parts <=> DB!In!Parts)'
           /\ (DB!Out!Parts <=> DA!In!Parts)'
    BY NextInv, FairTurned, PTL
  <1>3. DA!TypeOK /\ DA!Distinct /\ DB!TypeOK /\ DB!Distinct
    BY InvTurned DEF Inv, DA!Sound, DB!Sound
  <1>4. ~MishapA /\ ~MishapB /\ ~Drop
    BY FaultsStep
  <1>5. ~StallEnds
    <2>1. ~(faults < MaxFaults)
      BY PairAssumption
    <2>2. QED
      BY <2>1, StallBehind DEF StallEnds, StallIsReadAhead
  <1>6. ASSUME DA!Work, UNCHANGED DA!varsP PROVE Drains'
    <2>1. UNCHANGED <<pcB, olistB, npropB, delB, unsentB, outboxB>>
      BY <1>6 DEF DA!varsP
    <2>2. (DB!Left => DB!Left') /\ DB!Listed' = DB!Listed
      BY <2>1, Constants, DB!LeftSame
    <2>3. pcA # "idle"
      BY <1>6, Constants, DA!IdleRests
    <2>4. CASE DA!Fair /\ DA!Left /\ DB!Left
      <3>1. \/ DA!Fair' /\ DA!Left'
            \/ link' = "closed" /\ DA!Listed' = {} /\ DA!Out!Parts'
        BY <1>6, <2>4, Constants, DA!FairStep
      <3>2. QED
        BY <1>2, <2>2, <2>4, <3>1 DEF Drains
    <2>5. CASE link = "closed" /\ DA!In!Parts /\ DA!Left /\ DB!Listed = {}
      <3>1. /\ link' = "closed"
            /\ \/ DA!In!Parts' /\ DA!Left'
               \/ pcA' = "idle" /\ DA!Listed' = {}
        BY <1>3, <1>6, <2>5, Constants, DA!HearsIt
      <3>2. pcB' = "idle"
        BY <2>1, <2>5 DEF DA!In!Parts
      <3>3. QED
        BY <2>2, <2>5, <3>1, <3>2 DEF Drains
    <2>6. QED
      BY <2>3, <2>4, <2>5 DEF Drains, DB!In!Parts
  <1>7. ASSUME DB!Work, UNCHANGED DB!varsP PROVE Drains'
    <2>1. UNCHANGED <<pcA, olistA, npropA, delA, unsentA, outboxA>>
      BY <1>7 DEF DB!varsP
    <2>2. (DA!Left => DA!Left') /\ DA!Listed' = DA!Listed
      BY <2>1, Constants, DA!LeftSame
    <2>3. pcB # "idle"
      BY <1>7, Constants, DB!IdleRests
    <2>4. CASE DA!Fair /\ DA!Left /\ DB!Left
      <3>1. \/ DB!Fair' /\ DB!Left'
            \/ link' = "closed" /\ DB!Listed' = {} /\ DB!Out!Parts'
        BY <1>7, <2>4, FairTurned, Constants, DB!FairStep
      <3>2. QED
        BY <1>2, <2>2, <2>4, <3>1 DEF Drains
    <2>5. CASE link = "closed" /\ DB!In!Parts /\ DB!Left /\ DA!Listed = {}
      <3>1. /\ link' = "closed"
            /\ \/ DB!In!Parts' /\ DB!Left'
               \/ pcB' = "idle" /\ DB!Listed' = {}
        BY <1>3, <1>7, <2>5, Constants, DB!HearsIt
      <3>2. pcA' = "idle"
        BY <2>1, <2>5 DEF DB!In!Parts
      <3>3. QED
        BY <2>2, <2>5, <3>1, <3>2 DEF Drains
    <2>6. QED
      BY <2>3, <2>4, <2>5 DEF Drains, DA!In!Parts
  <1>8. CASE Begins
    <2>1. DA!Begin /\ DB!Begin
      BY <1>8 DEF Begins, DA!Start, DB!Start
    <2>2. DA!Left' /\ DB!Left'
      BY <1>3, <2>1, Constants, DA!LeftStart, DB!LeftStart
    <2>3. DA!In!Clean' /\ DA!Out!Clean'
      BY <1>8, Constants, DA!GreetingStep DEF Begins
    <2>4. ~sendonlyA' /\ ~sendonlyB'
      BY <2>1 DEF DA!Begin, DB!Begin
    <2>5. DA!Fair'
      BY <1>2, <1>8, <2>3, <2>4 DEF Begins, Inv, DA!Fair
    <2>6. QED
      BY <2>2, <2>5 DEF Drains
  <1>9. CASE UNCHANGED vars
    <2>1. DA!Still /\ DB!Still
      BY <1>9 DEF vars, varsA, varsB, DA!Still, DB!Still, DA!varsP, DB!varsP
    <2>2. /\ DA!Fair => DA!Fair'
          /\ DA!In!Parts => DA!In!Parts'
          /\ DB!In!Parts => DB!In!Parts'
      BY <2>1, Constants, DA!FairSame, DB!FairSame
    <2>3. /\ DA!Left => DA!Left'
          /\ DB!Left => DB!Left'
          /\ DA!Listed' = DA!Listed /\ DB!Listed' = DB!Listed
      BY <2>1, Constants, DA!LeftSame, DB!LeftSame DEF DA!Still, DB!Still
    <2>4. UNCHANGED <<link, pcA, pcB, olistA>>
      BY <1>9 DEF vars, varsA, varsB
    <2>5. QED
      BY <2>2, <2>3, <2>4 DEF Drains
  <1>10. CASE WorkA \/ WorkB
    BY <1>6, <1>7, <1>10, ClientSteps, DaemonSteps DEF WorkA, WorkB, DA!varsP, DB!varsP,
       varsA, varsB
  <1>11. CASE Connect
    BY <1>8, <1>11, ClientSteps, DaemonSteps, PeerStarts DEF Connect, Begins
  <1>12. QED
    BY <1>4, <1>5, <1>9, <1>10, <1>11 DEF Next

(* Sessions without -s, as long as no fault is met.                          *)
LEMMA DrainsAlways ==
    ASSUME SendOnly \subseteq {FALSE}
    PROVE  Spec => [](ReadAhead /\ Drains)
  <1>1. Init => ReadAhead /\ Drains
    <2> SUFFICES ASSUME Init PROVE ReadAhead /\ Drains
      OBVIOUS
    <2>1. A!HostInit /\ B!HostInit /\ link = "closed" /\ toA = <<>> /\ toB = <<>>
      BY DEF Init
    <2>2. 1..Len(toB) = {} /\ Len(toA) = 0
      BY <2>1
    <2>3. DA!Out!TakenR = {} /\ DA!Out!InFlight = {}
      BY <2>1, <2>2 DEF B!HostInit, DA!Out!TakenR, DA!Out!DeliveredR, DA!Out!InFlight
    <2>4. ReadAhead
      BY <2>1, <2>2, <2>3 DEF A!HostInit, ReadAhead, DA!Batched, DA!WaitsBehind,
         DA!BehindPointer
    <2>5. QED
      BY <2>1, <2>4 DEF A!HostInit, B!HostInit, Drains
  <1>2. Inv /\ BothSafe /\ ReadAhead /\ Drains /\ [Next]_vars => (ReadAhead /\ Drains)'
    BY ReadAheadStep, DrainsStep
  <1>3. QED
    BY <1>1, <1>2, SessionKept, SafeAlways, PTL DEF Spec

(* The two programs wait for each other only when the client has read ahead, *)
(* behind an FS line that refused all it proposed, what the daemon said      *)
(* next; the daemon had all of that from an earlier session, and a fault     *)
(* came in between (wl2k_wait_for_response, inbound_parser).  This is with   *)
(* and without buffering, with an AX.25 socket and without.                  *)
THEOREM StallExplained ==
    ASSUME SendOnly \subseteq {FALSE}
    PROVE  Spec => []StallIsReadAhead
  <1>1. QED
    BY DrainsAlways, StallBehind, SessionKept, PTL

(* A session that meets no fault and is not started with -s empties both     *)
(* outboxes of all they may send (wl2k_exchange, wl2kd_exchange, dodelete),  *)
(* whether or not the client reads ahead.                                    *)
THEOREM CleanSessionDrained ==
    ASSUME SendOnly \subseteq {FALSE}
    PROVE  Spec => []CleanSessionDrains
  <1>1. Drains => CleanSessionDrains
    <2>1. DA!Listed = outboxA /\ DB!Listed = outboxB \cap ForA
      BY DEF DA!Listed, DB!Listed
    <2>2. QED
      BY <2>1 DEF Drains, CleanSessionDrains, DA!Fair, DA!In!Parts, DB!In!Parts
  <1>2. QED
    BY <1>1, DrainsAlways, PTL
===============================================================================
