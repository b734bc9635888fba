--------------------------------- MODULE AxLink ---------------------------------
(***************************************************************************)
(* wl2kax25: the parent process copies between the AX.25 socket and the      *)
(* socket pair to its child, which runs the exchange.  The child puts a      *)
(* message, gets one and says FQ; the other station does it the other way    *)
(* round and hangs up.  Four queues of limited size lie between them.        *)
(***************************************************************************)
EXTENDS Integers, Sequences

CONSTANTS
    Width, CHRNUL, CHRSOH, CHRSTX, CHREOT, Zero, One, CHUNK_SIZE, MaxTitle,
    PeerChunk,            \* longest block the other station writes
    Messages,             \* the child may have to send
    PeerMessages,         \* the other station may send
    PairCap, AirCap,      \* bytes in the socket pair, on the AX.25 link, each way
    BUFMAXIN, BUFMAXOUT, paclen,
    Faults, MaxFaults     \* as in Exchange: "drop", "kill", "timeout", "slow"

ASSUME RelayAssumption ==
    /\ {Width, BUFMAXIN, BUFMAXOUT, paclen, AirCap, PairCap} \subseteq Nat \ {0}
    /\ paclen =< AirCap /\ paclen =< PairCap /\ MaxFaults \in Nat
    /\ CHUNK_SIZE \in 1 .. Width /\ PeerChunk \in 1 .. Width
    /\ MaxTitle \in Nat /\ MaxTitle + 3 < Width
    /\ {CHRNUL, CHRSOH, CHRSTX, CHREOT, Zero, One} \subseteq 0 .. Width - 1
    /\ CHRNUL \notin {Zero, One} /\ Zero # One /\ CHRSTX # CHREOT
    /\ Messages \cup PeerMessages \subseteq      \* a title is a C string
          [title : Seq((0 .. Width - 1) \ {CHRNUL}), offset : {0, 1}, data : Seq(0 .. Width - 1)]

VARIABLES
    pc,                   \* of the parent
    ready,                \* what poll() has returned
    axread, axwrite,      \* what of its two buffers is still to be written
    s, up, down, airOut, airIn,    \* s: the AX.25 connection; the queues
    faults,
    modeC, propC, restC, cksumC, frameC, wbufC,
    modeP, propP, restP, cksumP, frameP, wbufP

parent == <<pc, ready, axread, axwrite>>
child  == <<modeC, propC, restC, cksumC, frameC, wbufC>>
peer   == <<modeP, propP, restP, cksumP, frameP, wbufP>>
vars   == <<parent, s, up, down, airOut, airIn, faults, child, peer>>

Child == INSTANCE Framing WITH
    Cap <- PairCap, in <- down, out <- up, mode <- modeC, prop <- propC,
    rest <- restC, cksum <- cksumC, frame <- frameC, wbuf <- wbufC
Peer == INSTANCE Framing WITH
    Cap <- AirCap, CHUNK_SIZE <- PeerChunk,
    in <- airOut, out <- airIn, mode <- modeP, prop <- propP,
    rest <- restP, cksum <- cksumP, frame <- frameP, wbuf <- wbufP

Copying == {"poll", "in", "writeIn", "out", "writeOut"}
Gone    == pc = "exit"

TypeOK ==
    /\ pc \in {"connect", "wait", "linger", "exit"} \cup Copying
    /\ Child!TypeOK /\ Peer!TypeOK
    /\ Len(axread) =< BUFMAXIN /\ Len(axwrite) =< BUFMAXOUT
    /\ Len(up) =< PairCap /\ Len(down) =< PairCap
    /\ Len(airOut) =< AirCap /\ Len(airIn) =< AirCap

Init ==
    /\ pc = "connect" /\ ready = {} /\ axread = <<>> /\ axwrite = <<>>
    /\ s = "closed" /\ faults = MaxFaults
    /\ up = <<>> /\ down = <<>> /\ airOut = <<>> /\ airIn = <<>>
    /\ propC \in Messages /\ propP \in PeerMessages
    /\ modeC = "over" /\ modeP = "over"
    /\ restC = <<>> /\ restP = <<>> /\ cksumC = 0 /\ cksumP = 0
    /\ frameC = Child!NewFrame /\ frameP = Peer!NewFrame
    /\ wbufC = <<>> /\ wbufP = <<>>

-------------------------------------------------------------------------------
(* The parent.  Until the connection stands and the child is forked, every   *)
(* error and the alarm end the program.                                      *)
Connect ==
    /\ pc = "connect"
    /\ pc' = "poll" /\ s' = "up"
    /\ modeC' = "header" /\ modeP' = "get"
    /\ UNCHANGED <<ready, axread, axwrite, up, down, airOut, airIn, faults,
                   propC, restC, cksumC, frameC, wbufC, propP, restP, cksumP, frameP, wbufP>>

ConnectFails ==
    /\ pc = "connect"
    /\ pc' = "exit"
    /\ UNCHANGED <<ready, axread, axwrite, s, up, down, airOut, airIn, faults, child, peer>>

(* Mutant: the parent keeps the child's end of the socket pair open.         *)
Poll_KeepsChildEnd ==
    /\ pc = "poll"
    /\ ready' = (IF airIn # <<>> \/ s = "closed" THEN {"s"} ELSE {})
           \cup (IF up # <<>> THEN {"sv"} ELSE {})
    /\ ready' # {}
    /\ pc' = "in"
    /\ UNCHANGED <<axread, axwrite, s, up, down, airOut, airIn, faults, child, peer>>

(* A socket is readable too when its other end is closed.                    *)
Poll ==
    /\ pc = "poll"
    /\ ready' = (IF airIn # <<>> \/ s = "closed" THEN {"s"} ELSE {})
           \cup (IF up # <<>> \/ Child!Ended THEN {"sv"} ELSE {})
    /\ ready' # {}
    /\ pc' = "in"
    /\ UNCHANGED <<axread, axwrite, s, up, down, airOut, airIn, faults, child, peer>>

SkipIn ==
    /\ pc = "in" /\ "s" \notin ready
    /\ pc' = "out"
    /\ UNCHANGED <<ready, axread, axwrite, s, up, down, airOut, airIn, faults, child, peer>>

ReadIn ==
    /\ pc = "in" /\ "s" \in ready /\ airIn # <<>>
    /\ axread' = Child!FirstOf(airIn, BUFMAXIN)
    /\ airIn' = Child!RestOf(airIn, BUFMAXIN)
    /\ pc' = "writeIn"
    /\ UNCHANGED <<ready, axwrite, s, up, down, airOut, faults, child, peer>>

(* On a connection that is gone read() returns 0, which ends the program, or *)
(* -1, which is not looked at.                                               *)
ReadInEof ==
    /\ pc = "in" /\ "s" \in ready /\ airIn = <<>>
    /\ pc' \in {"exit", "out"}
    /\ UNCHANGED <<ready, axread, axwrite, s, up, down, airOut, airIn, faults, child, peer>>

(* One write() of at most paclen bytes, which blocks until they fit.         *)
WriteIn ==
    /\ pc = "writeIn" /\ axread # <<>>
    /\ IF Child!Ended
       THEN pc' = "exit" /\ UNCHANGED <<axread, down>>          \* SIGPIPE
       ELSE /\ Len(down) + Len(Child!FirstOf(axread, paclen)) =< PairCap
            /\ down' = down \o Child!FirstOf(axread, paclen)
            /\ axread' = Child!RestOf(axread, paclen)
            /\ UNCHANGED pc
    /\ s' = IF pc' = "exit" THEN "closed" ELSE s
    /\ UNCHANGED <<ready, axwrite, up, airOut, airIn, faults, child, peer>>

WroteIn ==
    /\ pc = "writeIn" /\ axread = <<>>
    /\ pc' = "out"
    /\ UNCHANGED <<ready, axread, axwrite, s, up, down, airOut, airIn, faults, child, peer>>

SkipOut ==
    /\ pc = "out" /\ "sv" \notin ready
    /\ pc' = "poll"
    /\ UNCHANGED <<ready, axread, axwrite, s, up, down, airOut, airIn, faults, child, peer>>

(* Mutant: the parent leaves as soon as the child is gone.                   *)
ReadOut_LeavesWithChild ==
    /\ pc = "out" /\ "sv" \in ready
    /\ axwrite' = Child!FirstOf(up, BUFMAXOUT)
    /\ up' = Child!RestOf(up, BUFMAXOUT)
    /\ pc' = IF Child!Ended THEN "wait" ELSE "writeOut"
    /\ UNCHANGED <<ready, axread, s, down, airOut, airIn, faults, child, peer>>

(* End of file is only read behind everything the child has written.         *)
ReadOut ==
    /\ pc = "out" /\ "sv" \in ready
    /\ axwrite' = Child!FirstOf(up, BUFMAXOUT)
    /\ up' = Child!RestOf(up, BUFMAXOUT)
    /\ pc' = IF up = <<>> THEN "wait" ELSE "writeOut"
    /\ UNCHANGED <<ready, axread, s, down, airOut, airIn, faults, child, peer>>

(* On a connection that is gone write() fails and the rest is dropped, or    *)
(* SIGPIPE ends the program.                                                 *)
WriteOut ==
    /\ pc = "writeOut" /\ axwrite # <<>>
    /\ IF s = "up"
       THEN /\ Len(airOut) + Len(Child!FirstOf(axwrite, paclen)) =< AirCap
            /\ airOut' = airOut \o Child!FirstOf(axwrite, paclen)
            /\ axwrite' = Child!RestOf(axwrite, paclen)
            /\ UNCHANGED pc
       ELSE pc' \in {"exit", "poll"} /\ axwrite' = <<>> /\ UNCHANGED airOut
    /\ UNCHANGED <<ready, axread, s, up, down, airIn, faults, child, peer>>

WroteOut ==
    /\ pc = "writeOut" /\ axwrite = <<>>
    /\ pc' = "poll"
    /\ UNCHANGED <<ready, axread, axwrite, s, up, down, airOut, airIn, faults, child, peer>>

WaitPid ==
    /\ pc = "wait" /\ Child!Ended
    /\ pc' = "linger"
    /\ UNCHANGED <<ready, axread, axwrite, s, up, down, airOut, airIn, faults, child, peer>>

(* The parent gives the other station time to read the last words and hang   *)
(* up.                                                                       *)
Disconnected ==
    /\ pc = "linger" /\ s = "closed"
    /\ pc' = "exit"
    /\ UNCHANGED <<ready, axread, axwrite, s, up, down, airOut, airIn, faults, child, peer>>

Parent == \/ Connect \/ ConnectFails \/ Poll \/ SkipIn \/ ReadIn \/ ReadInEof
          \/ WriteIn \/ WroteIn \/ SkipOut \/ ReadOut \/ WriteOut \/ WroteOut
          \/ WaitPid \/ Disconnected

-------------------------------------------------------------------------------
(* The child: the client's turn comes first.                                 *)
Exchange ==
    \/ Child!PutHeader \/ Child!PutBlock \/ Child!PutChecksum("get")
    \/ Child!Get("say") \/ Child!SayFQ
    \/ ~Gone /\ Child!Flush
    \/ Gone /\ Child!LostConnection

ChildRuns == Exchange /\ UNCHANGED <<parent, s, airOut, airIn, faults, peer>>

(* Its alarm, which nothing resets while it waits for a dead connection.     *)
AlarmDue ==
    /\ s = "closed" /\ Child!Waiting
    /\ Child!Dies
    /\ UNCHANGED <<parent, s, airOut, airIn, faults, peer>>

(* The other station.                                                        *)
PeerRuns ==
    /\ \/ Peer!Get("header")
       \/ Peer!PutHeader \/ Peer!PutBlock \/ Peer!PutChecksum("hear") \/ Peer!HearFQ
       \/ s = "up" /\ Peer!Flush
       \/ s = "closed" /\ Peer!LostConnection
    /\ UNCHANGED <<parent, s, up, down, faults, child>>

(* A connection ends, and what is on its way is lost from some point on.     *)
Cut ==
    /\ s = "up" /\ s' = "closed"
    /\ \E n \in 0 .. Len(airIn)  : airIn'  = SubSeq(airIn, 1, n)
    /\ \E n \in 0 .. Len(airOut) : airOut' = SubSeq(airOut, 1, n)

PeerHangsUp ==
    /\ Peer!Ended
    /\ Cut
    /\ UNCHANGED <<parent, up, down, faults, child, peer>>

Fault(f) == f \in Faults /\ faults > 0 /\ faults' = faults - 1

Drop == Fault("drop") /\ Cut /\ UNCHANGED <<parent, up, down, child, peer>>

Kill ==
    /\ Fault("kill") /\ Cut
    /\ pc' = "exit"
    /\ UNCHANGED <<ready, axread, axwrite, up, down, child, peer>>

Alarm ==
    /\ Fault("timeout")
    /\ s = "up" /\ Child!Waiting
    /\ Child!Dies
    /\ UNCHANGED <<parent, s, airOut, airIn, peer>>

(* The last words take longer than the parent lingers.                       *)
LingerExpires ==
    /\ Fault("slow") /\ pc = "linger"
    /\ Cut
    /\ pc' = "exit"
    /\ UNCHANGED <<ready, axread, axwrite, up, down, child, peer>>

Next == Parent \/ ChildRuns \/ AlarmDue \/ PeerRuns \/ PeerHangsUp
        \/ Drop \/ Kill \/ Alarm \/ LingerExpires

Spec == Init /\ [][Next]_vars

(* All three programs run, and a disconnect and an alarm come about.         *)
FairSpec ==
    /\ Spec
    /\ WF_vars(Parent) /\ WF_vars(ChildRuns) /\ WF_vars(PeerRuns)
    /\ WF_vars(PeerHangsUp) /\ WF_vars(AlarmDue)

-------------------------------------------------------------------------------
(* What getcompressed() returns is the message that putcompressed() was      *)
(* given, however the relay and the link have cut it up and whatever went    *)
(* wrong; a message that does not start at offset 0 is not taken for whole.  *)
GotIsPut ==
    /\ Child!HasGot => /\ frameC.buf = propP.data /\ propP.offset = 0
                       /\ frameC.title = Child!FirstOf(propP.title, MaxTitle)
    /\ Peer!HasGot  => /\ frameP.buf = propC.data /\ propC.offset = 0
                       /\ frameP.title = Child!FirstOf(propC.title, MaxTitle)

(* The parent leaves its loop only when all that the child has written has   *)
(* been handed to the AX.25 socket ("EOF on child fd"), even if the child    *)
(* was ended by its alarm.                                                   *)
LastWords == pc \in {"wait", "linger"} => up = <<>> /\ axwrite = <<>>

(* Without a fault, two messages of any size and the last line get through   *)
(* queues of any size, both programs end and the parent has hung up last.    *)
Completes ==
    s = "up" ~> \/ faults < MaxFaults \/ propP.offset # 0
                \/ Child!HasGot /\ Peer!HasGot /\ modeC = "over" /\ modeP = "over" /\ Gone

(* When the connection is gone, neither of the two processes goes on for     *)
(* ever: the relay ignores a read() of -1, but the child's alarm ends both.  *)
LostLinkEnds == s = "closed" /\ pc # "connect" ~> Gone /\ Child!Ended
===============================================================================
