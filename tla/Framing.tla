-------------------------------- MODULE Framing --------------------------------
(***************************************************************************)
(* A compressed message on its way from putcompressed() to getcompressed()   *)
(* of wl2k.c: a header with title and offset, blocks with a length byte, and  *)
(* a checksum.  One end of the exchange, which puts one message and gets     *)
(* one; what it writes is flushed into "out" a few bytes at a time and what  *)
(* it reads is the head of "in".                                             *)
(***************************************************************************)
EXTENDS Integers, Sequences

CONSTANTS
    Width,                      \* of a byte: 256 in the program
    CHRNUL, CHRSOH, CHRSTX, CHREOT,
    Zero, One,                  \* the characters '0' and '1'
    CHUNK_SIZE,                 \* longest block that is written
    MaxTitle,                   \* longest title that is read: 80
    Cap                         \* bytes that fit into "out"

Bytes == 0 .. Width - 1

VARIABLES
    mode,       \* what the end is doing: see Mode
    prop,       \* the message it puts: title, offset and data
    rest,       \* of its data, not yet written
    cksum,      \* as added up so far, by either function
    frame,      \* getcompressed(): what is expected next, len, title, offset, buf
    wbuf,       \* stdio's output buffer
    in, out

Puts == {"header", "block", "cksum"}
Mode == Puts \cup {"get", "say", "hear", "over", "dead"}

NewFrame == [next |-> "soh", len |-> 0, title |-> <<>>, offset |-> <<>>, buf |-> <<>>]

TypeOK ==
    /\ mode \in Mode
    /\ rest \in Seq(Bytes) /\ Len(rest) =< Len(prop.data)
    /\ cksum \in Bytes
    /\ frame.len \in 0 .. Width
    /\ frame.buf \in Seq(Bytes) /\ Len(frame.title) =< MaxTitle

-------------------------------------------------------------------------------
FirstOf(q, n) == SubSeq(q, 1, IF Len(q) < n THEN Len(q) ELSE n)
RestOf(q, n)  == SubSeq(q, n + 1, Len(q))

(* putcompressed(): each piece is handed to stdio when the last one is       *)
(* flushed.  The title is cut off by strlcpy(); the offset is 0 or 1 here.     *)
Digits(n) == IF n = 0 THEN <<Zero>> ELSE <<One>>

Header == LET title  == FirstOf(prop.title, MaxTitle)
              offset == Digits(prop.offset)
          IN <<CHRSOH, Len(title) + Len(offset) + 2>>
               \o title \o <<CHRNUL>> \o offset \o <<CHRNUL>>

PutHeader ==
    /\ mode = "header" /\ wbuf = <<>>
    /\ wbuf' = Header
    /\ rest' = RestOf(prop.data, prop.offset)
    /\ mode' = "block" /\ cksum' = 0
    /\ UNCHANGED <<prop, frame, in, out>>

SumOf(q) == LET sum[i \in 0 .. Len(q)] == IF i = 0 THEN 0 ELSE sum[i - 1] + q[i]
            IN sum[Len(q)]

PutBlock ==
    /\ mode = "block" /\ wbuf = <<>> /\ rest # <<>>
    /\ LET block == FirstOf(rest, CHUNK_SIZE)
       IN /\ wbuf' = <<CHRSTX, Len(block) % Width>> \o block
          /\ cksum' = (cksum + SumOf(block)) % Width
    /\ rest' = RestOf(rest, CHUNK_SIZE)
    /\ UNCHANGED <<mode, prop, frame, in, out>>

(* The checksum ends the message; "then" is what the end does next.          *)
PutChecksum(then) ==
    /\ mode = "block" /\ wbuf = <<>> /\ rest = <<>>
    /\ wbuf' = <<CHREOT, (Width - cksum) % Width>>
    /\ mode' = then /\ cksum' = 0
    /\ UNCHANGED <<prop, rest, frame, in, out>>

(* fflush(): write() takes as much as fits and blocks for the rest.          *)
Flush ==
    /\ wbuf # <<>> /\ Len(out) < Cap
    /\ out'  = out \o FirstOf(wbuf, Cap - Len(out))
    /\ wbuf' = RestOf(wbuf, Cap - Len(out))
    /\ UNCHANGED <<mode, prop, rest, cksum, frame, in>>

-------------------------------------------------------------------------------
(* getcompressed(), one getrawchar() per step.                               *)
Rejected == mode' = "dead" /\ UNCHANGED <<cksum, frame>>

GetChar(next) ==
    /\ mode = "get" /\ wbuf = <<>> /\ in # <<>> /\ frame.next = next
    /\ in' = Tail(in)
    /\ UNCHANGED <<prop, rest, wbuf, out>>

GetStart ==
    /\ GetChar("soh")
    /\ IF Head(in) = CHRSOH
       THEN frame' = [frame EXCEPT !.next = "len"] /\ UNCHANGED <<mode, cksum>>
       ELSE Rejected

GetHeaderLen ==
    /\ GetChar("len")
    /\ frame' = [frame EXCEPT !.next = "title", !.len = Head(in)]
    /\ UNCHANGED <<mode, cksum>>

GetTitle ==
    /\ GetChar("title")
    /\ CASE Head(in) = CHRNUL ->
              /\ frame' = [frame EXCEPT !.next = "offset", !.len = @ - 1]
              /\ UNCHANGED <<mode, cksum>>
         [] Head(in) # CHRNUL /\ Len(frame.title) < MaxTitle ->
              /\ frame' = [frame EXCEPT !.title = Append(@, Head(in)), !.len = @ - 1]
              /\ UNCHANGED <<mode, cksum>>
         [] OTHER -> Rejected

(* Mutant: a message that starts in the middle is taken for whole.           *)
GetOffset_Any ==
    /\ GetChar("offset")
    /\ frame' = IF Head(in) = CHRNUL
                THEN [frame EXCEPT !.next = "block", !.len = 0]
                ELSE [frame EXCEPT !.offset = Append(@, Head(in)), !.len = @ - 1]
    /\ UNCHANGED <<mode, cksum>>

(* An offset other than 0 is not supported: this end never asks for one.     *)
GetOffset ==
    /\ GetChar("offset")
    /\ CASE Head(in) # CHRNUL /\ Len(frame.offset) < 6 ->
              /\ frame' = [frame EXCEPT !.offset = Append(@, Head(in)), !.len = @ - 1]
              /\ UNCHANGED <<mode, cksum>>
         [] Head(in) = CHRNUL /\ frame.len = 1 /\ frame.offset = <<Zero>> ->
              /\ frame' = [frame EXCEPT !.next = "block", !.len = 0]
              /\ UNCHANGED <<mode, cksum>>
         [] OTHER -> Rejected

GetBlockStart ==
    /\ GetChar("block")
    /\ CASE Head(in) = CHRSTX ->
              frame' = [frame EXCEPT !.next = "n"] /\ UNCHANGED <<mode, cksum>>
         [] Head(in) = CHREOT ->
              frame' = [frame EXCEPT !.next = "cksum"] /\ UNCHANGED <<mode, cksum>>
         [] OTHER -> Rejected

(* Mutant: a length byte of 0 is an empty block.                             *)
GetBlockLen_ZeroIsEmpty ==
    /\ GetChar("n")
    /\ frame' = [frame EXCEPT !.next = IF Head(in) = 0 THEN "block" ELSE "data",
                              !.len = Head(in)]
    /\ UNCHANGED <<mode, cksum>>

GetBlockLen ==
    /\ GetChar("n")
    /\ frame' = [frame EXCEPT !.next = "data",
                     !.len = IF Head(in) = 0 THEN Width ELSE Head(in)]
    /\ UNCHANGED <<mode, cksum>>

(* Mutant: one byte too many is read of a block.                             *)
GetData_OneMore ==
    /\ GetChar("data")
    /\ frame' = [frame EXCEPT !.buf = Append(@, Head(in)), !.len = @ - 1,
                              !.next = IF frame.len = 0 THEN "block" ELSE @]
    /\ cksum' = (cksum + Head(in)) % Width
    /\ UNCHANGED mode

GetData ==
    /\ GetChar("data")
    /\ frame' = [frame EXCEPT !.buf = Append(@, Head(in)), !.len = @ - 1,
                              !.next = IF frame.len = 1 THEN "block" ELSE @]
    /\ cksum' = (cksum + Head(in)) % Width
    /\ UNCHANGED mode

GetChecksum(then) ==
    /\ GetChar("cksum")
    /\ IF (cksum + Head(in)) % Width = 0
       THEN mode' = then /\ frame' = [frame EXCEPT !.next = "got"] /\ cksum' = 0
       ELSE Rejected

Get(then) == \/ GetStart \/ GetHeaderLen \/ GetTitle \/ GetOffset
             \/ GetBlockStart \/ GetBlockLen \/ GetData \/ GetChecksum(then)

(* The last line of a session, one byte here: FQ.                            *)
SayFQ ==
    /\ mode = "say" /\ wbuf = <<>>
    /\ wbuf' = <<One>> /\ mode' = "over"
    /\ UNCHANGED <<prop, rest, cksum, frame, in, out>>

HearFQ ==
    /\ mode = "hear" /\ wbuf = <<>> /\ in # <<>>
    /\ mode' = IF Head(in) = One THEN "over" ELSE "dead"
    /\ in' = Tail(in)
    /\ UNCHANGED <<prop, rest, cksum, frame, wbuf, out>>

Reading == mode \in {"get", "hear"} /\ wbuf = <<>>

Waiting == \/ (Reading /\ in = <<>>)
           \/ (wbuf # <<>> /\ Len(out) = Cap)

(* The program ends in a read (end of file) or a write (SIGPIPE) on a closed *)
(* connection, or by the alarm.                                              *)
Dies ==
    /\ mode' = "dead" /\ wbuf' = <<>>
    /\ UNCHANGED <<prop, rest, cksum, frame, in, out>>

LostConnection == Dies /\ ((Reading /\ in = <<>>) \/ wbuf # <<>>)

Ended == mode \in {"over", "dead"} /\ wbuf = <<>>

HasGot == frame.next = "got"
===============================================================================
