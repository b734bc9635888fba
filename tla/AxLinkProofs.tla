------------------------------ MODULE AxLinkProofs ------------------------------
(***************************************************************************)
(* That a compressed message which getcompressed() takes for complete is the *)
(* one that putcompressed() was given, whatever lies between them: for any    *)
(* messages, sizes of buffers and queues, and faults.                        *)
(*                                                                         *)
(* What is on its way - in the reader's queue, in the hands of the parent of *)
(* wl2kax25, in the writer's queue and in its stdio buffer - is one sequence *)
(* of bytes.  It takes the reader of the message from the state it is in to  *)
(* one that fits the place where the writer is; every step of the parent and *)
(* of the link moves bytes along that sequence or cuts its end off.          *)
(***************************************************************************)
EXTENDS AxLink, SequenceTheorems, WellFoundedInduction, TLAPS

Byte    == Child!Bytes
Message == [title : Seq(Byte \ {CHRNUL}), offset : {0, 1}, data : Seq(Byte)]

(* The states of getcompressed(); the last one stands for a refused message. *)
Expected == {"soh", "len", "title", "offset", "block", "n", "data", "cksum", "got", "refused"}

(* Those it may be in while message m is on its way to it: when it has got a *)
(* message, that message is m.                                               *)
Frames(m) ==
    {f \in [next : Expected, len : 0 .. Width, title : Seq(Byte), offset : Seq(Byte),
            buf : Seq(Byte)] :
        /\ Len(f.title) =< MaxTitle
        /\ f.next = "got" => /\ f.buf = m.data /\ m.offset = 0
                             /\ f.title = Child!FirstOf(m.title, MaxTitle)}

(* A state of getcompressed(), by its parts.                                 *)
State(next, len, title, offset, buf) ==
    [next |-> next, len |-> len, title |-> title, offset |-> offset, buf |-> buf]

Refused == State("refused", 0, <<>>, <<>>, <<>>)

(* What a byte makes of it, if the checksum is right.                        *)
After(f, b) ==
    CASE f.next = "soh" /\ b = CHRSOH ->
            State("len", f.len, f.title, f.offset, f.buf)
      [] f.next = "len" ->
            State("title", b, f.title, f.offset, f.buf)
      [] f.next = "title" /\ b = CHRNUL ->
            State("offset", f.len - 1, f.title, f.offset, f.buf)
      [] f.next = "title" /\ b # CHRNUL /\ Len(f.title) < MaxTitle ->
            State("title", f.len - 1, Append(f.title, b), f.offset, f.buf)
      [] f.next = "offset" /\ b # CHRNUL /\ Len(f.offset) < 6 ->
            State("offset", f.len - 1, f.title, Append(f.offset, b), f.buf)
      [] f.next = "offset" /\ b = CHRNUL /\ f.len = 1 /\ f.offset = <<Zero>> ->
            State("block", 0, f.title, f.offset, f.buf)
      [] f.next = "block" /\ b = CHRSTX ->
            State("n", f.len, f.title, f.offset, f.buf)
      [] f.next = "block" /\ b = CHREOT ->
            State("cksum", f.len, f.title, f.offset, f.buf)
      [] f.next = "n" ->
            State("data", IF b = 0 THEN Width ELSE b, f.title, f.offset, f.buf)
      [] f.next = "data" ->
            State(IF f.len = 1 THEN "block" ELSE "data", f.len - 1,
                  f.title, f.offset, Append(f.buf, b))
      [] f.next = "cksum" -> State("got", f.len, f.title, f.offset, f.buf)
      [] f.next = "got" -> f
      [] OTHER -> Refused

(* The bytes q take getcompressed() from f into A, through states of Frames. *)
Arrives(m, f, q, A) ==
    \E F \in [0 .. Len(q) -> Frames(m)] :
        /\ F[0] = f /\ F[Len(q)] \in A
        /\ \A i \in 1 .. Len(q) : F[i] = After(F[i - 1], q[i])

(* Nothing leads from a state to itself.                                     *)
LEMMA ArrivesAtOnce ==
    ASSUME NEW m, NEW A, NEW f \in Frames(m), f \in A
    PROVE  Arrives(m, f, <<>>, A)
  <1> DEFINE F == [i \in 0 .. 0 |-> f]
  <1>1. F \in [0 .. Len(<<>>) -> Frames(m)] /\ F[0] = f /\ F[Len(<<>>)] \in A
    OBVIOUS
  <1>2. \A i \in 1 .. Len(<<>>) : F[i] = After(F[i - 1], (<<>>)[i])
    OBVIOUS
  <1>3. QED
    BY <1>1, <1>2 DEF Arrives

(* One byte leads one step.                                                  *)
LEMMA ArrivesByOne ==
    ASSUME NEW m, NEW A, NEW f \in Frames(m), NEW b,
           After(f, b) \in Frames(m), After(f, b) \in A
    PROVE  Arrives(m, f, <<b>>, A)
  <1> DEFINE q == <<b>>
             g == After(f, b)
             F == [i \in 0 .. 1 |-> IF i = 0 THEN f ELSE g]
  <1>0. Len(q) = 1 /\ q[1] = b
    OBVIOUS
  <1>1. F \in [0 .. 1 -> Frames(m)] /\ F[0] = f /\ F[1] = g
    OBVIOUS
  <1>2. \A i \in 1 .. 1 : F[i] = After(F[i - 1], q[i])
    <2> TAKE i \in 1 .. 1
    <2>1. i = 1 /\ i - 1 = 0
      OBVIOUS
    <2> HIDE DEF F, q
    <2>2. F[i - 1] = f /\ q[i] = b /\ F[i] = After(f, b)
      BY <1>0, <1>1, <2>1
    <2>3. QED
      BY <2>2
  <1> HIDE DEF F, q, g
  <1>3. Arrives(m, f, q, A)
    BY <1>0, <1>1, <1>2 DEF Arrives, g
  <1>4. QED
    BY <1>3 DEF q

(* Sequences add up.                                                         *)
LEMMA ArrivesFurther ==
    ASSUME NEW m, NEW f, NEW A, NEW B, NEW S, NEW p \in Seq(S), NEW q \in Seq(S),
           Arrives(m, f, p, A), \A g \in A : Arrives(m, g, q, B)
    PROVE  Arrives(m, f, p \o q, B)
  <1>1. PICK F \in [0 .. Len(p) -> Frames(m)] :
            /\ F[0] = f /\ F[Len(p)] \in A
            /\ \A i \in 1 .. Len(p) : F[i] = After(F[i - 1], p[i])
    BY DEF Arrives
  <1>2. PICK G \in [0 .. Len(q) -> Frames(m)] :
            /\ G[0] = F[Len(p)] /\ G[Len(q)] \in B
            /\ \A i \in 1 .. Len(q) : G[i] = After(G[i - 1], q[i])
    BY <1>1 DEF Arrives
  <1>3. /\ Len(p) \in Nat /\ Len(q) \in Nat /\ Len(p \o q) = Len(p) + Len(q)
        /\ \A i \in 1 .. Len(p) : (p \o q)[i] = p[i]
        /\ \A i \in Len(p) + 1 .. Len(p) + Len(q) : (p \o q)[i] = q[i - Len(p)]
    OBVIOUS
  <1> DEFINE a == Len(p)
             b == Len(q)
             r == p \o q
             H == [i \in 0 .. a + b |-> IF i =< a THEN F[i] ELSE G[i - a]]
  <1>4. H \in [0 .. a + b -> Frames(m)]
    BY <1>3
  <1>5. H[0] = f /\ H[a + b] \in B
    BY <1>1, <1>2, <1>3, SMTT(60)
  <1>6. \A i \in 1 .. a + b : H[i] = After(H[i - 1], r[i])
    <2> TAKE i \in 1 .. a + b
    <2>1. CASE i =< a
      <3>1. H[i] = F[i] /\ H[i - 1] = F[i - 1] /\ r[i] = p[i] /\ i \in 1 .. a
        BY <1>3, <2>1
      <3>2. QED
        BY <1>1, <3>1
    <2>2. CASE i = a + 1
      <3>1. /\ H[i] = G[1] /\ H[i - 1] = F[a] /\ r[i] = q[1] /\ 1 \in 1 .. b
            /\ G[1 - 1] = F[a]
        BY <1>2, <1>3, <2>2
      <3>2. QED
        BY <1>2, <3>1
    <2>3. CASE i > a + 1
      <3>1. /\ H[i] = G[i - a] /\ H[i - 1] = G[(i - a) - 1] /\ r[i] = q[i - a]
            /\ i - a \in 1 .. b
        BY <1>3, <2>3
      <3>2. QED
        BY <1>2, <3>1
    <2>4. i =< a \/ i = a + 1 \/ i > a + 1
      BY <1>3
    <2> HIDE DEF H
    <2>5. QED
      BY <2>1, <2>2, <2>3, <2>4
  <1> HIDE DEF H, r
  <1>7. Len(r) = a + b
    BY <1>3 DEF r
  <1>8. QED
    BY <1>4, <1>5, <1>6, <1>7 DEF Arrives, r

(* What is cut off behind leaves getcompressed() in a state of Frames.       *)
LEMMA ArrivesCut ==
    ASSUME NEW m, NEW f, NEW A, NEW S, NEW p \in Seq(S), NEW q \in Seq(S),
           Arrives(m, f, p \o q, A)
    PROVE  Arrives(m, f, p, Frames(m))
  <1>1. /\ Len(p) \in Nat /\ Len(q) \in Nat /\ Len(p \o q) = Len(p) + Len(q)
        /\ \A i \in 1 .. Len(p) : (p \o q)[i] = p[i]
    OBVIOUS
  <1> DEFINE a == Len(p)
             r == p \o q
  <1>2. PICK F \in [0 .. Len(r) -> Frames(m)] :
            /\ F[0] = f
            /\ \A i \in 1 .. Len(r) : F[i] = After(F[i - 1], r[i])
    BY DEF Arrives
  <1> DEFINE H == [i \in 0 .. a |-> F[i]]
  <1>3. H \in [0 .. a -> Frames(m)] /\ H[0] = f /\ H[a] \in Frames(m)
    BY <1>1, <1>2
  <1>4. \A i \in 1 .. a : H[i] = After(H[i - 1], p[i])
    <2> TAKE i \in 1 .. a
    <2>1. H[i] = F[i] /\ H[i - 1] = F[i - 1] /\ r[i] = p[i] /\ i \in 1 .. Len(r)
      BY <1>1
    <2>2. QED
      BY <1>2, <2>1
  <1> HIDE DEF H
  <1>5. QED
    BY <1>3, <1>4 DEF Arrives

(* getrawchar() takes the first byte, and the rest leads from there on.      *)
LEMMA ArrivesNext ==
    ASSUME NEW m, NEW f, NEW A, NEW S, NEW q \in Seq(S), q # <<>>, Arrives(m, f, q, A)
    PROVE  After(f, Head(q)) \in Frames(m) /\ Arrives(m, After(f, Head(q)), Tail(q), A)
  <1>1. PICK F \in [0 .. Len(q) -> Frames(m)] :
            /\ F[0] = f /\ F[Len(q)] \in A
            /\ \A i \in 1 .. Len(q) : F[i] = After(F[i - 1], q[i])
    BY DEF Arrives
  <1>2. /\ Len(q) \in Nat \ {0} /\ Head(q) = q[1] /\ Len(Tail(q)) = Len(q) - 1
        /\ \A i \in 1 .. Len(q) - 1 : Tail(q)[i] = q[i + 1]
    OBVIOUS
  <1> DEFINE a == Len(q) - 1
             r == Tail(q)
             H == [i \in 0 .. a |-> F[i + 1]]
  <1>3. F[1] = After(f, Head(q)) /\ F[1] \in Frames(m)
    <2>1. F[1] = After(F[1 - 1], q[1])
      BY <1>1, <1>2
    <2>2. QED
      BY <1>1, <1>2, <2>1
  <1>4. H \in [0 .. a -> Frames(m)] /\ H[0] = F[1] /\ H[a] \in A
    BY <1>1, <1>2
  <1>5. \A i \in 1 .. a : H[i] = After(H[i - 1], r[i])
    <2> TAKE i \in 1 .. a
    <2>1. H[i] = F[i + 1] /\ H[i - 1] = F[(i + 1) - 1] /\ r[i] = q[i + 1] /\ i + 1 \in 1 .. Len(q)
      BY <1>2
    <2>2. QED
      BY <1>1, <2>1
  <1>6. Len(r) = a
    BY <1>2
  <1> HIDE DEF H, r, a
  <1>7. Arrives(m, F[1], r, A)
    BY <1>4, <1>5, <1>6 DEF Arrives
  <1>8. QED
    BY <1>3, <1>7 DEF r

(* The end may be described less exactly.                                    *)
LEMMA ArrivesWeaker ==
    ASSUME NEW m, NEW f, NEW q, NEW A, NEW B, A \cap Frames(m) \subseteq B, NEW S, q \in Seq(S),
           Arrives(m, f, q, A)
    PROVE  Arrives(m, f, q, B) /\ f \in Frames(m)
  <1>1. Len(q) \in Nat
    OBVIOUS
  <1>2. QED
    BY <1>1 DEF Arrives

-------------------------------------------------------------------------------
(* One that is not the last is in Frames, whatever the message.              *)
LEMMA StateIsFrame ==
    ASSUME NEW m, NEW n \in Expected \ {"got"}, NEW l \in 0 .. Width, NEW t \in Seq(Byte),
           Len(t) =< MaxTitle, NEW o \in Seq(Byte), NEW b \in Seq(Byte)
    PROVE  State(n, l, t, o, b) \in Frames(m)
  BY DEF State, Frames

(* The state of getcompressed() is that of its local variables.              *)
LEMMA FrameIsState ==
    ASSUME NEW m, NEW f \in Frames(m)
    PROVE  f = State(f.next, f.len, f.title, f.offset, f.buf)
  BY DEF State, Frames

(* The cases of After() that a message takes.                                *)
LEMMA AfterStart == \A l, t, o, b :
    After(State("soh", l, t, o, b), CHRSOH) = State("len", l, t, o, b)
  BY DEF After, State

(* The length byte of the header is kept, and only counted down.             *)
LEMMA AfterLen == \A l, t, o, b, c :
    After(State("len", l, t, o, b), c) = State("title", c, t, o, b)
  BY DEF After, State

(* A title goes on up to its NUL, if there is room for it.                   *)
LEMMA AfterTitle == \A l, t, o, b, c :
    /\ c # CHRNUL /\ Len(t) < MaxTitle =>
          After(State("title", l, t, o, b), c) = State("title", l - 1, Append(t, c), o, b)
    /\ After(State("title", l, t, o, b), CHRNUL) = State("offset", l - 1, t, o, b)
  BY DEF After, State

(* The offset ends with a NUL too, and only "0" is taken.                    *)
LEMMA AfterOffset == \A l, t, o, b, c :
    /\ c # CHRNUL /\ Len(o) < 6 =>
          After(State("offset", l, t, o, b), c) = State("offset", l - 1, t, Append(o, c), b)
    /\ After(State("offset", l, t, o, b), CHRNUL) =
          IF l = 1 /\ o = <<Zero>> THEN State("block", 0, t, o, b) ELSE Refused
  BY DEF After, State

(* STX starts a block and EOT ends the blocks.                               *)
LEMMA AfterBlock == CHRSTX # CHREOT => \A l, t, o, b :
    /\ After(State("block", l, t, o, b), CHRSTX) = State("n", l, t, o, b)
    /\ After(State("block", l, t, o, b), CHREOT) = State("cksum", l, t, o, b)
  BY DEF After, State

(* A length byte of 0 stands for a block of full size; its data are counted  *)
(* down to 1; the checksum ends the message, and nothing comes behind it.    *)
LEMMA AfterData == \A l, t, o, b, c :
    /\ After(State("n", l, t, o, b), c) = State("data", IF c = 0 THEN Width ELSE c, t, o, b)
    /\ After(State("data", l, t, o, b), c) =
          State(IF l = 1 THEN "block" ELSE "data", l - 1, t, o, Append(b, c))
    /\ After(State("cksum", l, t, o, b), c) = State("got", l, t, o, b)
    /\ After(State("got", l, t, o, b), c) = State("got", l, t, o, b)
  BY DEF After, State

(* What is refused stays refused, and what is got stays got.                 *)
LEMMA ArrivesNoMore ==
    ASSUME NEW m, NEW f \in Frames(m), f.next = "got" \/ f = Refused, NEW S, NEW q \in Seq(S)
    PROVE  Arrives(m, f, q, {f})
  <1> DEFINE F == [i \in 0 .. Len(q) |-> f]
  <1>1. \A c : After(f, c) = f
    BY DEF After, Refused, State
  <1>2. Len(q) \in Nat
    OBVIOUS
  <1>3. F \in [0 .. Len(q) -> Frames(m)] /\ F[0] = f /\ F[Len(q)] \in {f}
    BY <1>2
  <1>4. \A i \in 1 .. Len(q) : F[i] = After(F[i - 1], q[i])
    <2> TAKE i \in 1 .. Len(q)
    <2>1. F[i] = f /\ F[i - 1] = f
      BY <1>2
    <2> HIDE DEF F
    <2>2. QED
      BY <1>1, <2>1
  <1> HIDE DEF F
  <1>5. QED
    BY <1>3, <1>4 DEF Arrives

(* A sequence, taken one by one.                                             *)
LEMMA OneByOne ==
    ASSUME NEW S, NEW p \in Seq(S), NEW q \in Seq(S), NEW j \in 1 .. Len(q)
    PROVE  p \o SubSeq(q, 1, j) = Append(p \o SubSeq(q, 1, j - 1), q[j])
  <1>1. /\ Len(q) \in Nat /\ Len(SubSeq(q, 1, j)) = j /\ Len(SubSeq(q, 1, j - 1)) = j - 1
        /\ SubSeq(q, 1, j) \in Seq(S) /\ SubSeq(q, 1, j - 1) \in Seq(S)
        /\ \A i \in 1 .. j : SubSeq(q, 1, j)[i] = q[i]
        /\ \A i \in 1 .. j - 1 : SubSeq(q, 1, j - 1)[i] = q[i]
    OBVIOUS
  <1> DEFINE a == SubSeq(q, 1, j)
             b == SubSeq(q, 1, j - 1)
  <1>2. a = Append(b, q[j])
    BY <1>1
  <1> HIDE DEF a, b
  <1>3. p \o Append(b, q[j]) = Append(p \o b, q[j])
    BY <1>1 DEF b
  <1>4. QED
    BY <1>2, <1>3 DEF a, b

-------------------------------------------------------------------------------
(* The title of a header is read to its end, counting down.                  *)
LEMMA TitleArrives ==
    ASSUME NEW m, NEW t \in Seq(Byte \ {CHRNUL}), Len(t) =< MaxTitle,
           NEW l \in 0 .. Width, Len(t) =< l
    PROVE  Arrives(m, State("title", l, <<>>, <<>>, <<>>), t,
                   {State("title", l - Len(t), t, <<>>, <<>>)})
  <1>1. Width \in Int /\ MaxTitle \in Nat /\ l \in Nat /\ l =< Width
    BY RelayAssumption
  <1>2. Len(t) \in Nat /\ t \in Seq(Byte)
    OBVIOUS
  <1> DEFINE T(j) == SubSeq(t, 1, j)
             F == [j \in 0 .. Len(t) |-> State("title", l - j, T(j), <<>>, <<>>)]
  <1>3. \A j \in 0 .. Len(t) : T(j) \in Seq(Byte) /\ Len(T(j)) = j
    BY <1>2
  <1>4. T(0) = <<>> /\ T(Len(t)) = t
    OBVIOUS
  <1>5. \A j \in 1 .. Len(t) : T(j) = Append(T(j - 1), t[j]) /\ t[j] # CHRNUL
    <2> TAKE j \in 1 .. Len(t)
    <2>1. <<>> \o T(j) = Append(<<>> \o T(j - 1), t[j])
      BY OneByOne, <1>2
    <2>2. T(j) \in Seq(Byte) /\ T(j - 1) \in Seq(Byte)
      BY <1>2
    <2> HIDE DEF T
    <2>3. QED
      BY <2>1, <2>2, <1>2
  <1> HIDE DEF T
  <1>6. F \in [0 .. Len(t) -> Frames(m)]
    <2> SUFFICES ASSUME NEW j \in 0 .. Len(t)
                 PROVE  State("title", l - j, T(j), <<>>, <<>>) \in Frames(m)
      OBVIOUS
    <2>1. /\ l - j \in 0 .. Width /\ Len(T(j)) =< MaxTitle /\ T(j) \in Seq(Byte)
          /\ <<>> \in Seq(Byte)
      BY <1>1, <1>2, <1>3
    <2>2. QED
      BY <2>1, StateIsFrame DEF Expected
  <1>7. \A j \in 1 .. Len(t) : F[j] = After(F[j - 1], t[j])
    <2> TAKE j \in 1 .. Len(t)
    <2>1. /\ j - 1 \in 0 .. Len(t) /\ j \in 0 .. Len(t) /\ (l - (j - 1)) - 1 = l - j
          /\ Len(T(j - 1)) < MaxTitle
      BY <1>1, <1>2, <1>3, SMTT(60)
    <2>2. After(State("title", l - (j - 1), T(j - 1), <<>>, <<>>), t[j])
             = State("title", (l - (j - 1)) - 1, Append(T(j - 1), t[j]), <<>>, <<>>)
      BY <1>5, <2>1, AfterTitle
    <2>3. QED
      BY <1>5, <2>1, <2>2
  <1>8. /\ F[0] = State("title", l, <<>>, <<>>, <<>>)
        /\ F[Len(t)] = State("title", l - Len(t), t, <<>>, <<>>)
    BY <1>1, <1>2, <1>4
  <1> HIDE DEF F
  <1>9. QED
    BY <1>6, <1>7, <1>8 DEF Arrives

(* So is a block, as far as its length says.                                 *)
LEMMA BlockArrives ==
    ASSUME NEW m, NEW q \in Seq(Byte), Len(q) \in 1 .. Width, NEW t \in Seq(Byte),
           Len(t) =< MaxTitle, NEW o \in Seq(Byte), NEW b \in Seq(Byte)
    PROVE  Arrives(m, State("data", Len(q), t, o, b), q, {State("block", 0, t, o, b \o q)})
  <1>1. Width \in Int /\ Len(q) \in Nat /\ Len(q) > 0
    BY RelayAssumption, SMTT(60)
  <1> DEFINE l    == Len(q)
             B(j) == b \o SubSeq(q, 1, j)
             F == [j \in 0 .. l |-> State(IF j = l THEN "block" ELSE "data", l - j, t, o, B(j))]
  <1>2. \A j \in 0 .. l : B(j) \in Seq(Byte)
    OBVIOUS
  <1>3. B(0) = b /\ B(l) = b \o q
    OBVIOUS
  <1>4. \A j \in 1 .. l : B(j) = Append(B(j - 1), q[j])
    BY OneByOne
  <1> HIDE DEF B
  <1>5. F \in [0 .. l -> Frames(m)]
    <2> SUFFICES ASSUME NEW j \in 0 .. l
                 PROVE  State(IF j = l THEN "block" ELSE "data", l - j, t, o, B(j)) \in Frames(m)
      OBVIOUS
    <2>1. l - j \in 0 .. Width /\ B(j) \in Seq(Byte)
      BY <1>1, <1>2
    <2>2. QED
      BY <2>1, StateIsFrame DEF Expected
  <1>6. \A j \in 1 .. l : F[j] = After(F[j - 1], q[j])
    <2> TAKE j \in 1 .. l
    <2>1. /\ j - 1 \in 0 .. l /\ j \in 0 .. l /\ (l - (j - 1)) - 1 = l - j /\ j - 1 # l
          /\ (l - (j - 1) = 1) = (j = l)
      BY <1>1
    <2>2. After(State("data", l - (j - 1), t, o, B(j - 1)), q[j])
             = State(IF l - (j - 1) = 1 THEN "block" ELSE "data", (l - (j - 1)) - 1, t, o,
                     Append(B(j - 1), q[j]))
      BY AfterData, SMTT(60)
    <2>3. QED
      BY <1>4, <2>1, <2>2
  <1>7. /\ F[0] = State("data", l, t, o, b)
        /\ F[l] = State("block", 0, t, o, b \o q)
    <2>1. l - l = 0 /\ l - 0 = l /\ 0 # l /\ 0 \in 0 .. l /\ l \in 0 .. l
      BY <1>1
    <2>2. QED
      BY <1>3, <2>1
  <1> HIDE DEF F
  <1>8. QED
    BY <1>5, <1>6, <1>7 DEF Arrives

-------------------------------------------------------------------------------
(* Where getcompressed() is when it has read all that putcompressed() has    *)
(* written: of a message of which "rest" is still to be written, or all.     *)
Within(m, rest) ==
    {Refused} \cup {g \in Frames(m) : /\ g.next = "block" /\ m.offset = 0
                                      /\ g.title = Child!FirstOf(m.title, MaxTitle)
                                      /\ g.buf \o rest = m.data}

Done(m) == {g \in Frames(m) : g.next = "got" \/ g = Refused}

(* The first and the other parts of a sequence are sequences that make it up. *)
LEMMA PartsOf ==
    ASSUME NEW S, NEW q \in Seq(S), NEW n \in Nat
    PROVE  /\ Child!FirstOf(q, n) \in Seq(S) /\ Child!RestOf(q, n) \in Seq(S)
           /\ Len(Child!FirstOf(q, n)) = IF Len(q) < n THEN Len(q) ELSE n
           /\ Len(Child!RestOf(q, n)) =< Len(q)
           /\ Child!FirstOf(q, n) \o Child!RestOf(q, n) = q
  <1> DEFINE k == IF Len(q) < n THEN Len(q) ELSE n
  <1>1. k \in 0 .. Len(q) /\ Len(q) \in Nat
    OBVIOUS
  <1>2. SubSeq(q, 1, k) \in Seq(S) /\ Len(SubSeq(q, 1, k)) = k
    BY <1>1, SubSeqProperties
  <1>3. SubSeq(q, n + 1, Len(q)) \in Seq(S) /\ Len(SubSeq(q, n + 1, Len(q))) =< Len(q)
    BY <1>1, SubSeqProperties
  <1>4. SubSeq(q, 1, k) \o SubSeq(q, n + 1, Len(q)) = q
    <2>1. SubSeq(q, k + 1, Len(q)) = SubSeq(q, n + 1, Len(q))
      <3>1. CASE Len(q) < n
        <4>1. SubSeq(q, k + 1, Len(q)) = <<>> /\ SubSeq(q, n + 1, Len(q)) = <<>>
          BY <3>1, <1>1, SubSeqEmpty
        <4>2. QED
          BY <4>1
      <3>2. CASE ~(Len(q) < n)
        BY <3>2
      <3>3. QED
        BY <3>1, <3>2
    <2>2. SubSeq(q, 1, k) \o SubSeq(q, k + 1, Len(q)) = SubSeq(q, 1, Len(q))
      <3>1. 1 \in 1 .. Len(q) + 1 /\ k \in 1 - 1 .. Len(q) /\ Len(q) \in k .. Len(q)
        BY <1>1
      <3> HIDE DEF k
      <3>2. QED
        BY <3>1, ConcatAdjacentSubSeq
    <2>3. QED
      BY <2>1, <2>2, SubSeqFull
  <1>5. QED
    BY <1>2, <1>3, <1>4 DEF Child!FirstOf, Child!RestOf

(* Two bytes lead two steps.                                                 *)
LEMMA ArrivesByTwo ==
    ASSUME NEW m, NEW A, NEW f \in Frames(m), NEW b, NEW c, After(f, b) \in Frames(m),
           After(After(f, b), c) \in Frames(m), After(After(f, b), c) \in A
    PROVE  Arrives(m, f, <<b, c>>, A)
  <1>1. Arrives(m, f, <<b>>, {After(f, b)})
    BY ArrivesByOne
  <1>2. \A g \in {After(f, b)} : Arrives(m, g, <<c>>, A)
    BY ArrivesByOne
  <1> DEFINE p == <<b>>
             q == <<c>>
             r == <<b, c>>
  <1>3. p \in Seq({b, c}) /\ q \in Seq({b, c}) /\ r = p \o q
    <2>1. /\ p \in Seq({b, c}) /\ q \in Seq({b, c}) /\ r \in Seq({b, c})
          /\ Len(p) = 1 /\ Len(q) = 1 /\ Len(r) = 2
          /\ p[1] = b /\ q[1] = c /\ r[1] = b /\ r[2] = c
      OBVIOUS
    <2> HIDE DEF p, q, r
    <2>2. /\ p \o q \in Seq({b, c}) /\ Len(p \o q) = Len(p) + Len(q)
          /\ \A i \in 1 .. Len(p) + Len(q) : (p \o q)[i] = IF i =< Len(p) THEN p[i]
                                                         ELSE q[i - Len(p)]
      BY <2>1, ConcatProperties
    <2>3. Len(p \o q) = 2 /\ \A i \in 1 .. 2 : (p \o q)[i] = r[i]
      BY <2>1, <2>2
    <2>4. QED
      BY <2>1, <2>2, <2>3, SeqEqual
  <1>4. Arrives(m, f, <<b>> \o <<c>>, A)
    BY <1>1, <1>2, <1>3, ArrivesFurther
  <1>5. QED
    BY <1>3, <1>4

(* A message that is refused is one of the ends getcompressed() may come to. *)
LEMMA RefusedIsFrame ==
    ASSUME NEW m
    PROVE  Refused \in Frames(m)
  <1>1. <<>> \in Seq(Byte) /\ Len(<<>>) =< MaxTitle /\ 0 \in 0 .. Width
    BY RelayAssumption
  <1>2. QED
    BY <1>1, StateIsFrame DEF Refused, Expected

(* The title of a header is a C string of limited length.                    *)
LEMMA TitleOf ==
    ASSUME NEW m \in Message
    PROVE  LET t == Child!FirstOf(m.title, MaxTitle)
           IN t \in Seq(Byte) /\ t \in Seq(Byte \ {CHRNUL}) /\ Len(t) =< MaxTitle /\ Len(t) \in Nat
  <1>1. m.title \in Seq(Byte \ {CHRNUL}) /\ MaxTitle \in Nat
    BY RelayAssumption DEF Message
  <1> DEFINE t == Child!FirstOf(m.title, MaxTitle)
  <1>2. t \in Seq(Byte \ {CHRNUL}) /\ Len(t) =< MaxTitle
    BY <1>1, PartsOf
  <1> HIDE DEF t
  <1>3. t \in Seq(Byte) /\ Len(t) \in Nat
    BY <1>2
  <1>4. QED
    BY <1>2, <1>3 DEF t

(* The offset is one character, which tells 0 from other offsets.            *)
LEMMA OffsetOf ==
    ASSUME NEW m \in Message
    PROVE  LET d == Child!Digits(m.offset)
           IN /\ \E c \in {Zero, One} : d = <<c>>
              /\ d \in Seq(Byte) /\ Len(d) = 1 /\ (m.offset = 0) = (d = <<Zero>>)
  <1>1. m.offset \in {0, 1} /\ Zero \in Byte /\ One \in Byte /\ Zero # One
    BY RelayAssumption DEF Message, Byte, Child!Bytes
  <1>2. <<Zero>> # <<One>>
    <2>1. (<<Zero>>)[1] = Zero /\ (<<One>>)[1] = One
      OBVIOUS
    <2>2. QED
      BY <1>1, <2>1
  <1>3. CASE m.offset = 0
    BY <1>1, <1>3 DEF Child!Digits
  <1>4. CASE m.offset = 1
    BY <1>1, <1>2, <1>4 DEF Child!Digits
  <1>5. QED
    BY <1>1, <1>3, <1>4

(* The bytes of the header that putcompressed() writes for message m.        *)
HeaderOf(m) == LET title  == Child!FirstOf(m.title, MaxTitle)
                   offset == Child!Digits(m.offset)
               IN <<CHRSOH, Len(title) + Len(offset) + 2>>
                    \o title \o <<CHRNUL>> \o offset \o <<CHRNUL>>

(* The header is a sequence of bytes.                                        *)
LEMMA HeaderBytes ==
    ASSUME NEW m \in Message
    PROVE  HeaderOf(m) \in Seq(Byte)
  <1> DEFINE t == Child!FirstOf(m.title, MaxTitle)
             d == Child!Digits(m.offset)
  <1>1. t \in Seq(Byte) /\ Len(t) =< MaxTitle /\ Len(t) \in Nat
    BY TitleOf
  <1>2. d \in Seq(Byte) /\ Len(d) = 1
    BY OffsetOf
  <1>3. /\ <<CHRSOH, Len(t) + Len(d) + 2>> \in Seq(Byte)
        /\ <<CHRNUL>> \in Seq(Byte)
    BY <1>1, <1>2, RelayAssumption, SMTT(60) DEF Byte, Child!Bytes
  <1> HIDE DEF t, d
  <1>4. <<CHRSOH, Len(t) + Len(d) + 2>> \o t \o <<CHRNUL>> \o d \o <<CHRNUL>> \in Seq(Byte)
    BY <1>1, <1>2, <1>3
  <1>5. QED
    BY <1>4 DEF HeaderOf, t, d

(* A header that putcompressed() writes is read to its end, and refused at   *)
(* the end if the message does not start at 0.                               *)
LEMMA HeaderArrives ==
    ASSUME NEW m \in Message
    PROVE  Arrives(m, Child!NewFrame, HeaderOf(m), Within(m, Child!RestOf(m.data, m.offset)))
  <1> DEFINE t == Child!FirstOf(m.title, MaxTitle)
             d == Child!Digits(m.offset)
             n == Len(t) + 3
             E == Within(m, Child!RestOf(m.data, m.offset))
             h == <<CHRSOH, n>>
             z == <<CHRNUL>>
             f3 == State("title", 3, t, <<>>, <<>>)
             f4 == State("offset", 2, t, <<>>, <<>>)
             f5 == State("offset", 1, t, d, <<>>)
             f6 == State("block", 0, t, d, <<>>)
  <1>1. /\ t \in Seq(Byte) /\ t \in Seq(Byte \ {CHRNUL}) /\ Len(t) =< MaxTitle /\ Len(t) \in Nat
        /\ <<>> \in Seq(Byte) /\ m.data \in Seq(Byte) /\ Len(<<>>) =< MaxTitle
    <2>1. m.data \in Seq(Byte)
      BY DEF Message
    <2>2. <<>> \in Seq(Byte) /\ Len(<<>>) =< MaxTitle
      BY RelayAssumption
    <2>3. QED
      BY <2>1, <2>2, TitleOf
  <1>2. /\ \E c \in {Zero, One} : d = <<c>>
        /\ d \in Seq(Byte) /\ Len(d) = 1 /\ (m.offset = 0) = (d = <<Zero>>)
    BY OffsetOf
  <1>3. /\ n \in 0 .. Width /\ MaxTitle \in Nat /\ {1, 2, 3} \subseteq 0 .. Width
        /\ 0 \in 0 .. Width /\ n - Len(t) = 3 /\ Len(t) =< n
    <2>1. MaxTitle \in Nat /\ Width \in Nat /\ MaxTitle + 3 < Width
      BY RelayAssumption
    <2> QED
      BY <1>1, <2>1
  <1>4. /\ h \in Seq(Byte) /\ z \in Seq(Byte)
        /\ Child!NewFrame = State("soh", 0, <<>>, <<>>, <<>>)
    BY <1>1, RelayAssumption, SMTT(60) DEF Byte, Child!Bytes, Child!NewFrame, State
  <1>5. HeaderOf(m) = h \o t \o z \o d \o z
    <2>1. Len(t) + Len(d) + 2 = n
      BY <1>1, <1>2
    <2>2. HeaderOf(m) = <<CHRSOH, Len(t) + Len(d) + 2>> \o t \o <<CHRNUL>> \o d \o <<CHRNUL>>
      BY DEF HeaderOf
    <2> HIDE DEF n, t, d
    <2>3. QED
      BY <2>1, <2>2
  <1> HIDE DEF t, d, n, h, z, E
  <1>6. Arrives(m, Child!NewFrame, h, {State("title", n, <<>>, <<>>, <<>>)})
    <2>1. /\ State("soh", 0, <<>>, <<>>, <<>>) \in Frames(m)
          /\ State("len", 0, <<>>, <<>>, <<>>) \in Frames(m)
          /\ State("title", n, <<>>, <<>>, <<>>) \in Frames(m)
      BY <1>1, <1>3, StateIsFrame DEF Expected
    <2>2. QED
      BY <1>4, <2>1, AfterStart, AfterLen, ArrivesByTwo DEF h
  <1>7. Arrives(m, State("title", n, <<>>, <<>>, <<>>), t, {f3})
    BY <1>1, <1>3, TitleArrives
  <1>8. f3 \in Frames(m) /\ f4 \in Frames(m) /\ f5 \in Frames(m) /\ f6 \in Frames(m)
    BY <1>1, <1>2, <1>3, StateIsFrame DEF Expected
  <1>9. Arrives(m, f3, z, {f4})
    <2>1. After(f3, CHRNUL) = State("offset", 3 - 1, t, <<>>, <<>>)
      BY AfterTitle
    <2>2. 3 - 1 = 2
      OBVIOUS
    <2>3. QED
      BY <1>8, <2>1, <2>2, ArrivesByOne DEF z
  <1>10. Arrives(m, f4, d, {f5})
    <2>1. PICK c \in {Zero, One} : d = <<c>>
      BY <1>2
    <2>2. c # CHRNUL /\ Append(<<>>, c) = <<c>> /\ 2 - 1 = 1 /\ Len(<<>>) < 6
      BY RelayAssumption
    <2>3. \A o, b : Len(o) < 6 => After(State("offset", 2, t, o, b), c)
                                   = State("offset", 2 - 1, t, Append(o, c), b)
      BY <2>2, AfterOffset
    <2>4. After(f4, c) = f5
      BY <2>1, <2>2, <2>3
    <2>5. QED
      BY <1>8, <2>1, <2>4, ArrivesByOne
  <1>11. Arrives(m, f5, z, E)
    <2>1. After(f5, CHRNUL) = IF d = <<Zero>> THEN f6 ELSE Refused
      BY AfterOffset
    <2>2. After(f5, CHRNUL) \in E
      <3>1. CASE d = <<Zero>>
        <4>1. m.offset = 0 /\ <<>> \o Child!RestOf(m.data, 0) = m.data
          BY <1>1, <1>2, <3>1 DEF Child!RestOf
        <4>2. f6.next = "block" /\ f6.title = t /\ f6.buf = <<>>
          BY DEF State
        <4> HIDE DEF f6
        <4>3. f6 \in E
          BY <1>8, <4>1, <4>2 DEF E, Within, t
        <4>4. QED
          BY <2>1, <3>1, <4>3
      <3>2. CASE d # <<Zero>>
        BY <2>1, <3>2 DEF E, Within
      <3>3. QED
        BY <3>1, <3>2
    <2>3. After(f5, CHRNUL) \in Frames(m)
      BY <1>8, <2>1, RefusedIsFrame
    <2>4. QED
      BY <1>8, <2>2, <2>3, ArrivesByOne DEF z
  <1> HIDE DEF f3, f4, f5, f6
  <1>12. Arrives(m, Child!NewFrame, h \o t, {f3})
    BY <1>1, <1>4, <1>6, <1>7, ArrivesFurther
  <1>13. Arrives(m, Child!NewFrame, h \o t \o z, {f4})
    <2>1. h \o t \in Seq(Byte)
      BY <1>1, <1>4
    <2>2. QED
      BY <1>4, <1>9, <1>12, <2>1, ArrivesFurther
  <1>14. Arrives(m, Child!NewFrame, h \o t \o z \o d, {f5})
    <2>1. h \o t \o z \in Seq(Byte)
      BY <1>1, <1>4
    <2>2. QED
      BY <1>2, <1>10, <1>13, <2>1, ArrivesFurther
  <1>15. Arrives(m, Child!NewFrame, h \o t \o z \o d \o z, E)
    <2>1. h \o t \o z \o d \in Seq(Byte)
      BY <1>1, <1>2, <1>4
    <2>2. QED
      BY <1>4, <1>11, <1>14, <2>1, ArrivesFurther
  <1>16. QED
    BY <1>5, <1>15 DEF E

(* Concatenation does not depend on where the queues are split.              *)
LEMMA Associative == \A a, b, c \in Seq(Byte) : (a \o b) \o c = a \o (b \o c)
  <1> TAKE a, b, c \in Seq(Byte)
  <1> HIDE DEF Byte
  <1>1. QED
    BY ConcatAssociative

(* The length of a block as a byte, and back.                                *)
LEMMA LengthByte ==
    ASSUME NEW l \in 1 .. Width
    PROVE  /\ l % Width \in Byte
           /\ (IF l % Width = 0 THEN Width ELSE l % Width) = l
  <1>1. Width \in Nat \ {0} /\ l \in Nat
    BY RelayAssumption
  <1>2. CASE l = Width
    <2>1. l % Width = 0
      BY <1>1, <1>2
    <2>2. QED
      BY <1>1, <1>2, <2>1 DEF Byte, Child!Bytes
  <1>3. CASE l < Width
    <2>1. l % Width = l
      BY <1>1, <1>3
    <2>2. QED
      BY <1>1, <1>3, <2>1 DEF Byte, Child!Bytes
  <1>4. QED
    BY <1>1, <1>2, <1>3

(* A block is read as it was written, a full one too.                        *)
LEMMA BlockPut ==
    ASSUME NEW m, NEW rest \in Seq(Byte), rest # <<>>, NEW c \in 1 .. Width,
           NEW g \in Within(m, rest)
    PROVE  LET q == Child!FirstOf(rest, c)
               h == <<CHRSTX, Len(q) % Width>>
           IN h \o q \in Seq(Byte) /\ Arrives(m, g, h \o q, Within(m, Child!RestOf(rest, c)))
  <1> DEFINE q == Child!FirstOf(rest, c)
             r == Child!RestOf(rest, c)
             h == <<CHRSTX, Len(q) % Width>>
             f1 == State("n", g.len, g.title, g.offset, g.buf)
             f2 == State("data", Len(q), g.title, g.offset, g.buf)
             f3 == State("block", 0, g.title, g.offset, g.buf \o q)
  <1>1. /\ q \in Seq(Byte) /\ r \in Seq(Byte) /\ q \o r = rest /\ Len(q) \in 1 .. Width
        /\ Width \in Nat \ {0}
    <2>1. Width \in Nat \ {0} /\ c \in Nat /\ Len(rest) \in Nat \ {0}
      BY EmptySeq, RelayAssumption
    <2>2. QED
      BY <2>1, PartsOf, SMTT(60)
  <1>2. h \in Seq(Byte)
    BY <1>1, LengthByte, RelayAssumption DEF Byte, Child!Bytes
  <1> HIDE DEF q, r, h
  <1>3. h \o q \in Seq(Byte)
    BY <1>1, <1>2
  <1>4. CASE g = Refused
    <2>1. Arrives(m, g, h \o q, {g})
      BY <1>3, <1>4, RefusedIsFrame, ArrivesNoMore
    <2>2. {g} \cap Frames(m) \subseteq Within(m, r)
      BY <1>4 DEF Within
    <2>3. Arrives(m, g, h \o q, Within(m, r))
      BY <1>3, <2>1, <2>2, ArrivesWeaker
    <2>4. QED
      BY <1>3, <2>3 DEF q, r, h
  <1>5. CASE g # Refused
    <2>1. /\ g \in Frames(m) /\ g.next = "block" /\ m.offset = 0
          /\ g.title = Child!FirstOf(m.title, MaxTitle) /\ g.buf \o rest = m.data
      BY <1>5 DEF Within
    <2>2. /\ g.len \in 0 .. Width /\ g.title \in Seq(Byte) /\ Len(g.title) =< MaxTitle
          /\ g.offset \in Seq(Byte) /\ g.buf \in Seq(Byte)
      BY <2>1 DEF Frames
    <2>3. g = State("block", g.len, g.title, g.offset, g.buf)
      BY <2>1, FrameIsState
    <2>4. /\ f1 \in Frames(m) /\ f2 \in Frames(m) /\ f3 \in Frames(m)
      <3>1. g.buf \o q \in Seq(Byte) /\ Len(q) \in 0 .. Width /\ 0 \in 0 .. Width
        BY <1>1, <2>2
      <3>2. QED
        BY <2>2, <3>1, StateIsFrame DEF Expected
    <2>5. After(g, CHRSTX) = f1
      BY <2>3, AfterBlock, RelayAssumption
    <2>6. After(f1, Len(q) % Width) = f2
      <3>1. (IF Len(q) % Width = 0 THEN Width ELSE Len(q) % Width) = Len(q)
        BY <1>1, LengthByte
      <3> DEFINE x == Len(q) % Width
      <3>2. After(f1, x) = State("data", IF x = 0 THEN Width ELSE x, g.title, g.offset, g.buf)
        BY AfterData
      <3>3. QED
        BY <3>1, <3>2
    <2> HIDE DEF f1
    <2>7. Arrives(m, g, h, {f2})
      BY <2>1, <2>4, <2>5, <2>6, ArrivesByTwo DEF h
    <2>8. Arrives(m, f2, q, {f3})
      BY <1>1, <2>2, BlockArrives
    <2>9. f3 \in Within(m, r)
      <3>1. (g.buf \o q) \o r = m.data
        <4> DEFINE b == g.buf
        <4>1. b \in Seq(Byte) /\ b \o rest = m.data
          BY <2>1, <2>2
        <4> HIDE DEF b
        <4>2. (b \o q) \o r = b \o (q \o r)
          BY <1>1, <4>1, Associative
        <4>3. QED
          BY <1>1, <4>1, <4>2 DEF b
      <3>2. f3.next = "block" /\ f3.title = g.title /\ f3.buf = g.buf \o q
        BY DEF State
      <3> HIDE DEF f3
      <3>3. QED
        BY <2>1, <2>4, <3>1, <3>2 DEF Within
    <2> HIDE DEF f2, f3
    <2>10. Arrives(m, f2, q, Within(m, r))
      BY <1>1, <2>8, <2>9, ArrivesWeaker
    <2>11. Arrives(m, g, h \o q, Within(m, r))
      BY <1>1, <1>2, <2>7, <2>10, ArrivesFurther
    <2>12. QED
      BY <1>3, <2>11 DEF q, r, h
  <1>6. QED
    BY <1>4, <1>5

(* The checksum ends a message of which all is written.                      *)
LEMMA ChecksumPut ==
    ASSUME NEW m, m.data \in Seq(Byte), NEW g \in Within(m, <<>>), NEW x
    PROVE  Arrives(m, g, <<CHREOT, x>>, Done(m))
  <1>1. CASE g = Refused
    <2> DEFINE q == <<CHREOT, x>>
    <2>1. q \in Seq({CHREOT, x})
      OBVIOUS
    <2> HIDE DEF q
    <2>2. Arrives(m, g, q, {g})
      BY <1>1, <2>1, RefusedIsFrame, ArrivesNoMore
    <2>3. {g} \cap Frames(m) \subseteq Done(m)
      BY <1>1 DEF Done
    <2>4. Arrives(m, g, q, Done(m))
      BY <2>1, <2>2, <2>3, ArrivesWeaker
    <2>5. QED
      BY <2>4 DEF q
  <1>2. CASE g # Refused
    <2>1. /\ g \in Frames(m) /\ g.next = "block" /\ m.offset = 0
          /\ g.title = Child!FirstOf(m.title, MaxTitle) /\ g.buf \o <<>> = m.data
      BY <1>2 DEF Within
    <2>2. /\ g.len \in 0 .. Width /\ g.title \in Seq(Byte) /\ Len(g.title) =< MaxTitle
          /\ g.offset \in Seq(Byte) /\ g.buf \in Seq(Byte)
      BY <2>1 DEF Frames
    <2> DEFINE f1 == State("cksum", g.len, g.title, g.offset, g.buf)
               f2 == State("got", g.len, g.title, g.offset, g.buf)
    <2>3. g = State("block", g.len, g.title, g.offset, g.buf)
      BY <2>1, FrameIsState
    <2>4. After(g, CHREOT) = f1 /\ After(f1, x) = f2
      BY <2>3, AfterBlock, AfterData, RelayAssumption, SMTT(60)
    <2>5. f1 \in Frames(m)
      BY <2>2, StateIsFrame DEF Expected
    <2>6. f2 \in Frames(m) /\ f2 \in Done(m)
      <3>1. g.buf = m.data
        BY <2>1, <2>2, ConcatEmptySeq
      <3>2. QED
        BY <2>1, <2>2, <3>1 DEF Frames, State, Done, Expected
    <2> HIDE DEF f1, f2
    <2>7. QED
      BY <2>1, <2>4, <2>5, <2>6, ArrivesByTwo
  <1>3. QED
    BY <1>1, <1>2

-------------------------------------------------------------------------------
(* What the assignments of GetHeaderLen and GetBlockLen amount to.           *)
LEMMA Updated ==
    ASSUME NEW m, NEW f \in Frames(m), NEW n, NEW l
    PROVE  [f EXCEPT !.next = n, !.len = l] = State(n, l, f.title, f.offset, f.buf)
  <1> DEFINE g == [f EXCEPT !.next = n, !.len = l]
  <1>1. f \in [next : Expected, len : 0 .. Width, title : Seq(Byte), offset : Seq(Byte),
               buf : Seq(Byte)]
    BY DEF Frames
  <1>2. g \in [next : {n}, len : {l}, title : {f.title}, offset : {f.offset}, buf : {f.buf}]
    BY <1>1
  <1> HIDE DEF g
  <1>3. g = State(n, l, f.title, f.offset, f.buf)
    BY <1>2 DEF State
  <1>4. QED
    BY <1>3 DEF g

(* getcompressed() takes each byte as After() says, or refuses the message.  *)
LEMMA ChildReads ==
    ASSUME NEW m, frameC \in Frames(m), Child!Get("say")
    PROVE  /\ modeC = "get" /\ wbufC = <<>> /\ down # <<>> /\ down' = Tail(down)
           /\ UNCHANGED <<propC, restC, wbufC, up>>
           /\ \/ modeC' = "dead" /\ frameC' = frameC
              \/ modeC' \in {"get", "say"} /\ frameC' = After(frameC, Head(down))
  <1>1. frameC \in [next : Expected, len : 0 .. Width, title : Seq(Byte), offset : Seq(Byte),
                    buf : Seq(Byte)]
    BY DEF Frames
  <1>2. CASE Child!GetStart
    BY <1>1, <1>2 DEF Child!GetStart, Child!GetChar, Child!Rejected, After, State
  <1>3. CASE Child!GetHeaderLen
    <2>1. frameC' = State("title", Head(down), frameC.title, frameC.offset, frameC.buf)
      BY <1>3, Updated DEF Child!GetHeaderLen
    <2>2. QED
      BY <1>3, <2>1 DEF Child!GetHeaderLen, Child!GetChar, After
  <1>4. CASE Child!GetTitle
    BY <1>1, <1>4 DEF Child!GetTitle, Child!GetChar, Child!Rejected, After, State
  <1>5. CASE Child!GetOffset
    BY <1>1, <1>5 DEF Child!GetOffset, Child!GetChar, Child!Rejected, After, State
  <1>6. CASE Child!GetBlockStart
    BY <1>1, <1>6 DEF Child!GetBlockStart, Child!GetChar, Child!Rejected, After, State
  <1>7. CASE Child!GetBlockLen
    <2>1. frameC' = State("data", IF Head(down) = 0 THEN Width ELSE Head(down), frameC.title,
                          frameC.offset, frameC.buf)
      BY <1>7, Updated DEF Child!GetBlockLen
    <2>2. QED
      BY <1>7, <2>1 DEF Child!GetBlockLen, Child!GetChar, After
  <1>8. CASE Child!GetData
    <2>1. frameC.next = "data"
      BY <1>8 DEF Child!GetData, Child!GetChar
    <2>2. frameC' = State(IF frameC.len = 1 THEN "block" ELSE "data", frameC.len - 1,
                          frameC.title, frameC.offset, Append(frameC.buf, Head(down)))
      <3> DEFINE n == IF frameC.len = 1 THEN "block" ELSE "data"
                 l == frameC.len - 1
                 b == Append(frameC.buf, Head(down))
      <3>1. frameC' = [frameC EXCEPT !.buf = b, !.len = l, !.next = n]
        BY <1>1, <1>8, <2>1 DEF Child!GetData
      <3> HIDE DEF n, l, b
      <3>2. frameC' \in [next : {n}, len : {l}, title : {frameC.title},
                        offset : {frameC.offset}, buf : {b}]
        BY <1>1, <3>1
      <3>3. frameC' = State(n, l, frameC.title, frameC.offset, b)
        BY <3>2 DEF State
      <3>4. QED
        BY <3>3 DEF n, l, b
    <2>3. QED
      BY <1>8, <2>1, <2>2 DEF Child!GetData, Child!GetChar, After
  <1>9. CASE Child!GetChecksum("say")
    BY <1>1, <1>9 DEF Child!GetChecksum, Child!GetChar, Child!Rejected, After, State
  <1>10. QED
    BY <1>2, <1>3, <1>4, <1>5, <1>6, <1>7, <1>8, <1>9 DEF Child!Get

(* So does that of the other station.                                        *)
LEMMA PeerReads ==
    ASSUME NEW m, frameP \in Frames(m), Peer!Get("header")
    PROVE  /\ modeP = "get" /\ wbufP = <<>> /\ airOut # <<>> /\ airOut' = Tail(airOut)
           /\ UNCHANGED <<propP, restP, wbufP, airIn>>
           /\ \/ modeP' = "dead" /\ frameP' = frameP
              \/ modeP' \in {"get", "header"} /\ frameP' = After(frameP, Head(airOut))
  <1>1. frameP \in [next : Expected, len : 0 .. Width, title : Seq(Byte), offset : Seq(Byte),
                    buf : Seq(Byte)]
    BY DEF Frames
  <1>2. CASE Peer!GetStart
    BY <1>1, <1>2 DEF Peer!GetStart, Peer!GetChar, Peer!Rejected, After, State
  <1>3. CASE Peer!GetHeaderLen
    <2>1. frameP' = State("title", Head(airOut), frameP.title, frameP.offset, frameP.buf)
      BY <1>3, Updated DEF Peer!GetHeaderLen
    <2>2. QED
      BY <1>3, <2>1 DEF Peer!GetHeaderLen, Peer!GetChar, After
  <1>4. CASE Peer!GetTitle
    BY <1>1, <1>4 DEF Peer!GetTitle, Peer!GetChar, Peer!Rejected, After, State
  <1>5. CASE Peer!GetOffset
    BY <1>1, <1>5 DEF Peer!GetOffset, Peer!GetChar, Peer!Rejected, After, State
  <1>6. CASE Peer!GetBlockStart
    BY <1>1, <1>6 DEF Peer!GetBlockStart, Peer!GetChar, Peer!Rejected, After, State
  <1>7. CASE Peer!GetBlockLen
    <2>1. frameP' = State("data", IF Head(airOut) = 0 THEN Width ELSE Head(airOut), frameP.title,
                          frameP.offset, frameP.buf)
      BY <1>7, Updated DEF Peer!GetBlockLen
    <2>2. QED
      BY <1>7, <2>1 DEF Peer!GetBlockLen, Peer!GetChar, After
  <1>8. CASE Peer!GetData
    <2>1. frameP.next = "data"
      BY <1>8 DEF Peer!GetData, Peer!GetChar
    <2>2. frameP' = State(IF frameP.len = 1 THEN "block" ELSE "data", frameP.len - 1,
                          frameP.title, frameP.offset, Append(frameP.buf, Head(airOut)))
      <3> DEFINE n == IF frameP.len = 1 THEN "block" ELSE "data"
                 l == frameP.len - 1
                 b == Append(frameP.buf, Head(airOut))
      <3>1. frameP' = [frameP EXCEPT !.buf = b, !.len = l, !.next = n]
        BY <1>1, <1>8, <2>1 DEF Peer!GetData
      <3> HIDE DEF n, l, b
      <3>2. frameP' \in [next : {n}, len : {l}, title : {frameP.title},
                        offset : {frameP.offset}, buf : {b}]
        BY <1>1, <3>1
      <3>3. frameP' = State(n, l, frameP.title, frameP.offset, b)
        BY <3>2 DEF State
      <3>4. QED
        BY <3>3 DEF n, l, b
    <2>3. QED
      BY <1>8, <2>1, <2>2 DEF Peer!GetData, Peer!GetChar, After
  <1>9. CASE Peer!GetChecksum("header")
    BY <1>1, <1>9 DEF Peer!GetChecksum, Peer!GetChar, Peer!Rejected, After, State
  <1>10. QED
    BY <1>2, <1>3, <1>4, <1>5, <1>6, <1>7, <1>8, <1>9 DEF Peer!Get

-------------------------------------------------------------------------------
(* A set of numbers has a smallest one: what induction comes down to here.   *)
LEMMA Smallest ==
    ASSUME NEW T \in SUBSET Nat, T # {}
    PROVE  \E n \in T : \A k \in T : n =< k
  <1>1. PICK n \in T : \A k \in T : ~(<<k, n>> \in OpToRel(<, Nat))
    BY NatLessThanWellFounded, WFMin
  <1>2. \A k \in T : ~ (k < n)
    BY <1>1 DEF OpToRel
  <1>3. QED
    BY <1>2

(* The checksum adds up numbers.                                             *)
LEMMA SumIsInt ==
    ASSUME NEW q \in Seq(Int)
    PROVE  Child!SumOf(q) \in Int
  <1> DEFINE L == Len(q)
             Sums(g, n) == /\ g[0] = 0
                           /\ \A i \in 1 .. n : g[i] = g[i - 1] + q[i]
             Def(g) == [i \in 0 .. L |-> IF i = 0 THEN 0 ELSE g[i - 1] + q[i]]
             T == {n \in 0 .. L : ~ \E g \in [0 .. n -> Int] : Sums(g, n)}
  <1>1. L \in Nat /\ \A i \in 1 .. L : q[i] \in Int
    OBVIOUS
  <1>2. T = {}
    <2>1. SUFFICES ASSUME T # {} PROVE FALSE
      OBVIOUS
    <2>2. T \in SUBSET Nat
      BY <1>1
    <2>3. PICK n \in T : \A k \in T : n =< k
      BY <2>1, <2>2, Smallest
    <2>4. n \in 0 .. L /\ ~ \E g \in [0 .. n -> Int] : Sums(g, n)
      BY <2>3
    <2>5. CASE n = 0
      <3> DEFINE g == [i \in 0 .. 0 |-> 0]
      <3>1. g \in [0 .. n -> Int] /\ Sums(g, n)
        BY <2>5
      <3>2. QED
        BY <2>4, <3>1
    <2>6. CASE n > 0
      <3>1. n - 1 \in 0 .. L /\ n \in Int
        BY <1>1, <2>4, <2>6
      <3>2. PICK g \in [0 .. n - 1 -> Int] : Sums(g, n - 1)
        <4>1. n - 1 \notin T
          <5> HIDE DEF T
          <5>1. QED
            BY <2>3, <3>1
        <4>2. QED
          BY <3>1, <4>1
      <3> DEFINE h == [i \in 0 .. n |-> IF i = n THEN g[n - 1] + q[n] ELSE g[i]]
      <3>3. h \in [0 .. n -> Int]
        BY <1>1, <2>4, <2>6
      <3>4. h[0] = 0 /\ \A i \in 1 .. n : h[i] = h[i - 1] + q[i]
        BY <1>1, <2>4, <2>6, <3>2, SMTT(60)
      <3> HIDE DEF h
      <3>5. QED
        BY <2>4, <3>3, <3>4
    <2>7. QED
      BY <1>1, <2>4, <2>5, <2>6
  <1>3. PICK g \in [0 .. L -> Int] : Sums(g, L)
    BY <1>1, <1>2, SMTT(60)
  <1>4. g = Def(g)
    BY <1>1, <1>3
  <1> DEFINE sum == CHOOSE f : f = Def(f)
  <1>5. sum = Def(sum)
    BY <1>4
  <1>6. Child!SumOf(q) = sum[L]
    BY DEF Child!SumOf
  <1> HIDE DEF sum
  <1> DEFINE U == {n \in 0 .. L : sum[n] \notin Int}
  <1>7. U = {}
    <2>1. SUFFICES ASSUME U # {} PROVE FALSE
      OBVIOUS
    <2>2. U \in SUBSET Nat
      BY <1>1
    <2>3. PICK n \in U : \A k \in U : n =< k
      BY <2>1, <2>2, Smallest
    <2>4. n \in 0 .. L /\ sum[n] \notin Int
      BY <2>3
    <2>5. sum[n] = IF n = 0 THEN 0 ELSE sum[n - 1] + q[n]
      BY <1>5, <2>4
    <2>6. n # 0
      BY <2>4, <2>5
    <2>7. n - 1 \in 0 .. L /\ n - 1 \notin U
      BY <1>1, <2>3, <2>4, <2>6
    <2>8. sum[n - 1] \in Int
      BY <2>7
    <2>9. QED
      BY <1>1, <2>4, <2>5, <2>6, <2>8
  <1>8. QED
    BY <1>1, <1>6, <1>7

(* ... of any block, as it is one of bytes.                                  *)
LEMMA ByteSum ==
    ASSUME NEW q \in Seq(Byte), NEW c \in Byte
    PROVE  (c + Child!SumOf(q)) % Width \in Byte /\ 0 \in Byte
  <1>1. q \in Seq(Int) /\ c \in Int /\ Width \in Nat \ {0}
    BY RelayAssumption, SMTT(60) DEF Byte, Child!Bytes
  <1>2. Child!SumOf(q) \in Int
    BY <1>1, SumIsInt
  <1>3. QED
    BY <1>1, <1>2 DEF Byte, Child!Bytes

(* Everything on its way is a sequence of bytes, and no longer than fits.    *)
Typed ==
    /\ pc \in {"connect", "wait", "linger", "exit"} \cup Copying /\ s \in {"up", "closed"}
    /\ modeC \in Child!Mode /\ modeP \in Child!Mode
    /\ propC \in Message /\ propP \in Message /\ cksumC \in Byte /\ cksumP \in Byte
    /\ restC \in Seq(Byte) /\ Len(restC) =< Len(propC.data)
    /\ restP \in Seq(Byte) /\ Len(restP) =< Len(propP.data)
    /\ wbufC \in Seq(Byte) /\ wbufP \in Seq(Byte)
    /\ axread \in Seq(Byte) /\ Len(axread) =< BUFMAXIN
    /\ axwrite \in Seq(Byte) /\ Len(axwrite) =< BUFMAXOUT
    /\ up \in Seq(Byte) /\ Len(up) =< PairCap
    /\ down \in Seq(Byte) /\ Len(down) =< PairCap
    /\ airOut \in Seq(Byte) /\ Len(airOut) =< AirCap
    /\ airIn \in Seq(Byte) /\ Len(airIn) =< AirCap

(* Where the reader is at the end of all that has been written for it: ahead *)
(* of the message, within it or behind it.                                   *)
Ends(m, before, mode, rest) ==
    IF mode \in before THEN {Child!NewFrame}
    ELSE IF mode = "block" THEN Within(m, rest)
    ELSE IF mode = "dead" THEN Frames(m) ELSE Done(m)

(* What the child writes takes the reader of all it has written before to    *)
(* where it is now.                                                        *)
LEMMA ChildWrites ==
    ASSUME Typed, Child!PutHeader \/ Child!PutBlock \/ Child!PutChecksum("get") \/ Child!SayFQ
    PROVE  /\ wbufC = <<>> /\ wbufC' \in Seq(Byte) /\ restC' \in Seq(Byte)
           /\ Len(restC') =< Len(propC.data) /\ cksumC' \in Byte
           /\ UNCHANGED <<propC, frameC, down, up>>
           /\ modeC' = "over" \/ (modeC \in {"header", "block"} /\ modeC' \in {"block", "get"})
           /\ \A g \in Ends(propC, {"header"}, modeC, restC) :
                 Arrives(propC, g, wbufC', Ends(propC, {"header"}, modeC', restC'))
  <1>1. /\ propC \in Message /\ propC.data \in Seq(Byte) /\ propC.offset \in Nat
        /\ restC \in Seq(Byte) /\ Len(restC) =< Len(propC.data) /\ cksumC \in Byte
    BY DEF Typed, Message
  <1>2. CASE Child!PutHeader
    <2>1. /\ modeC = "header" /\ modeC' = "block"
          /\ wbufC = <<>> /\ UNCHANGED <<propC, frameC, down, up>>
          /\ wbufC' = HeaderOf(propC)
          /\ restC' = Child!RestOf(propC.data, propC.offset)
      BY <1>2 DEF Child!PutHeader, Child!Header, HeaderOf, Child!FirstOf,
         Child!RestOf, Child!Digits
    <2>2. /\ restC' \in Seq(Byte) /\ wbufC' \in Seq(Byte)
          /\ Len(restC') =< Len(propC.data) /\ cksumC' \in Byte
      BY <1>1, <1>2, <2>1, PartsOf, HeaderBytes, ByteSum DEF Child!PutHeader
    <2>3. Arrives(propC, Child!NewFrame, wbufC', Within(propC, restC'))
      BY <1>1, <2>1, HeaderArrives
    <2>4. QED
      BY <2>1, <2>2, <2>3 DEF Ends
  <1>3. CASE Child!PutBlock
    <2> DEFINE q == Child!FirstOf(restC, CHUNK_SIZE)
    <2>1. /\ modeC = "block" /\ modeC' = "block"
          /\ wbufC = <<>> /\ UNCHANGED <<propC, frameC, down, up>>
          /\ restC # <<>> /\ restC' = Child!RestOf(restC, CHUNK_SIZE)
          /\ wbufC' = <<CHRSTX, Len(q) % Width>> \o q
      BY <1>3 DEF Child!PutBlock, Child!FirstOf, Child!RestOf
    <2>2. CHUNK_SIZE \in 1 .. Width /\ CHUNK_SIZE \in Nat
      BY RelayAssumption
    <2>3. restC' \in Seq(Byte) /\ Len(restC') =< Len(propC.data) /\ cksumC' \in Byte
      <3>1. /\ restC' \in Seq(Byte) /\ q \in Seq(Byte) /\ Len(restC') =< Len(restC)
            /\ Len(restC) \in Nat /\ Len(restC') \in Nat /\ Len(propC.data) \in Nat
        BY <1>1, <2>1, <2>2, PartsOf
      <3>2. cksumC' = (cksumC + Child!SumOf(q)) % Width
        BY <1>3 DEF Child!PutBlock, Child!FirstOf, Child!SumOf
      <3>3. QED
        BY <1>1, <3>1, <3>2, ByteSum
    <2>4. \A g \in Within(propC, restC) :
             /\ wbufC' \in Seq(Byte)
             /\ Arrives(propC, g, wbufC', Within(propC, restC'))
      BY <1>1, <2>1, <2>2, BlockPut
    <2>5. Refused \in Within(propC, restC)
      BY DEF Within
    <2>6. QED
      BY <2>1, <2>3, <2>4, <2>5 DEF Ends
  <1>4. CASE Child!PutChecksum("get")
    <2>1. /\ modeC = "block" /\ modeC' = "get" /\ restC = <<>> /\ restC' = restC
          /\ wbufC = <<>> /\ UNCHANGED <<propC, frameC, down, up>>
      BY <1>4 DEF Child!PutChecksum
    <2>2. PICK x : wbufC' = <<CHREOT, x>> /\ x = (Width - cksumC) % Width
      BY <1>4 DEF Child!PutChecksum
    <2>3. wbufC' \in Seq(Byte) /\ cksumC' \in Byte
      <3>1. Width \in Nat \ {0} /\ cksumC \in Int
        BY RelayAssumption DEF Typed, Byte, Child!Bytes
      <3>2. x \in Byte
        BY <2>2, <3>1 DEF Byte, Child!Bytes
      <3>3. QED
        BY <1>4, <2>2, <3>2, RelayAssumption, SMTT(60) DEF Byte, Child!Bytes, Child!PutChecksum
    <2>4. \A g \in Within(propC, <<>>) : Arrives(propC, g, wbufC', Done(propC))
      BY <1>1, <2>2, ChecksumPut
    <2>5. QED
      BY <1>1, <2>1, <2>3, <2>4 DEF Ends
  <1>5. CASE Child!SayFQ
    <2>1. /\ modeC = "say" /\ modeC' = "over" /\ wbufC = <<>> /\ wbufC' = <<One>>
          /\ UNCHANGED <<propC, restC, cksumC, frameC, down, up>>
      BY <1>5 DEF Child!SayFQ
    <2>2. <<One>> \in Seq(Byte)
      BY RelayAssumption DEF Byte, Child!Bytes
    <2>3. ASSUME NEW g \in Done(propC)
          PROVE  Arrives(propC, g, <<One>>, Done(propC))
      <3>1. Arrives(propC, g, <<One>>, {g})
        BY <2>2, ArrivesNoMore DEF Done
      <3>2. {g} \cap Frames(propC) \subseteq Done(propC)
        OBVIOUS
      <3>3. QED
        BY <2>2, <3>1, <3>2, ArrivesWeaker
    <2>4. QED
      BY <1>1, <2>1, <2>2, <2>3 DEF Ends
  <1>6. QED
    BY <1>2, <1>3, <1>4, <1>5

(* What the other station writes takes the reader of all it has written      *)
(* before to where it is now.                                              *)
LEMMA PeerWrites ==
    ASSUME Typed, Peer!PutHeader \/ Peer!PutBlock \/ Peer!PutChecksum("hear")
    PROVE  /\ wbufP = <<>> /\ wbufP' \in Seq(Byte) /\ restP' \in Seq(Byte)
           /\ Len(restP') =< Len(propP.data) /\ cksumP' \in Byte
           /\ UNCHANGED <<propP, frameP, airOut, airIn>>
           /\ modeP \in {"header", "block"} /\ modeP' \in {"block", "hear"}
           /\ \A g \in Ends(propP, {"get", "header"}, modeP, restP) :
                 Arrives(propP, g, wbufP', Ends(propP, {"get", "header"}, modeP', restP'))
  <1>1. /\ propP \in Message /\ propP.data \in Seq(Byte) /\ propP.offset \in Nat
        /\ restP \in Seq(Byte) /\ Len(restP) =< Len(propP.data) /\ cksumP \in Byte
    BY DEF Typed, Message
  <1>2. CASE Peer!PutHeader
    <2>1. /\ modeP = "header" /\ modeP' = "block"
          /\ wbufP = <<>> /\ UNCHANGED <<propP, frameP, airOut, airIn>>
          /\ wbufP' = HeaderOf(propP)
          /\ restP' = Child!RestOf(propP.data, propP.offset)
      BY <1>2 DEF Peer!PutHeader, Peer!Header, HeaderOf, Peer!FirstOf, Child!FirstOf,
         Peer!RestOf, Child!RestOf, Peer!Digits, Child!Digits
    <2>2. /\ restP' \in Seq(Byte) /\ wbufP' \in Seq(Byte)
          /\ Len(restP') =< Len(propP.data) /\ cksumP' \in Byte
      BY <1>1, <1>2, <2>1, PartsOf, HeaderBytes, ByteSum, ZenonT(60) DEF Peer!PutHeader
    <2>3. Arrives(propP, Child!NewFrame, wbufP', Within(propP, restP'))
      BY <1>1, <2>1, HeaderArrives
    <2>4. QED
      BY <2>1, <2>2, <2>3 DEF Ends
  <1>3. CASE Peer!PutBlock
    <2> DEFINE q == Child!FirstOf(restP, PeerChunk)
    <2>1. /\ modeP = "block" /\ modeP' = "block"
          /\ wbufP = <<>> /\ UNCHANGED <<propP, frameP, airOut, airIn>>
          /\ restP # <<>> /\ restP' = Child!RestOf(restP, PeerChunk)
          /\ wbufP' = <<CHRSTX, Len(q) % Width>> \o q
      BY <1>3 DEF Peer!PutBlock, Peer!FirstOf, Child!FirstOf, Peer!RestOf, Child!RestOf
    <2>2. PeerChunk \in 1 .. Width /\ PeerChunk \in Nat
      BY RelayAssumption
    <2>3. restP' \in Seq(Byte) /\ Len(restP') =< Len(propP.data) /\ cksumP' \in Byte
      <3>1. /\ restP' \in Seq(Byte) /\ q \in Seq(Byte) /\ Len(restP') =< Len(restP)
            /\ Len(restP) \in Nat /\ Len(restP') \in Nat /\ Len(propP.data) \in Nat
        BY <1>1, <2>1, <2>2, PartsOf
      <3>2. cksumP' = (cksumP + Child!SumOf(q)) % Width
        BY <1>3 DEF Peer!PutBlock, Peer!FirstOf, Child!FirstOf, Peer!SumOf, Child!SumOf
      <3>3. QED
        BY <1>1, <3>1, <3>2, ByteSum
    <2>4. \A g \in Within(propP, restP) :
             /\ wbufP' \in Seq(Byte)
             /\ Arrives(propP, g, wbufP', Within(propP, restP'))
      BY <1>1, <2>1, <2>2, BlockPut
    <2>5. Refused \in Within(propP, restP)
      BY DEF Within
    <2>6. QED
      BY <2>1, <2>3, <2>4, <2>5 DEF Ends
  <1>4. CASE Peer!PutChecksum("hear")
    <2>1. /\ modeP = "block" /\ modeP' = "hear" /\ restP = <<>> /\ restP' = restP
          /\ wbufP = <<>> /\ UNCHANGED <<propP, frameP, airOut, airIn>>
      BY <1>4 DEF Peer!PutChecksum
    <2>2. PICK x : wbufP' = <<CHREOT, x>> /\ x = (Width - cksumP) % Width
      BY <1>4 DEF Peer!PutChecksum
    <2>3. wbufP' \in Seq(Byte) /\ cksumP' \in Byte
      <3>1. Width \in Nat \ {0} /\ cksumP \in Int
        BY RelayAssumption DEF Typed, Byte, Child!Bytes
      <3>2. x \in Byte
        BY <2>2, <3>1 DEF Byte, Child!Bytes
      <3>3. QED
        BY <1>4, <2>2, <3>2, RelayAssumption, SMTT(60) DEF Byte, Child!Bytes, Peer!PutChecksum
    <2>4. \A g \in Within(propP, <<>>) : Arrives(propP, g, wbufP', Done(propP))
      BY <1>1, <2>2, ChecksumPut
    <2>5. QED
      BY <1>1, <2>1, <2>3, <2>4 DEF Ends
  <1>6. QED
    BY <1>2, <1>3, <1>4

-------------------------------------------------------------------------------
(* What moves from the head of one queue to the end of the one before it     *)
(* stays where it is in the stream.                                          *)
LEMMA MovesOn ==
    ASSUME NEW a \in Seq(Byte), NEW b \in Seq(Byte), NEW n \in Nat
    PROVE  (a \o Child!FirstOf(b, n)) \o Child!RestOf(b, n) = a \o b
  <1> DEFINE f == Child!FirstOf(b, n)
             r == Child!RestOf(b, n)
  <1>1. f \in Seq(Byte) /\ r \in Seq(Byte) /\ f \o r = b
    BY PartsOf
  <1> HIDE DEF f, r
  <1>2. (a \o f) \o r = a \o b
    BY <1>1, Associative
  <1>3. QED
    BY <1>2 DEF f, r

(* The first byte of a stream is that of its first queue.                    *)
LEMMA FirstByte ==
    ASSUME NEW a \in Seq(Byte), NEW b \in Seq(Byte), a # <<>>
    PROVE  /\ a \o b \in Seq(Byte) /\ a \o b # <<>> /\ Tail(a) \in Seq(Byte)
           /\ Head(a \o b) = Head(a) /\ Tail(a \o b) = Tail(a) \o b
  <1>1. /\ Len(a) \in Nat \ {0} /\ Len(b) \in Nat /\ a \o b \in Seq(Byte)
        /\ Len(a \o b) = Len(a) + Len(b) /\ Tail(a) \in Seq(Byte)
        /\ Len(Tail(a)) = Len(a) - 1 /\ \A i \in 1 .. Len(a) - 1 : Tail(a)[i] = a[i + 1]
        /\ \A i \in 1 .. Len(a) + Len(b) :
              (a \o b)[i] = IF i =< Len(a) THEN a[i] ELSE b[i - Len(a)]
    BY EmptySeq, HeadTailProperties, ConcatProperties
  <1>2. a \o b # <<>> /\ Head(a \o b) = Head(a)
    BY <1>1
  <1> DEFINE t == Tail(a \o b)
             u == Tail(a) \o b
  <1>3. /\ t \in Seq(Byte) /\ Len(t) = Len(a) + Len(b) - 1
        /\ \A i \in 1 .. Len(a) + Len(b) - 1 : t[i] = (a \o b)[i + 1]
    BY <1>1, <1>2, HeadTailProperties
  <1>4. /\ u \in Seq(Byte) /\ Len(u) = Len(a) + Len(b) - 1
        /\ \A i \in 1 .. Len(a) + Len(b) - 1 :
              u[i] = IF i =< Len(a) - 1 THEN Tail(a)[i] ELSE b[i - (Len(a) - 1)]
    BY <1>1, ConcatProperties
  <1> HIDE DEF t, u
  <1>5. \A i \in 1 .. Len(t) : t[i] = u[i]
    <2> TAKE i \in 1 .. Len(t)
    <2>1. i \in 1 .. Len(a) + Len(b) - 1 /\ i + 1 \in 1 .. Len(a) + Len(b)
      BY <1>1, <1>3
    <2>2. t[i] = IF i + 1 =< Len(a) THEN a[i + 1] ELSE b[(i + 1) - Len(a)]
      BY <1>1, <1>3, <2>1
    <2>3. CASE i + 1 =< Len(a)
      <3>1. i =< Len(a) - 1 /\ i \in 1 .. Len(a) - 1
        BY <1>1, <2>1, <2>3
      <3>2. QED
        BY <1>1, <1>4, <2>1, <2>2, <2>3, <3>1
    <2>4. CASE ~(i + 1 =< Len(a))
      <3>1. ~(i =< Len(a) - 1) /\ (i + 1) - Len(a) = i - (Len(a) - 1)
        BY <1>1, <2>1, <2>4
      <3>2. QED
        BY <1>4, <2>1, <2>2, <2>4, <3>1
    <2>5. QED
      BY <2>3, <2>4
  <1>6. t = u
    BY <1>3, <1>4, <1>5, SeqEqual
  <1>7. QED
    BY <1>1, <1>2, <1>6 DEF t, u

(* fflush() fills the queue behind it, at most to the brim.                  *)
LEMMA FlushFits ==
    ASSUME NEW q \in Seq(Byte), NEW w \in Seq(Byte), NEW n \in Nat, Len(q) < n
    PROVE  /\ n - Len(q) \in Nat
           /\ q \o Child!FirstOf(w, n - Len(q)) \in Seq(Byte)
           /\ Len(q \o Child!FirstOf(w, n - Len(q))) =< n
           /\ Child!RestOf(w, n - Len(q)) \in Seq(Byte)
  <1>1. n - Len(q) \in Nat /\ Len(q) \in Nat
    OBVIOUS
  <1> DEFINE f == Child!FirstOf(w, n - Len(q))
  <1>2. /\ f \in Seq(Byte) /\ Child!RestOf(w, n - Len(q)) \in Seq(Byte)
        /\ Len(f) = IF Len(w) < n - Len(q) THEN Len(w) ELSE n - Len(q)
    BY <1>1, PartsOf
  <1> HIDE DEF f
  <1>3. q \o f \in Seq(Byte) /\ Len(q \o f) =< n
    <2>1. Len(q \o f) = Len(q) + Len(f) /\ q \o f \in Seq(Byte) /\ Len(w) \in Nat
      BY <1>2, ConcatProperties, LenProperties
    <2>2. QED
      BY <1>1, <1>2, <2>1
  <1>4. QED
    BY <1>1, <1>2, <1>3 DEF f

(* The child keeps its part of Typed.                                       *)
LEMMA ChildTyped ==
    ASSUME Typed, NEW m, frameC \in Frames(m),
           Exchange \/ Child!Dies
    PROVE  /\ propC' = propC /\ modeC' \in Child!Mode /\ cksumC' \in Byte
           /\ restC' \in Seq(Byte) /\ Len(restC') =< Len(propC.data) /\ wbufC' \in Seq(Byte)
           /\ down' \in Seq(Byte) /\ Len(down') =< Len(down)
           /\ up' \in Seq(Byte) /\ Len(up') =< PairCap
  <1>1. /\ modeC \in Child!Mode /\ cksumC \in Byte /\ wbufC \in Seq(Byte)
        /\ restC \in Seq(Byte) /\ Len(restC) =< Len(propC.data)
        /\ down \in Seq(Byte) /\ Len(down) \in Nat
        /\ up \in Seq(Byte) /\ Len(up) =< PairCap
    BY LenProperties DEF Typed
  <1>2. CASE Child!PutHeader \/ Child!PutBlock \/ Child!PutChecksum("get") \/ Child!SayFQ
    <2>1. modeC' \in Child!Mode
      BY <1>2, ChildWrites DEF Child!Mode, Child!Puts
    <2>2. QED
      BY <1>1, <1>2, <2>1, ChildWrites
  <1>3. CASE Child!Get("say")
    <2>1. modeC' \in Child!Mode /\ propC' = propC
      BY <1>3, ChildReads DEF Child!Mode, Child!Puts
    <2>2. down # <<>> /\ down' = Tail(down)
      BY <1>3, ChildReads
    <2>3. Head(down) \in Byte /\ down' \in Seq(Byte) /\ Len(down') =< Len(down)
      BY <1>1, <2>2, HeadTailProperties
    <2>4. cksumC' \in {cksumC, 0, (cksumC + Head(down)) % Width}
      BY <1>3 DEF Child!Get, Child!GetStart, Child!GetHeaderLen, Child!GetTitle, Child!GetOffset,
         Child!GetBlockStart, Child!GetBlockLen, Child!GetData, Child!GetChecksum,
         Child!GetChar, Child!Rejected
    <2>5. cksumC' \in Byte
      <3>0. Width \in Nat \ {0}
        BY RelayAssumption
      <3>1. Width \in Nat \ {0} /\ cksumC \in Int /\ Head(down) \in Int
        BY <1>1, <2>3, <3>0 DEF Byte, Child!Bytes
      <3>2. (cksumC + Head(down)) % Width \in Byte /\ 0 \in Byte
        BY <3>1 DEF Byte, Child!Bytes
      <3>3. QED
        BY <1>1, <2>4, <3>2
    <2>6. UNCHANGED <<restC, wbufC, up>>
      BY <1>3, ChildReads
    <2>7. QED
      BY <1>1, <2>1, <2>3, <2>5, <2>6
  <1>4. CASE Child!Flush
    <2>1. /\ Len(up) < PairCap /\ up' = up \o Child!FirstOf(wbufC, PairCap - Len(up))
          /\ wbufC' = Child!RestOf(wbufC, PairCap - Len(up))
          /\ UNCHANGED <<modeC, propC, restC, cksumC, down>>
      BY <1>4 DEF Child!Flush, Child!FirstOf, Child!RestOf
    <2>2. PairCap \in Nat
      BY RelayAssumption
    <2>3. QED
      BY <1>1, <2>1, <2>2, FlushFits
  <1>5. CASE Child!Dies
    <2>1. /\ modeC' \in Child!Mode /\ wbufC' \in Seq(Byte)
          /\ UNCHANGED <<propC, restC, cksumC, down, up>>
      BY <1>5 DEF Child!Dies, Child!Mode, Child!Puts
    <2>2. QED
      BY <1>1, <2>1
  <1>7. QED
    BY <1>2, <1>3, <1>4, <1>5 DEF Exchange, Child!LostConnection

(* The other station keeps its part of Typed.                               *)
LEMMA PeerTyped ==
    ASSUME Typed, NEW m, frameP \in Frames(m),
           Peer!Get("header") \/ Peer!PutHeader \/ Peer!PutBlock
             \/ Peer!PutChecksum("hear") \/ Peer!HearFQ \/ Peer!Flush \/ Peer!LostConnection
    PROVE  /\ propP' = propP /\ modeP' \in Child!Mode /\ cksumP' \in Byte
           /\ restP' \in Seq(Byte) /\ Len(restP') =< Len(propP.data) /\ wbufP' \in Seq(Byte)
           /\ airOut' \in Seq(Byte) /\ Len(airOut') =< Len(airOut)
           /\ airIn' \in Seq(Byte) /\ Len(airIn') =< AirCap
  <1>1. /\ modeP \in Child!Mode /\ cksumP \in Byte /\ wbufP \in Seq(Byte)
        /\ restP \in Seq(Byte) /\ Len(restP) =< Len(propP.data)
        /\ airOut \in Seq(Byte) /\ Len(airOut) \in Nat
        /\ airIn \in Seq(Byte) /\ Len(airIn) =< AirCap
    BY LenProperties DEF Typed
  <1>2. CASE Peer!PutHeader \/ Peer!PutBlock \/ Peer!PutChecksum("hear")
    <2>1. modeP' \in Child!Mode
      BY <1>2, PeerWrites DEF Child!Mode, Child!Puts
    <2>2. QED
      BY <1>1, <1>2, <2>1, PeerWrites
  <1>3. CASE Peer!Get("header")
    <2>1. modeP' \in Child!Mode /\ propP' = propP
      BY <1>3, PeerReads DEF Child!Mode, Child!Puts
    <2>2. airOut # <<>> /\ airOut' = Tail(airOut)
      BY <1>3, PeerReads
    <2>3. Head(airOut) \in Byte /\ airOut' \in Seq(Byte) /\ Len(airOut') =< Len(airOut)
      BY <1>1, <2>2, HeadTailProperties
    <2>4. cksumP' \in {cksumP, 0, (cksumP + Head(airOut)) % Width}
      BY <1>3 DEF Peer!Get, Peer!GetStart, Peer!GetHeaderLen, Peer!GetTitle, Peer!GetOffset,
         Peer!GetBlockStart, Peer!GetBlockLen, Peer!GetData, Peer!GetChecksum,
         Peer!GetChar, Peer!Rejected
    <2>5. cksumP' \in Byte
      <3>0. Width \in Nat \ {0}
        BY RelayAssumption
      <3>1. Width \in Nat \ {0} /\ cksumP \in Int /\ Head(airOut) \in Int
        BY <1>1, <2>3, <3>0 DEF Byte, Child!Bytes
      <3>2. (cksumP + Head(airOut)) % Width \in Byte /\ 0 \in Byte
        BY <3>1 DEF Byte, Child!Bytes
      <3>3. QED
        BY <1>1, <2>4, <3>2
    <2>6. UNCHANGED <<restP, wbufP, airIn>>
      BY <1>3, PeerReads
    <2>7. QED
      BY <1>1, <2>1, <2>3, <2>5, <2>6
  <1>4. CASE Peer!Flush
    <2>1. /\ Len(airIn) < AirCap /\ airIn' = airIn \o Child!FirstOf(wbufP, AirCap - Len(airIn))
          /\ wbufP' = Child!RestOf(wbufP, AirCap - Len(airIn))
          /\ UNCHANGED <<modeP, propP, restP, cksumP, airOut>>
      BY <1>4 DEF Peer!Flush, Peer!FirstOf, Child!FirstOf, Peer!RestOf, Child!RestOf
    <2>2. AirCap \in Nat
      BY RelayAssumption
    <2>3. QED
      BY <1>1, <2>1, <2>2, FlushFits
  <1>5. CASE Peer!Dies
    <2>1. /\ modeP' \in Child!Mode /\ wbufP' \in Seq(Byte)
          /\ UNCHANGED <<propP, restP, cksumP, airOut, airIn>>
      BY <1>5 DEF Peer!Dies, Child!Mode, Child!Puts
    <2>2. QED
      BY <1>1, <2>1
  <1>6. CASE Peer!HearFQ
    <2>1. /\ airOut # <<>> /\ airOut' = Tail(airOut) /\ modeP' \in Child!Mode
          /\ UNCHANGED <<propP, restP, cksumP, wbufP, airIn>>
      BY <1>6 DEF Peer!HearFQ, Child!Mode
    <2>2. airOut' \in Seq(Byte) /\ Len(airOut') =< Len(airOut)
      BY <1>1, <2>1, HeadTailProperties
    <2>3. QED
      BY <1>1, <2>1, <2>2
  <1>7. QED
    BY <1>2, <1>3, <1>4, <1>5, <1>6 DEF Peer!LostConnection

-------------------------------------------------------------------------------
(* What a connection that is cut still delivers is the beginning of what was *)
(* on its way.                                                               *)
LEMMA CutOff ==
    ASSUME NEW q \in Seq(Byte), NEW n \in 0 .. Len(q)
    PROVE  /\ SubSeq(q, 1, n) \in Seq(Byte) /\ Len(SubSeq(q, 1, n)) =< Len(q)
           /\ \E r \in Seq(Byte) : q = SubSeq(q, 1, n) \o r
  <1>1. n \in Nat /\ Len(q) \in Nat
    OBVIOUS
  <1>2. SubSeq(q, 1, n) = Child!FirstOf(q, n)
    BY <1>1 DEF Child!FirstOf
  <1> DEFINE f == Child!FirstOf(q, n)
             r == Child!RestOf(q, n)
  <1>3. f \in Seq(Byte) /\ r \in Seq(Byte) /\ q = f \o r /\ Len(f) =< Len(q)
    BY <1>1, PartsOf
  <1> HIDE DEF f, r
  <1>4. SubSeq(q, 1, n) = f
    BY <1>2 DEF f
  <1>5. QED
    BY <1>3, <1>4

(* A link that goes down leaves a beginning of what was on it, each way.     *)
LEMMA CutTyped ==
    ASSUME Typed, Cut
    PROVE  /\ s = "up" /\ s' = "closed"
           /\ airIn' \in Seq(Byte) /\ Len(airIn') =< AirCap
           /\ airOut' \in Seq(Byte) /\ Len(airOut') =< AirCap
           /\ \E r \in Seq(Byte) : airIn = airIn' \o r
           /\ \E r \in Seq(Byte) : airOut = airOut' \o r
  <1>1. /\ airIn \in Seq(Byte) /\ Len(airIn) =< AirCap /\ Len(airIn) \in Nat
        /\ airOut \in Seq(Byte) /\ Len(airOut) =< AirCap /\ Len(airOut) \in Nat /\ AirCap \in Nat
    BY LenProperties, RelayAssumption DEF Typed
  <1>2. PICK n \in 0 .. Len(airIn) : airIn' = SubSeq(airIn, 1, n)
    BY DEF Cut
  <1>3. PICK k \in 0 .. Len(airOut) : airOut' = SubSeq(airOut, 1, k)
    BY DEF Cut
  <1>4. /\ airIn' \in Seq(Byte) /\ Len(airIn') =< Len(airIn)
        /\ \E r \in Seq(Byte) : airIn = airIn' \o r
    BY <1>1, <1>2, CutOff
  <1>5. /\ airOut' \in Seq(Byte) /\ Len(airOut') =< Len(airOut)
        /\ \E r \in Seq(Byte) : airOut = airOut' \o r
    BY <1>1, <1>3, CutOff
  <1>6. Len(airIn') \in Nat /\ Len(airOut') \in Nat
    BY <1>4, <1>5, LenProperties
  <1>7. s = "up" /\ s' = "closed"
    BY DEF Cut
  <1>8. Len(airIn') =< AirCap /\ Len(airOut') =< AirCap
    BY <1>1, <1>4, <1>5, <1>6
  <1>9. QED
    BY <1>4, <1>5, <1>7, <1>8

(* A read() into a buffer of n bytes, and a write() of at most n.            *)
LEMMA Reads ==
    ASSUME NEW q \in Seq(Byte), NEW n \in Nat, NEW k \in Nat, Len(q) =< k
    PROVE  /\ Child!FirstOf(q, n) \in Seq(Byte) /\ Len(Child!FirstOf(q, n)) =< n
           /\ Child!RestOf(q, n) \in Seq(Byte) /\ Len(Child!RestOf(q, n)) =< k
  <1>1. Len(q) \in Nat /\ Len(Child!RestOf(q, n)) \in Nat
    BY PartsOf, LenProperties
  <1>2. QED
    BY <1>1, PartsOf

(* Every step keeps what is on its way typed.                                *)
LEMMA TypedStep ==
    Typed /\ frameC \in Frames(propP) /\ frameP \in Frames(propC) /\ [Next]_vars => Typed'
  <1> SUFFICES ASSUME Typed, frameC \in Frames(propP), frameP \in Frames(propC), [Next]_vars
               PROVE  Typed'
    OBVIOUS
  <1>0. /\ {BUFMAXIN, BUFMAXOUT, paclen, AirCap, PairCap} \subseteq Nat
        /\ Len(down) \in Nat /\ Len(airOut) \in Nat /\ Len(airIn) \in Nat /\ Len(up) \in Nat
        /\ Len(axread) \in Nat /\ Len(axwrite) \in Nat
    BY LenProperties, RelayAssumption DEF Typed
  <1>1. CASE ChildRuns \/ AlarmDue \/ Alarm
    <2>1. (Exchange \/ Child!Dies) /\ UNCHANGED <<parent, s, airOut, airIn, peer>>
      BY <1>1 DEF ChildRuns, AlarmDue, Alarm
    <2>2. Len(down') \in Nat /\ Len(down') =< Len(down)
      BY <2>1, ChildTyped, LenProperties
    <2>3. Len(down') =< PairCap
      BY <1>0, <2>2, SMTT(60) DEF Typed
    <2>4. QED
      BY <2>1, <2>3, ChildTyped DEF Typed, parent, peer
  <1>2. CASE PeerRuns
    <2>1. Len(airOut') \in Nat /\ Len(airOut') =< Len(airOut)
      BY <1>2, PeerTyped, LenProperties DEF PeerRuns
    <2>2. Len(airOut') =< AirCap
      BY <1>0, <2>1, SMTT(60) DEF Typed
    <2>3. UNCHANGED <<parent, s, up, down, child>>
      BY <1>2 DEF PeerRuns
    <2>4. QED
      BY <1>2, <2>2, <2>3, PeerTyped DEF PeerRuns, Typed, parent, child
  <1>3. CASE PeerHangsUp \/ Drop \/ Kill \/ LingerExpires
    <2>1. Cut /\ pc' \in {pc, "exit"} /\ UNCHANGED <<axread, axwrite, up, down, child, peer>>
      BY <1>3 DEF PeerHangsUp, Drop, Kill, LingerExpires, parent
    <2>2. QED
      BY <2>1, CutTyped DEF Typed, child, peer
  <1>4. CASE ReadIn
    <2>1. /\ axread' = Child!FirstOf(airIn, BUFMAXIN) /\ airIn' = Child!RestOf(airIn, BUFMAXIN)
          /\ pc' = "writeIn" /\ UNCHANGED <<axwrite, s, up, down, airOut, child, peer>>
      BY <1>4 DEF ReadIn
    <2>2. /\ axread' \in Seq(Byte) /\ Len(axread') =< BUFMAXIN
          /\ airIn' \in Seq(Byte) /\ Len(airIn') =< AirCap
      BY <1>0, <2>1, Reads DEF Typed
    <2>3. QED
      BY <2>1, <2>2 DEF Typed, child, peer, Copying
  <1>5. CASE WriteIn
    <2>1. UNCHANGED <<axwrite, up, airOut, airIn, child, peer>> /\ pc' \in {pc, "exit"}
          /\ s' \in {s, "closed"}
      BY <1>5 DEF WriteIn
    <2>2. CASE Child!Ended
      <3>1. UNCHANGED <<axread, down>>
        BY <1>5, <2>2 DEF WriteIn
      <3>2. QED
        BY <2>1, <3>1 DEF Typed, child, peer
    <2>3. CASE ~Child!Ended
      <3> DEFINE q == Child!FirstOf(axread, paclen)
      <3>1. /\ Len(down) + Len(q) =< PairCap /\ down' = down \o q
            /\ axread' = Child!RestOf(axread, paclen)
        BY <1>5, <2>3 DEF WriteIn
      <3>2. q \in Seq(Byte) /\ axread' \in Seq(Byte) /\ Len(axread') =< BUFMAXIN
        BY <1>0, <3>1, Reads DEF Typed
      <3> HIDE DEF q
      <3>3. down' \in Seq(Byte) /\ Len(down') = Len(down) + Len(q)
        BY <3>1, <3>2, ConcatProperties DEF Typed
      <3>4. QED
        BY <2>1, <3>1, <3>2, <3>3 DEF Typed, child, peer
    <2>4. QED
      BY <2>2, <2>3
  <1>6. CASE ReadOut
    <2>1. /\ axwrite' = Child!FirstOf(up, BUFMAXOUT) /\ up' = Child!RestOf(up, BUFMAXOUT)
          /\ pc' \in {"wait", "writeOut"}
          /\ UNCHANGED <<axread, s, down, airOut, airIn, child, peer>>
      BY <1>6 DEF ReadOut
    <2>2. /\ axwrite' \in Seq(Byte) /\ Len(axwrite') =< BUFMAXOUT
          /\ up' \in Seq(Byte) /\ Len(up') =< PairCap
      BY <1>0, <2>1, Reads DEF Typed
    <2>3. QED
      BY <2>1, <2>2 DEF Typed, child, peer, Copying
  <1>7. CASE WriteOut
    <2>1. /\ UNCHANGED <<axread, s, up, down, airIn, child, peer>>
          /\ pc' \in {pc, "exit", "poll"}
      BY <1>7 DEF WriteOut
    <2>2. CASE s = "up"
      <3> DEFINE q == Child!FirstOf(axwrite, paclen)
      <3>1. /\ Len(airOut) + Len(q) =< AirCap /\ airOut' = airOut \o q
            /\ axwrite' = Child!RestOf(axwrite, paclen)
        BY <1>7, <2>2 DEF WriteOut
      <3>2. q \in Seq(Byte) /\ axwrite' \in Seq(Byte) /\ Len(axwrite') =< BUFMAXOUT
        BY <1>0, <3>1, Reads DEF Typed
      <3> HIDE DEF q
      <3>3. airOut' \in Seq(Byte) /\ Len(airOut') = Len(airOut) + Len(q)
        BY <3>1, <3>2, ConcatProperties DEF Typed
      <3>4. QED
        BY <2>1, <3>1, <3>2, <3>3 DEF Typed, child, peer, Copying
    <2>3. CASE s # "up"
      <3>1. axwrite' = <<>> /\ airOut' = airOut
        BY <1>7, <2>3 DEF WriteOut
      <3>2. axwrite' \in Seq(Byte) /\ Len(axwrite') =< BUFMAXOUT
        BY <1>0, <3>1
      <3>3. QED
        BY <2>1, <3>1, <3>2 DEF Typed, child, peer, Copying
    <2>4. QED
      BY <2>2, <2>3
  <1>8. CASE Connect
    BY <1>8 DEF Connect, Typed, Child!Mode, Child!Puts, Copying
  <1>9. CASE \/ ConnectFails \/ Poll \/ SkipIn \/ ReadInEof \/ WroteIn \/ SkipOut \/ WroteOut
             \/ WaitPid \/ Disconnected
    <2>1. /\ pc' \in {"exit", "in", "out", "poll", "linger"}
          /\ UNCHANGED <<axread, axwrite, s, up, down, airOut, airIn, child, peer>>
      BY <1>9 DEF ConnectFails, Poll, SkipIn, ReadInEof, WroteIn, SkipOut, WroteOut, WaitPid,
         Disconnected
    <2>2. QED
      BY <2>1 DEF Typed, child, peer, Copying
  <1>10. CASE UNCHANGED vars
    BY <1>10 DEF vars, parent, child, peer, Typed
  <1>11. QED
    BY <1>1, <1>2, <1>3, <1>4, <1>5, <1>6, <1>7, <1>8, <1>9, <1>10 DEF Next, Parent

-------------------------------------------------------------------------------
(* What poll() has promised of the socket pair is still so when it is read,  *)
(* at the end of file the child has nothing more to say, and the parent      *)
(* reads nothing before it has written what it read before.                  *)
Promised ==
    /\ pc \notin {"writeIn", "exit"} => axread = <<>>
    /\ pc \notin {"writeOut", "exit"} => axwrite = <<>>
    /\ pc \in {"in", "writeIn", "out"} /\ "sv" \in ready => up # <<>> \/ Child!Ended
    /\ pc \in {"wait", "linger"} => up = <<>> /\ Child!Ended

(* Until the connection stands there is nothing to be read.                  *)
Idle ==
    pc = "connect" =>
        /\ s = "closed" /\ modeC = "over" /\ modeP = "over"
        /\ frameC = Child!NewFrame /\ frameP = Child!NewFrame
        /\ up = <<>> /\ down = <<>> /\ airOut = <<>> /\ airIn = <<>>
        /\ axread = <<>> /\ axwrite = <<>> /\ wbufC = <<>> /\ wbufP = <<>>

(* Before connect() has succeeded no step moves a byte: the child is forked   *)
(* after it, and a connection that fails ends the program.                   *)
LEMMA IdleStep == Idle /\ [Next]_vars => Idle'
  <1> SUFFICES ASSUME Idle, [Next]_vars, pc' = "connect" PROVE Idle'
    BY DEF Idle
  <1>1. pc = "connect"
    BY DEF Next, Parent, Connect, ConnectFails, Poll, SkipIn, ReadIn, ReadInEof, WriteIn, WroteIn,
       SkipOut, ReadOut, WriteOut, WroteOut, WaitPid, Disconnected, ChildRuns, AlarmDue, PeerRuns,
       PeerHangsUp, Drop, Kill, Alarm, LingerExpires, parent, vars
  <1>2. ~Exchange /\ ~Child!Waiting
    BY <1>1 DEF Idle, Exchange, Child!PutHeader, Child!PutBlock, Child!PutChecksum, Child!SayFQ,
       Child!Flush, Child!LostConnection, Child!Reading, Child!Waiting, Child!Get,
       Child!GetStart, Child!GetHeaderLen, Child!GetTitle, Child!GetOffset,
       Child!GetBlockStart, Child!GetBlockLen, Child!GetData, Child!GetChecksum, Child!GetChar
  <1>3. ~PeerRuns
    BY <1>1 DEF Idle, PeerRuns, Peer!PutHeader, Peer!PutBlock, Peer!PutChecksum, Peer!HearFQ,
       Peer!Flush, Peer!LostConnection, Peer!Reading, Peer!Get,
       Peer!GetStart, Peer!GetHeaderLen, Peer!GetTitle, Peer!GetOffset,
       Peer!GetBlockStart, Peer!GetBlockLen, Peer!GetData, Peer!GetChecksum, Peer!GetChar
  <1>4. ~Cut
    BY <1>1 DEF Idle, Cut
  <1>5. UNCHANGED vars
    BY <1>1, <1>2, <1>3, <1>4 DEF Next, Parent, Connect, ConnectFails, Poll, SkipIn, ReadIn,
       ReadInEof, WriteIn, WroteIn, SkipOut, ReadOut, WriteOut, WroteOut, WaitPid, Disconnected,
       ChildRuns, AlarmDue, PeerHangsUp, Drop, Kill, Alarm, LingerExpires
  <1>6. QED
    BY <1>5 DEF vars, parent, child, peer, Idle

-------------------------------------------------------------------------------
(* All that is on its way to the other station, and to the child, in the     *)
(* order in which it will arrive; on a connection that is gone nothing more  *)
(* does.                                                                     *)
OutQ == IF s = "up" THEN airOut \o axwrite \o up \o wbufC ELSE airOut
InQ  == down \o axread \o airIn \o (IF s = "up" THEN wbufP ELSE <<>>)

OutEnd == IF s = "up" THEN Ends(propC, {"header"}, modeC, restC) ELSE Frames(propC)
InEnd  == IF s = "up" THEN Ends(propP, {"get", "header"}, modeP, restP) ELSE Frames(propP)

(* It takes the reader to where the writer is.                               *)
FlowOut ==
    /\ frameP \in Frames(propC)
    /\ modeP = "get" => Arrives(propC, frameP, OutQ, OutEnd)
FlowIn ==
    /\ frameC \in Frames(propP)
    /\ modeC \in {"header", "block", "get"} => Arrives(propP, frameC, InQ, InEnd)

(* The streams are made up of bytes.                                         *)
LEMMA StreamsTyped ==
    ASSUME Typed
    PROVE  OutQ \in Seq(Byte) /\ InQ \in Seq(Byte)
  <1>1. OutQ \in Seq(Byte)
    BY DEF Typed, OutQ
  <1>2. InQ \in Seq(Byte)
    BY DEF Typed, InQ
  <1>3. QED
    BY <1>1, <1>2

(* Wherever a writer is, it has been reached through Frames.                 *)
LEMMA EndsWeaker ==
    ASSUME Typed
    PROVE  /\ Arrives(propC, frameP, OutQ, OutEnd) => Arrives(propC, frameP, OutQ, Frames(propC))
           /\ Arrives(propP, frameC, InQ, InEnd) => Arrives(propP, frameC, InQ, Frames(propP))
  BY StreamsTyped, ArrivesWeaker

(* What a lost connection leaves of the stream to the other station.         *)
LEMMA OutCut ==
    ASSUME Typed, s = "up", Arrives(propC, frameP, OutQ, OutEnd),
           NEW q \in Seq(Byte), NEW r \in Seq(Byte), airOut = q \o r
    PROVE  Arrives(propC, frameP, q, Frames(propC))
  <1>1. /\ airOut \in Seq(Byte) /\ axwrite \in Seq(Byte) /\ up \in Seq(Byte) /\ wbufC \in Seq(Byte)
        /\ airOut \o axwrite \in Seq(Byte) /\ airOut \o axwrite \o up \in Seq(Byte)
    BY DEF Typed
  <1>2. Arrives(propC, frameP, airOut \o axwrite \o up, Frames(propC))
    BY <1>1, ArrivesCut DEF OutQ
  <1>3. Arrives(propC, frameP, airOut \o axwrite, Frames(propC))
    BY <1>1, <1>2, ArrivesCut
  <1>4. Arrives(propC, frameP, airOut, Frames(propC))
    BY <1>1, <1>3, ArrivesCut
  <1>5. QED
    BY <1>4, ArrivesCut

(* ... and of the one to the child.                                          *)
LEMMA InCut ==
    ASSUME Typed, s = "up", Arrives(propP, frameC, InQ, InEnd),
           NEW q \in Seq(Byte), NEW r \in Seq(Byte), airIn = q \o r
    PROVE  Arrives(propP, frameC, down \o axread \o q \o <<>>, Frames(propP))
  <1>1. /\ down \in Seq(Byte) /\ axread \in Seq(Byte) /\ airIn \in Seq(Byte) /\ wbufP \in Seq(Byte)
        /\ down \o axread \in Seq(Byte) /\ down \o axread \o airIn \in Seq(Byte)
    BY DEF Typed
  <1>2. Arrives(propP, frameC, down \o axread \o airIn, Frames(propP))
    BY <1>1, ArrivesCut DEF InQ
  <1> DEFINE x == down \o axread
  <1>3. x \in Seq(Byte)
    BY <1>1
  <1> HIDE DEF x
  <1>4. x \o airIn = (x \o q) \o r /\ x \o q \in Seq(Byte)
    BY <1>3, Associative, SMTT(60)
  <1>5. Arrives(propP, frameC, x \o q, Frames(propP))
    BY <1>2, <1>4, ArrivesCut DEF x
  <1>6. (x \o q) \o <<>> = x \o q
    BY <1>4, ConcatEmptySeq
  <1>7. QED
    BY <1>5, <1>6 DEF x

-------------------------------------------------------------------------------
(* What the child writes goes to the end of its stream, and leaves its       *)
(* reader where the child is then; what is flushed, or lost with the child,  *)
(* changes no byte ahead of it.                                              *)
LEMMA ChildFeeds ==
    ASSUME Typed, FlowOut, Exchange \/ Child!Dies,
           UNCHANGED <<s, airOut, axwrite, frameP, modeP>>, modeP = "get"
    PROVE  Arrives(propC, frameP, OutQ', OutEnd')
  <1>0. /\ airOut \in Seq(Byte) /\ axwrite \in Seq(Byte) /\ up \in Seq(Byte) /\ wbufC \in Seq(Byte)
        /\ Arrives(propC, frameP, OutQ, OutEnd) /\ OutQ \in Seq(Byte)
        /\ Arrives(propC, frameP, OutQ, Frames(propC))
    BY StreamsTyped, EndsWeaker DEF Typed, FlowOut
  <1> DEFINE x == airOut \o axwrite
             y == x \o up
  <1>1. x \in Seq(Byte) /\ y \in Seq(Byte) /\ (s = "up" => OutQ = y \o wbufC)
    BY <1>0 DEF OutQ
  <1>2. CASE s # "up"
    <2>1. OutQ' = OutQ /\ propC' = propC
      BY <1>2 DEF OutQ, Exchange, Child!PutHeader, Child!PutBlock, Child!PutChecksum, Child!SayFQ,
         Child!Flush, Child!LostConnection, Child!Dies, Child!Get,
         Child!GetStart, Child!GetHeaderLen, Child!GetTitle, Child!GetOffset,
         Child!GetBlockStart, Child!GetBlockLen, Child!GetData, Child!GetChecksum, Child!GetChar
    <2>2. QED
      BY <1>0, <1>2, <2>1 DEF OutEnd
  <1>3. CASE s = "up"
    <2>0. OutQ' = airOut \o axwrite \o up' \o wbufC' /\ OutQ = y \o wbufC
      BY <1>3 DEF OutQ
    <2>1. CASE Child!PutHeader \/ Child!PutBlock \/ Child!PutChecksum("get") \/ Child!SayFQ
      <3>1. /\ wbufC = <<>> /\ wbufC' \in Seq(Byte) /\ UNCHANGED <<propC, up>>
            /\ \A g \in Ends(propC, {"header"}, modeC, restC) :
                  Arrives(propC, g, wbufC', Ends(propC, {"header"}, modeC', restC'))
        BY <2>1, ChildWrites
      <3>2. OutQ' = y \o wbufC' /\ OutQ = y
        BY <1>1, <2>0, <3>1, ConcatEmptySeq
      <3>3. /\ OutEnd = Ends(propC, {"header"}, modeC, restC)
            /\ OutEnd' = Ends(propC, {"header"}, modeC', restC')
        BY <1>3, <3>1 DEF OutEnd
      <3>4. Arrives(propC, frameP, y, OutEnd)
        BY <1>0, <3>2
      <3> HIDE DEF y
      <3>5. Arrives(propC, frameP, y \o wbufC', OutEnd')
        BY <1>1, <3>1, <3>3, <3>4, ArrivesFurther
      <3>6. QED
        BY <3>2, <3>5
    <2>2. CASE Child!Get("say")
      <3>1. /\ UNCHANGED <<propC, restC, wbufC, up>> /\ modeC = "get"
            /\ modeC' \in {"get", "say", "dead"}
        BY <2>2 DEF Child!Get, Child!GetStart, Child!GetHeaderLen, Child!GetTitle,
           Child!GetOffset, Child!GetBlockStart, Child!GetBlockLen, Child!GetData,
           Child!GetChecksum, Child!GetChar, Child!Rejected
      <3>2. OutQ' = OutQ
        BY <2>0, <3>1
      <3>3. OutEnd \cap Frames(propC) \subseteq OutEnd'
        BY <1>3, <3>1 DEF OutEnd, Ends, Done
      <3>4. QED
        BY <1>0, <3>2, <3>3, ArrivesWeaker
    <2>3. CASE Child!Flush
      <3> DEFINE n == PairCap - Len(up)
      <3>1. /\ n \in Nat /\ up' = up \o Child!FirstOf(wbufC, n)
            /\ wbufC' = Child!RestOf(wbufC, n) /\ UNCHANGED <<propC, restC, modeC>>
        <4>1. Len(up) < PairCap /\ PairCap \in Nat /\ Len(up) \in Nat
          BY <1>0, <2>3, RelayAssumption, LenProperties DEF Child!Flush
        <4>2. QED
          BY <2>3, <4>1 DEF Child!Flush
      <3> HIDE DEF n
      <3> DEFINE f == Child!FirstOf(wbufC, n)
                 r == Child!RestOf(wbufC, n)
      <3>2. f \in Seq(Byte) /\ r \in Seq(Byte) /\ f \o r = wbufC
        BY <1>0, <3>1, PartsOf
      <3>3. up' = up \o f /\ wbufC' = r
        BY <3>1
      <3> HIDE DEF f, r
      <3>4. OutQ' = (x \o (up \o f)) \o r
        BY <2>0, <3>3
      <3> HIDE DEF x
      <3>5. OutQ = (x \o up) \o (f \o r)
        BY <2>0, <3>2
      <3>6. OutQ' = OutQ
        <4>1. x \in Seq(Byte) /\ up \in Seq(Byte) /\ x \o up \in Seq(Byte)
          BY <1>0, <1>1
        <4>2. x \o (up \o f) = (x \o up) \o f
          BY <3>2, <4>1, Associative, SMTT(60)
        <4>3. ((x \o up) \o f) \o r = (x \o up) \o (f \o r)
          BY <3>2, <4>1, Associative, ZenonT(60)
        <4>4. QED
          BY <3>4, <3>5, <4>2, <4>3
      <3>7. OutEnd' = OutEnd
        BY <1>3, <3>1 DEF OutEnd
      <3>8. QED
        BY <1>0, <3>6, <3>7
    <2>4. CASE Child!Dies
      <3>1. modeC' = "dead" /\ wbufC' = <<>> /\ UNCHANGED <<propC, up>>
        BY <2>4 DEF Child!Dies
      <3>2. OutQ' = y
        BY <1>1, <2>0, <3>1, ConcatEmptySeq
      <3>3. OutEnd' = Frames(propC)
        BY <1>3, <3>1 DEF OutEnd, Ends
      <3> HIDE DEF y
      <3>4. Arrives(propC, frameP, y, Frames(propC))
        BY <1>0, <1>1, <2>0, ArrivesCut
      <3>5. QED
        BY <3>2, <3>3, <3>4
    <2>5. QED
      BY <2>1, <2>2, <2>3, <2>4 DEF Exchange, Child!LostConnection
  <1>4. QED
    BY <1>2, <1>3

(* The other station reads the first byte of it.                             *)
LEMMA PeerFed ==
    ASSUME Typed, FlowOut, Peer!Get("header"), UNCHANGED <<s, up, axwrite, child>>
    PROVE  FlowOut'
  <1>1. /\ modeP = "get" /\ airOut # <<>> /\ airOut' = Tail(airOut)
        /\ \/ modeP' = "dead" /\ frameP' = frameP
           \/ modeP' \in {"get", "header"} /\ frameP' = After(frameP, Head(airOut))
    BY PeerReads DEF FlowOut
  <1>2. UNCHANGED <<propC, modeC, restC, wbufC>>
    BY DEF child
  <1>3. /\ airOut \in Seq(Byte) /\ axwrite \in Seq(Byte) /\ up \in Seq(Byte) /\ wbufC \in Seq(Byte)
    BY DEF Typed
  <1>4. /\ OutQ # <<>> /\ Head(OutQ) = Head(airOut) /\ OutQ' = Tail(OutQ)
    <2>1. CASE s # "up"
      BY <1>1, <2>1 DEF OutQ
    <2>2. CASE s = "up"
      <3> DEFINE a == airOut
                 t == Tail(airOut)
                 x == a \o axwrite
                 y == x \o up
                 z == y \o wbufC
      <3>1. /\ t \in Seq(Byte) /\ x \in Seq(Byte) /\ x # <<>> /\ Head(x) = Head(a)
            /\ Tail(x) = t \o axwrite
        BY <1>1, <1>3, FirstByte
      <3> HIDE DEF x
      <3>2. /\ y \in Seq(Byte) /\ y # <<>> /\ Head(y) = Head(a) /\ Tail(y) = Tail(x) \o up
        BY <1>3, <3>1, FirstByte
      <3> HIDE DEF y
      <3>3. /\ z # <<>> /\ Head(z) = Head(a) /\ Tail(z) = Tail(y) \o wbufC
        BY <1>3, <3>2, FirstByte
      <3>4. OutQ = z /\ OutQ' = t \o axwrite \o up \o wbufC
        BY <1>1, <1>2, <2>2 DEF OutQ, x, y
      <3>5. QED
        BY <3>1, <3>2, <3>3, <3>4
    <2>3. QED
      BY <2>1, <2>2
  <1>5. OutEnd' = OutEnd
    BY <1>2 DEF OutEnd
  <1>6. /\ After(frameP, Head(OutQ)) \in Frames(propC)
        /\ Arrives(propC, After(frameP, Head(OutQ)), Tail(OutQ), OutEnd)
    BY <1>1, <1>4, StreamsTyped, ArrivesNext DEF FlowOut
  <1>7. QED
    BY <1>1, <1>2, <1>4, <1>5, <1>6 DEF FlowOut

(* Every step keeps the stream to the other station going.                   *)
LEMMA OutStep == Typed /\ Promised /\ Idle /\ FlowOut /\ [Next]_vars => FlowOut'
  <1> SUFFICES ASSUME Typed, Promised, Idle, FlowOut, [Next]_vars PROVE FlowOut'
    OBVIOUS
  <1>0. /\ airOut \in Seq(Byte) /\ axwrite \in Seq(Byte) /\ up \in Seq(Byte) /\ wbufC \in Seq(Byte)
        /\ airOut \o axwrite \in Seq(Byte)
        /\ {BUFMAXIN, BUFMAXOUT, paclen, AirCap, PairCap} \subseteq Nat
    BY RelayAssumption DEF Typed
  <1>1. CASE UNCHANGED <<s, airOut, axwrite, up, wbufC, modeC, restC, propC, frameP, modeP>>
    BY <1>1 DEF FlowOut, OutQ, OutEnd
  <1>2. CASE ChildRuns \/ AlarmDue \/ Alarm
    <2>1. (Exchange \/ Child!Dies) /\ UNCHANGED <<s, airOut, axwrite, frameP, modeP>>
      BY <1>2 DEF ChildRuns, AlarmDue, Alarm, parent, peer
    <2>2. propC' = propC
      BY <2>1 DEF Exchange, Child!PutHeader, Child!PutBlock, Child!PutChecksum, Child!SayFQ,
         Child!Flush, Child!LostConnection, Child!Dies, Child!Get,
         Child!GetStart, Child!GetHeaderLen, Child!GetTitle, Child!GetOffset,
         Child!GetBlockStart, Child!GetBlockLen, Child!GetData, Child!GetChecksum, Child!GetChar
    <2>3. modeP = "get" => Arrives(propC, frameP, OutQ', OutEnd')
      BY <2>1, ChildFeeds
    <2>4. QED
      BY <2>1, <2>2, <2>3 DEF FlowOut
  <1>3. CASE PeerRuns
    <2>1. UNCHANGED <<s, up, axwrite, child, propC, modeC, restC, wbufC>>
      BY <1>3 DEF PeerRuns, parent, child
    <2>2. CASE Peer!Get("header")
      BY <2>1, <2>2, PeerFed
    <2>3. CASE Peer!PutHeader \/ Peer!PutBlock \/ Peer!PutChecksum("hear") \/ Peer!Flush
      <3>1. UNCHANGED <<airOut, frameP>> /\ (modeP' = "get" => modeP = "get")
        BY <2>3 DEF Peer!PutHeader, Peer!PutBlock, Peer!PutChecksum, Peer!Flush
      <3>2. QED
        BY <2>1, <3>1 DEF FlowOut, OutQ, OutEnd
    <2>4. CASE Peer!HearFQ \/ Peer!LostConnection
      <3>1. frameP' = frameP /\ modeP' # "get"
        BY <2>4 DEF Peer!HearFQ, Peer!LostConnection, Peer!Dies
      <3>2. QED
        BY <2>1, <3>1 DEF FlowOut
    <2>5. QED
      BY <1>3, <2>2, <2>3, <2>4 DEF PeerRuns
  <1>4. CASE \/ PeerHangsUp \/ Drop \/ Kill \/ LingerExpires
             \/ (WriteIn /\ s' # s)
    <2>1. /\ s = "up" /\ s' = "closed" /\ airOut' \in Seq(Byte)
          /\ \E r \in Seq(Byte) : airOut = airOut' \o r
          /\ UNCHANGED <<child, peer, propC, frameP, modeP>>
      <3>1. CASE WriteIn /\ s' # s
        <4>1. s' = "closed" /\ airOut' = airOut /\ UNCHANGED <<child, peer>>
          BY <3>1 DEF WriteIn
        <4>2. s = "up"
          BY <3>1, <4>1 DEF Typed
        <4>3. airOut = airOut' \o <<>> /\ <<>> \in Seq(Byte)
          BY <1>0, <4>1, ConcatEmptySeq
        <4>4. QED
          BY <1>0, <4>1, <4>2, <4>3 DEF child, peer
      <3>2. CASE PeerHangsUp \/ Drop \/ Kill \/ LingerExpires
        BY <3>2, CutTyped DEF PeerHangsUp, Drop, Kill, LingerExpires, child, peer
      <3>3. QED
        BY <1>4, <3>1, <3>2
    <2>2. OutQ' = airOut' /\ OutEnd' = Frames(propC)
      BY <2>1 DEF OutQ, OutEnd
    <2>3. modeP = "get" => Arrives(propC, frameP, airOut', Frames(propC))
      BY <2>1, OutCut DEF FlowOut
    <2>4. QED
      BY <2>1, <2>2, <2>3 DEF FlowOut
  <1>5. CASE Connect
    <2>1. /\ s' = "up" /\ modeP' = "get" /\ modeC' = "header"
          /\ UNCHANGED <<airOut, axwrite, up, wbufC, restC, propC, frameP>>
      BY <1>5 DEF Connect
    <2>2. /\ airOut = <<>> /\ axwrite = <<>> /\ up = <<>> /\ wbufC = <<>>
          /\ frameP = Child!NewFrame
      BY <1>5 DEF Connect, Idle
    <2>3. OutQ' = <<>>
      <3>1. OutQ' = airOut \o axwrite \o up \o wbufC
        BY <2>1 DEF OutQ
      <3>2. (<<>>) \o <<>> = <<>>
        OBVIOUS
      <3>3. QED
        BY <2>2, <3>1, <3>2
    <2>4. OutEnd' = {Child!NewFrame}
      BY <2>1 DEF OutEnd, Ends
    <2>5. Arrives(propC, frameP, <<>>, {Child!NewFrame})
      BY <2>2, ArrivesAtOnce DEF FlowOut
    <2>6. QED
      BY <2>1, <2>3, <2>4, <2>5 DEF FlowOut
  <1>6. CASE ReadOut
    <2>1. /\ axwrite' = Child!FirstOf(up, BUFMAXOUT) /\ up' = Child!RestOf(up, BUFMAXOUT)
          /\ pc = "out"
          /\ UNCHANGED <<s, airOut, wbufC, modeC, restC, propC, frameP, modeP>>
      BY <1>6 DEF ReadOut, child, peer
    <2>2. axwrite = <<>>
      BY <2>1 DEF Promised
    <2>3. airOut \o axwrite = airOut
      BY <1>0, <2>2, ConcatEmptySeq
    <2>4. airOut \o axwrite' \o up' = airOut \o up
      BY <1>0, <2>1, MovesOn
    <2>5. OutQ' = OutQ
      BY <2>1, <2>3, <2>4 DEF OutQ
    <2>6. QED
      BY <2>1, <2>5 DEF FlowOut, OutEnd
  <1>7. CASE WriteOut
    <2>1. UNCHANGED <<s, up, wbufC, modeC, restC, propC, frameP, modeP>>
      BY <1>7 DEF WriteOut, child, peer
    <2>2. OutQ' = OutQ
      <3>1. CASE s = "up"
        <4>1. /\ airOut' = airOut \o Child!FirstOf(axwrite, paclen)
              /\ axwrite' = Child!RestOf(axwrite, paclen)
          BY <1>7, <3>1 DEF WriteOut
        <4>2. airOut' \o axwrite' = airOut \o axwrite
          BY <1>0, <4>1, MovesOn
        <4>3. /\ OutQ' = airOut' \o axwrite' \o up \o wbufC
              /\ OutQ = airOut \o axwrite \o up \o wbufC
          BY <2>1, <3>1 DEF OutQ
        <4>4. QED
          BY <4>2, <4>3
      <3>2. CASE s # "up"
        <4>1. airOut' = airOut
          BY <1>7, <3>2 DEF WriteOut
        <4>2. QED
          BY <2>1, <3>2, <4>1 DEF OutQ
      <3>3. QED
        BY <3>1, <3>2
    <2>3. QED
      BY <2>1, <2>2 DEF FlowOut, OutEnd
  <1>8. CASE \/ ConnectFails \/ Poll \/ SkipIn \/ ReadIn \/ ReadInEof \/ WroteIn \/ SkipOut
             \/ WroteOut \/ WaitPid \/ Disconnected \/ (WriteIn /\ s' = s) \/ UNCHANGED vars
    <2>1. UNCHANGED <<s, airOut, axwrite, up, child, peer>>
      BY <1>8 DEF ConnectFails, Poll, SkipIn, ReadIn, ReadInEof, WroteIn, SkipOut, WroteOut,
         WaitPid, Disconnected, WriteIn, vars, parent, child, peer
    <2>2. QED
      BY <1>1, <2>1 DEF child, peer
  <1>9. QED
    BY <1>2, <1>3, <1>4, <1>5, <1>6, <1>7, <1>8 DEF Next, Parent

-------------------------------------------------------------------------------
(* The same of what the other station writes.                                *)
LEMMA PeerFeeds ==
    ASSUME Typed, FlowIn, PeerRuns, UNCHANGED <<s, down, axread, frameC, modeC>>,
           modeC \in {"header", "block", "get"}
    PROVE  propP' = propP /\ Arrives(propP, frameC, InQ', InEnd')
  <1>0. /\ down \in Seq(Byte) /\ axread \in Seq(Byte) /\ airIn \in Seq(Byte) /\ wbufP \in Seq(Byte)
        /\ Arrives(propP, frameC, InQ, InEnd) /\ InQ \in Seq(Byte)
        /\ Arrives(propP, frameC, InQ, Frames(propP))
    BY StreamsTyped, EndsWeaker DEF Typed, FlowIn
  <1> DEFINE x == down \o axread
             y == x \o airIn
  <1>1. x \in Seq(Byte) /\ y \in Seq(Byte)
    BY <1>0
  <1>2. /\ \/ Peer!PutHeader \/ Peer!PutBlock \/ Peer!PutChecksum("hear") \/ Peer!HearFQ
           \/ Peer!Get("header") \/ (s = "up" /\ Peer!Flush)
           \/ (s # "up" /\ Peer!LostConnection)
    BY DEF PeerRuns
  <1>3. CASE s # "up"
    <2>1. airIn' = airIn /\ propP' = propP
      BY <1>2, <1>3 DEF Peer!PutHeader, Peer!PutBlock, Peer!PutChecksum, Peer!HearFQ,
         Peer!LostConnection, Peer!Dies, Peer!Get,
         Peer!GetStart, Peer!GetHeaderLen, Peer!GetTitle, Peer!GetOffset,
         Peer!GetBlockStart, Peer!GetBlockLen, Peer!GetData, Peer!GetChecksum, Peer!GetChar
    <2>2. InQ' = InQ /\ InEnd' = InEnd
      BY <1>3, <2>1 DEF InQ, InEnd
    <2>3. QED
      BY <1>0, <2>1, <2>2
  <1>4. CASE s = "up"
    <2>0. InQ' = down \o axread \o airIn' \o wbufP' /\ InQ = y \o wbufP
      BY <1>4 DEF InQ
    <2>1. CASE Peer!PutHeader \/ Peer!PutBlock \/ Peer!PutChecksum("hear")
      <3>1. /\ wbufP = <<>> /\ wbufP' \in Seq(Byte) /\ UNCHANGED <<propP, airIn>>
            /\ \A g \in Ends(propP, {"get", "header"}, modeP, restP) :
                  Arrives(propP, g, wbufP', Ends(propP, {"get", "header"}, modeP', restP'))
        BY <2>1, PeerWrites
      <3>2. InQ' = y \o wbufP' /\ InQ = y
        BY <1>1, <2>0, <3>1, ConcatEmptySeq
      <3>3. /\ InEnd = Ends(propP, {"get", "header"}, modeP, restP)
            /\ InEnd' = Ends(propP, {"get", "header"}, modeP', restP')
        BY <1>4, <3>1 DEF InEnd
      <3>4. Arrives(propP, frameC, y, InEnd)
        BY <1>0, <3>2
      <3> HIDE DEF y
      <3>5. Arrives(propP, frameC, y \o wbufP', InEnd')
        BY <1>1, <3>1, <3>3, <3>4, ArrivesFurther
      <3>6. QED
        BY <3>1, <3>2, <3>5
    <2>2. CASE Peer!Get("header") \/ Peer!HearFQ
      <3>1. /\ UNCHANGED <<propP, restP, wbufP, airIn>>
            /\ \/ modeP = "get" /\ modeP' \in {"get", "header", "dead"}
               \/ modeP = "hear" /\ modeP' \in {"over", "dead"}
        BY <2>2 DEF Peer!Get, Peer!GetStart, Peer!GetHeaderLen, Peer!GetTitle,
           Peer!GetOffset, Peer!GetBlockStart, Peer!GetBlockLen, Peer!GetData,
           Peer!GetChecksum, Peer!GetChar, Peer!Rejected, Peer!HearFQ
      <3>2. InQ' = InQ
        BY <2>0, <3>1
      <3>3. InEnd \cap Frames(propP) \subseteq InEnd'
        BY <1>4, <3>1 DEF InEnd, Ends, Done
      <3>4. QED
        BY <1>0, <3>1, <3>2, <3>3, ArrivesWeaker
    <2>3. CASE Peer!Flush
      <3> DEFINE n == AirCap - Len(airIn)
      <3>1. /\ n \in Nat /\ airIn' = airIn \o Child!FirstOf(wbufP, n)
            /\ wbufP' = Child!RestOf(wbufP, n) /\ UNCHANGED <<propP, restP, modeP>>
        <4>1. Len(airIn) < AirCap /\ AirCap \in Nat /\ Len(airIn) \in Nat
          BY <1>0, <2>3, RelayAssumption, LenProperties DEF Peer!Flush
        <4>2. QED
          BY <2>3, <4>1 DEF Peer!Flush, Peer!FirstOf, Child!FirstOf, Peer!RestOf, Child!RestOf
      <3> HIDE DEF n
      <3> DEFINE f == Child!FirstOf(wbufP, n)
                 r == Child!RestOf(wbufP, n)
      <3>2. f \in Seq(Byte) /\ r \in Seq(Byte) /\ f \o r = wbufP
        BY <1>0, <3>1, PartsOf
      <3>3. airIn' = airIn \o f /\ wbufP' = r
        BY <3>1
      <3> HIDE DEF f, r
      <3>4. InQ' = (x \o (airIn \o f)) \o r
        BY <2>0, <3>3
      <3> HIDE DEF x
      <3>5. InQ = (x \o airIn) \o (f \o r)
        BY <2>0, <3>2
      <3>6. InQ' = InQ
        <4>1. x \in Seq(Byte) /\ airIn \in Seq(Byte) /\ x \o airIn \in Seq(Byte)
          BY <1>0, <1>1
        <4>2. x \o (airIn \o f) = (x \o airIn) \o f
          BY <3>2, <4>1, Associative, SMTT(60)
        <4>3. ((x \o airIn) \o f) \o r = (x \o airIn) \o (f \o r)
          BY <3>2, <4>1, Associative, ZenonT(60)
        <4>4. QED
          BY <3>4, <3>5, <4>2, <4>3
      <3>7. InEnd' = InEnd
        BY <1>4, <3>1 DEF InEnd
      <3>8. QED
        BY <1>0, <3>1, <3>6, <3>7
    <2>4. QED
      BY <1>2, <1>4, <2>1, <2>2, <2>3
  <1>5. QED
    BY <1>3, <1>4

(* The child reads the first byte of it.                                     *)
LEMMA ChildFed ==
    ASSUME Typed, FlowIn, Child!Get("say"), UNCHANGED <<s, axread, airIn, peer>>
    PROVE  FlowIn'
  <1>1. /\ modeC = "get" /\ down # <<>> /\ down' = Tail(down)
        /\ \/ modeC' = "dead" /\ frameC' = frameC
           \/ modeC' \in {"get", "say"} /\ frameC' = After(frameC, Head(down))
    BY ChildReads DEF FlowIn
  <1>2. UNCHANGED <<propP, modeP, restP, wbufP>>
    BY DEF peer
  <1> DEFINE w == IF s = "up" THEN wbufP ELSE <<>>
  <1>3. /\ down \in Seq(Byte) /\ axread \in Seq(Byte) /\ airIn \in Seq(Byte) /\ w \in Seq(Byte)
    BY DEF Typed
  <1>4. /\ InQ # <<>> /\ Head(InQ) = Head(down) /\ InQ' = Tail(InQ)
    <2> DEFINE a == down
               t == Tail(down)
               x == a \o axread
               y == x \o airIn
               z == y \o w
    <2>1. InQ = z /\ InQ' = t \o axread \o airIn \o w
      BY <1>1, <1>2 DEF InQ
    <2> HIDE DEF w
    <2>2. /\ t \in Seq(Byte) /\ x \in Seq(Byte) /\ x # <<>> /\ Head(x) = Head(a)
          /\ Tail(x) = t \o axread
      BY <1>1, <1>3, FirstByte
    <2> HIDE DEF x
    <2>3. /\ y \in Seq(Byte) /\ y # <<>> /\ Head(y) = Head(a) /\ Tail(y) = Tail(x) \o airIn
      BY <1>3, <2>2, FirstByte
    <2> HIDE DEF y
    <2>4. /\ z # <<>> /\ Head(z) = Head(a) /\ Tail(z) = Tail(y) \o w
      BY <1>3, <2>3, FirstByte
    <2>5. QED
      BY <2>1, <2>2, <2>3, <2>4
  <1>5. InEnd' = InEnd
    BY <1>2 DEF InEnd
  <1>6. /\ After(frameC, Head(InQ)) \in Frames(propP)
        /\ Arrives(propP, After(frameC, Head(InQ)), Tail(InQ), InEnd)
    BY <1>1, <1>4, StreamsTyped, ArrivesNext DEF FlowIn
  <1>7. QED
    BY <1>1, <1>2, <1>4, <1>5, <1>6 DEF FlowIn

(* Every step keeps the stream to the child going.                           *)
LEMMA InStep == Typed /\ Promised /\ Idle /\ FlowIn /\ [Next]_vars => FlowIn'
  <1> SUFFICES ASSUME Typed, Promised, Idle, FlowIn, [Next]_vars PROVE FlowIn'
    OBVIOUS
  <1>0. /\ down \in Seq(Byte) /\ axread \in Seq(Byte) /\ airIn \in Seq(Byte) /\ wbufP \in Seq(Byte)
        /\ {BUFMAXIN, BUFMAXOUT, paclen, AirCap, PairCap} \subseteq Nat
    BY RelayAssumption DEF Typed
  <1>1. CASE UNCHANGED <<s, down, axread, airIn, wbufP, modeP, restP, propP, frameC, modeC>>
    BY <1>1 DEF FlowIn, InQ, InEnd
  <1>2. CASE ChildRuns \/ AlarmDue \/ Alarm
    <2>1. (Exchange \/ Child!Dies) /\ UNCHANGED <<s, axread, airIn, peer>>
      BY <1>2 DEF ChildRuns, AlarmDue, Alarm, parent
    <2>2. CASE Child!Get("say")
      BY <2>1, <2>2, ChildFed
    <2>3. CASE Child!PutHeader \/ Child!PutBlock \/ Child!PutChecksum("get") \/ Child!SayFQ
               \/ Child!Flush
      <3>1. /\ UNCHANGED <<down, frameC>>
            /\ modeC' \in {"header", "block", "get"} => modeC \in {"header", "block", "get"}
        BY <2>3 DEF Child!PutHeader, Child!PutBlock, Child!PutChecksum, Child!SayFQ, Child!Flush
      <3>2. QED
        BY <2>1, <3>1 DEF FlowIn, InQ, InEnd, peer
    <2>4. CASE Child!Dies
      <3>1. frameC' = frameC /\ modeC' = "dead"
        BY <2>4 DEF Child!Dies
      <3>2. QED
        BY <2>1, <3>1 DEF FlowIn, peer
    <2>5. QED
      BY <2>1, <2>2, <2>3, <2>4 DEF Exchange, Child!LostConnection
  <1>3. CASE PeerRuns
    <2>1. UNCHANGED <<s, down, axread, frameC, modeC>>
      BY <1>3 DEF PeerRuns, parent, child
    <2>2. propP' = propP
      BY <1>3 DEF PeerRuns, Peer!PutHeader, Peer!PutBlock, Peer!PutChecksum, Peer!HearFQ,
         Peer!Flush, Peer!LostConnection, Peer!Dies, Peer!Get,
         Peer!GetStart, Peer!GetHeaderLen, Peer!GetTitle, Peer!GetOffset,
         Peer!GetBlockStart, Peer!GetBlockLen, Peer!GetData, Peer!GetChecksum, Peer!GetChar
    <2>3. modeC \in {"header", "block", "get"} => Arrives(propP, frameC, InQ', InEnd')
      BY <1>3, <2>1, PeerFeeds
    <2>4. QED
      BY <2>1, <2>2, <2>3 DEF FlowIn
  <1>4. CASE \/ PeerHangsUp \/ Drop \/ Kill \/ LingerExpires
             \/ (WriteIn /\ s' # s)
    <2>1. /\ s = "up" /\ s' = "closed" /\ airIn' \in Seq(Byte)
          /\ \E r \in Seq(Byte) : airIn = airIn' \o r
          /\ UNCHANGED <<down, axread, peer, propP, frameC, modeC>>
      <3>1. CASE WriteIn /\ s' # s
        <4>1. s' = "closed" /\ UNCHANGED <<airIn, down, axread, child, peer>>
          BY <3>1 DEF WriteIn
        <4>2. s = "up"
          BY <3>1, <4>1 DEF Typed
        <4>3. airIn = airIn' \o <<>> /\ <<>> \in Seq(Byte)
          BY <1>0, <4>1, ConcatEmptySeq
        <4>4. QED
          BY <1>0, <4>1, <4>2, <4>3 DEF child, peer
      <3>2. CASE PeerHangsUp \/ Drop \/ Kill \/ LingerExpires
        BY <3>2, CutTyped DEF PeerHangsUp, Drop, Kill, LingerExpires, parent, child, peer
      <3>3. QED
        BY <1>4, <3>1, <3>2
    <2>2. InQ' = down \o axread \o airIn' \o <<>> /\ InEnd' = Frames(propP)
      BY <2>1 DEF InQ, InEnd
    <2>3. modeC \in {"header", "block", "get"} =>
             Arrives(propP, frameC, down \o axread \o airIn' \o <<>>, Frames(propP))
      BY <2>1, InCut DEF FlowIn
    <2>4. QED
      BY <2>1, <2>2, <2>3 DEF FlowIn
  <1>5. CASE Connect
    <2>1. /\ s' = "up" /\ modeP' = "get"
          /\ UNCHANGED <<down, axread, airIn, wbufP, propP, frameC>>
      BY <1>5 DEF Connect
    <2>2. /\ down = <<>> /\ axread = <<>> /\ airIn = <<>> /\ wbufP = <<>>
          /\ frameC = Child!NewFrame
      BY <1>5 DEF Connect, Idle
    <2>3. InQ' = <<>>
      <3>1. InQ' = down \o axread \o airIn \o wbufP
        BY <2>1 DEF InQ
      <3>2. (<<>>) \o <<>> = <<>>
        OBVIOUS
      <3>3. QED
        BY <2>2, <3>1, <3>2
    <2>4. InEnd' = {Child!NewFrame}
      BY <2>1 DEF InEnd, Ends
    <2>5. Arrives(propP, frameC, <<>>, {Child!NewFrame})
      BY <2>2, ArrivesAtOnce DEF FlowIn
    <2>6. QED
      BY <2>1, <2>3, <2>4, <2>5 DEF FlowIn
  <1>6. CASE ReadIn
    <2>1. /\ axread' = Child!FirstOf(airIn, BUFMAXIN) /\ airIn' = Child!RestOf(airIn, BUFMAXIN)
          /\ pc = "in"
          /\ UNCHANGED <<s, down, wbufP, modeP, restP, propP, frameC, modeC>>
      BY <1>6 DEF ReadIn, child, peer
    <2>2. axread = <<>>
      BY <2>1 DEF Promised
    <2>3. down \o axread = down
      BY <1>0, <2>2, ConcatEmptySeq
    <2>4. down \o axread' \o airIn' = down \o airIn
      BY <1>0, <2>1, MovesOn
    <2>5. InQ' = InQ
      BY <2>1, <2>3, <2>4 DEF InQ
    <2>6. QED
      BY <2>1, <2>5 DEF FlowIn, InEnd
  <1>7. CASE WriteIn /\ s' = s
    <2>1. UNCHANGED <<s, airIn, wbufP, modeP, restP, propP, frameC, modeC>>
      BY <1>7 DEF WriteIn, child, peer
    <2>2. InQ' = InQ
      <3>1. CASE ~Child!Ended
        <4>1. /\ down' = down \o Child!FirstOf(axread, paclen)
              /\ axread' = Child!RestOf(axread, paclen)
          BY <1>7, <3>1 DEF WriteIn
        <4>2. down' \o axread' = down \o axread
          BY <1>0, <4>1, MovesOn
        <4>3. QED
          BY <2>1, <4>2 DEF InQ
      <3>2. CASE Child!Ended
        <4>1. UNCHANGED <<down, axread>>
          BY <1>7, <3>2 DEF WriteIn
        <4>2. QED
          BY <2>1, <4>1 DEF InQ
      <3>3. QED
        BY <3>1, <3>2
    <2>3. QED
      BY <2>1, <2>2 DEF FlowIn, InEnd
  <1>8. CASE \/ ConnectFails \/ Poll \/ SkipIn \/ ReadInEof \/ WroteIn \/ SkipOut \/ ReadOut
             \/ WriteOut \/ WroteOut \/ WaitPid \/ Disconnected \/ UNCHANGED vars
    <2>1. UNCHANGED <<s, down, axread, airIn, child, peer>>
      BY <1>8 DEF ConnectFails, Poll, SkipIn, ReadInEof, WroteIn, SkipOut, ReadOut, WriteOut,
         WroteOut, WaitPid, Disconnected, vars, parent, child, peer
    <2>2. QED
      BY <1>1, <2>1 DEF child, peer
  <1>9. QED
    BY <1>2, <1>3, <1>4, <1>5, <1>6, <1>7, <1>8 DEF Next, Parent

-------------------------------------------------------------------------------
(* A child that has ended does nothing more.                                 *)
LEMMA EndedIsOver == Child!Ended => ~ChildRuns
  BY DEF ChildRuns, Exchange, Child!Ended, Child!PutHeader, Child!PutBlock,
     Child!PutChecksum, Child!SayFQ, Child!Flush, Child!LostConnection, Child!Reading,
     Child!Get, Child!GetStart, Child!GetHeaderLen, Child!GetTitle, Child!GetOffset,
     Child!GetBlockStart, Child!GetBlockLen, Child!GetData, Child!GetChecksum, Child!GetChar

(* Nobody but the parent takes anything out of the socket pair.              *)
LEMMA PromisedStep == Typed /\ Promised /\ [Next]_vars => Promised'
  <1> SUFFICES ASSUME Typed, Promised, [Next]_vars PROVE Promised'
    OBVIOUS
  <1>0. up \in Seq(Byte) /\ wbufC \in Seq(Byte)
    BY DEF Typed
  <1>1. CASE ChildRuns
    <2>1. ~Child!Ended /\ UNCHANGED parent
      BY <1>1, EndedIsOver DEF ChildRuns
    <2>2. up # <<>> => up' # <<>>
      <3>1. CASE Child!Flush
        <4> DEFINE f == Child!FirstOf(wbufC, PairCap - Len(up))
        <4>1. up' = up \o f /\ Len(up) < PairCap
          BY <3>1 DEF Child!Flush
        <4>2. PairCap \in Nat /\ Len(up) \in Nat
          BY <1>0, RelayAssumption, LenProperties
        <4>3. f \in Seq(Byte)
          BY <1>0, <4>1, <4>2, PartsOf
        <4> HIDE DEF f
        <4>4. QED
          BY <1>0, <4>1, <4>3, FirstByte
      <3>2. CASE up' = up
        BY <3>2
      <3>3. QED
        BY <1>1, <3>1, <3>2 DEF ChildRuns, Exchange, Child!PutHeader, Child!PutBlock,
           Child!PutChecksum, Child!SayFQ, Child!LostConnection, Child!Dies,
           Child!Get, Child!GetStart, Child!GetHeaderLen, Child!GetTitle, Child!GetOffset,
           Child!GetBlockStart, Child!GetBlockLen, Child!GetData, Child!GetChecksum,
           Child!GetChar
    <2>3. QED
      BY <2>1, <2>2 DEF Promised, parent
  <1>2. CASE AlarmDue \/ Alarm
    <2>1. Child!Ended' /\ UNCHANGED <<parent, up>>
      BY <1>2 DEF AlarmDue, Alarm, Child!Dies, Child!Ended
    <2>2. QED
      BY <2>1 DEF Promised, parent
  <1>3. CASE Kill \/ LingerExpires \/ ConnectFails \/ Disconnected
    BY <1>3 DEF Kill, LingerExpires, ConnectFails, Disconnected, Promised
  <1>4. CASE Connect
    BY <1>4 DEF Connect, Promised
  <1>5. CASE Poll
    BY <1>5 DEF Poll, Promised, child, Child!Ended
  <1>6. CASE SkipIn \/ ReadIn \/ ReadInEof \/ WriteIn \/ WroteIn
    BY <1>6 DEF SkipIn, ReadIn, ReadInEof, WriteIn, WroteIn, Promised, child, Child!Ended
  <1>7. CASE SkipOut \/ WriteOut \/ WroteOut \/ WaitPid
    BY <1>7 DEF SkipOut, WriteOut, WroteOut, WaitPid, Promised, child, Child!Ended
  <1>8. CASE ReadOut
    <2>1. /\ pc = "out" /\ "sv" \in ready /\ pc' = IF up = <<>> THEN "wait" ELSE "writeOut"
          /\ axwrite' = Child!FirstOf(up, BUFMAXOUT) /\ up' = Child!RestOf(up, BUFMAXOUT)
          /\ UNCHANGED <<axread, child>>
      BY <1>8 DEF ReadOut
    <2>2. CASE up = <<>>
      <3>1. axwrite' = <<>> /\ up' = <<>>
        BY <2>1, <2>2, RelayAssumption DEF Child!FirstOf, Child!RestOf
      <3>2. Child!Ended'
        BY <2>1, <2>2 DEF Promised, child, Child!Ended
      <3>3. QED
        BY <2>1, <2>2, <3>1, <3>2 DEF Promised
    <2>3. CASE up # <<>>
      BY <2>1, <2>3 DEF Promised
    <2>4. QED
      BY <2>2, <2>3
  <1>9. CASE UNCHANGED <<parent, up, child>>
    BY <1>9 DEF Promised, parent, child, Child!Ended
  <1>10. QED
    BY <1>1, <1>2, <1>3, <1>4, <1>5, <1>6, <1>7, <1>8, <1>9
       DEF Next, Parent, PeerRuns, PeerHangsUp, Drop, vars

-------------------------------------------------------------------------------
(* The inductive invariant of the relay and its two ends.                    *)
Inv == Typed /\ Promised /\ Idle /\ FlowOut /\ FlowIn

(* Before the connection is made nothing is on its way.                      *)
LEMMA InvInit == Init => Inv
  <1> SUFFICES ASSUME Init PROVE Inv
    OBVIOUS
  <1>1. /\ {BUFMAXIN, BUFMAXOUT, AirCap, PairCap, MaxTitle} \subseteq Nat
        /\ 0 \in Byte /\ 0 \in 0 .. Width
    BY RelayAssumption, SMTT(60) DEF Byte, Child!Bytes
  <1>2. propC \in Message /\ propP \in Message
    BY RelayAssumption DEF Init, Message, Byte, Child!Bytes
  <1>3. <<>> \in Seq(Byte) /\ Len(<<>>) = 0 /\ Len(<<>>) =< MaxTitle
    BY <1>1
  <1>4. Typed
    <2>1. Len(propC.data) \in Nat /\ Len(propP.data) \in Nat
      BY <1>2, LenProperties DEF Message
    <2>2. QED
      BY <1>1, <1>2, <1>3, <2>1 DEF Init, Typed, Child!Mode
  <1>5. \A m : Child!NewFrame \in Frames(m)
    <2> TAKE m
    <2>1. State("soh", 0, <<>>, <<>>, <<>>) \in Frames(m)
      BY <1>1, <1>3, StateIsFrame DEF Expected
    <2>2. QED
      BY <2>1 DEF State, Child!NewFrame
  <1>6. Promised /\ Idle
    BY DEF Init, Promised, Idle, Child!NewFrame, Peer!NewFrame
  <1>7. FlowOut /\ FlowIn
    BY <1>5 DEF Init, FlowOut, FlowIn, Child!NewFrame, Peer!NewFrame
  <1>8. QED
    BY <1>4, <1>6, <1>7 DEF Inv

(* Every step of the parent, the child, the other station and the link keeps *)
(* it.                                                                       *)
LEMMA InvStep == Inv /\ [Next]_vars => Inv'
  <1> SUFFICES ASSUME Inv, [Next]_vars PROVE Inv'
    OBVIOUS
  <1>1. frameC \in Frames(propP) /\ frameP \in Frames(propC)
    BY DEF Inv, FlowIn, FlowOut
  <1>2. Typed'
    BY <1>1, TypedStep DEF Inv
  <1>3. Promised'
    BY PromisedStep DEF Inv
  <1>4. Idle'
    BY IdleStep DEF Inv
  <1>5. FlowOut'
    BY OutStep DEF Inv
  <1>6. FlowIn'
    BY InStep DEF Inv
  <1>7. QED
    BY <1>2, <1>3, <1>4, <1>5, <1>6 DEF Inv

(* The invariant holds of every state of the relay.                          *)
LEMMA Invariant == Spec => []Inv
  <1>1. QED
    BY InvInit, InvStep, PTL DEF Spec

-------------------------------------------------------------------------------
(* Every variable of the relay and of the two ends of the framing has its    *)
(* type: no buffer or queue of wl2kax25 is filled beyond its size, and       *)
(* getcompressed() keeps no more of a title than it has room for.            *)
THEOREM TypeCorrect == Spec => []TypeOK
  <1>1. Inv => TypeOK
    <2> SUFFICES ASSUME Inv PROVE TypeOK
      OBVIOUS
    <2>1. Typed /\ frameC \in Frames(propP) /\ frameP \in Frames(propC)
      BY DEF Inv, FlowIn, FlowOut
    <2>2. Child!TypeOK
      BY <2>1 DEF Child!TypeOK, Typed, Frames, Byte
    <2>3. Peer!TypeOK
      BY <2>1 DEF Peer!TypeOK, Peer!Mode, Peer!Puts, Peer!Bytes, Child!Mode, Child!Puts,
         Child!Bytes, Typed, Frames, Byte
    <2>4. QED
      BY <2>1, <2>2, <2>3 DEF TypeOK, Typed
  <1>2. QED
    BY <1>1, Invariant, PTL

(* What getcompressed() returns is the message that putcompressed() was      *)
(* given, whatever its bytes and however the relay and the link cut it up.   *)
THEOREM MessageIsWhole == Spec => []GotIsPut
  <1>1. Inv => GotIsPut
    <2> SUFFICES ASSUME Inv PROVE GotIsPut
      OBVIOUS
    <2>1. frameC \in Frames(propP) /\ frameP \in Frames(propC)
      BY DEF Inv, FlowIn, FlowOut
    <2>2. QED
      BY <2>1 DEF GotIsPut, Frames, Child!HasGot, Peer!HasGot
  <1>2. QED
    BY <1>1, Invariant, PTL

(* The parent leaves its loop only when all that the child has written has   *)
(* been handed to the AX.25 socket ("EOF on child fd").                      *)
THEOREM LastWordsAreSent == Spec => []LastWords
  <1>1. Inv => LastWords
    BY DEF Inv, Promised, LastWords
  <1>2. QED
    BY <1>1, Invariant, PTL
===============================================================================
