-------------------------------- MODULE Huffman --------------------------------
(***************************************************************************)
(* The adaptive Huffman coder of src/lzhuf_1.c.  The program's encoder and  *)
(* its peer's decoder run update() on the same codes in the same order, so  *)
(* one tree stands for both: it is the encoder's when EncodeChar() writes a *)
(* code and the decoder's when DecodeChar() reads the bits of it.           *)
(*                                                                         *)
(* Nodes 0 .. R are kept in order of frequency.  The two sons of a node are *)
(* neighbours: son[n] is the left one, or T + c when n is the leaf of code  *)
(* c.  prnt[T + c] is that leaf.  Each pass of a loop of update() and       *)
(* reconst() is a step.                                                     *)
(***************************************************************************)
EXTENDS Integers, Sequences

CONSTANTS
    NChar,      \* N_CHAR: the codes are 0 .. NChar-1
    NLiteral,   \* 256: the codes below are bytes, the others match lengths
    MaxFreq,    \* MAX_FREQ: the root's frequency at which reconst() runs
    CodeWidth,  \* the bits of the register EncodeChar() builds a code in
    Positions   \* the match positions a match is sent with

ASSUME SizesAssumption ==
    /\ NChar \in Nat \ {0, 1}
    /\ NLiteral \in 1..NChar
    /\ MaxFreq \in Nat
    /\ NChar < MaxFreq
    /\ MaxFreq < 65535
    /\ CodeWidth \in Nat \ {0}
    /\ Positions \subseteq 0..4095

T == 2 * NChar - 1
R == T - 1

Code == 0..NChar-1
Node == 0..R
Leaf(x) == T + x
Right(x) == IF x < T THEN x + 1 ELSE x    \* the other son, if x is not a leaf

VARIABLES
    tree,   \* the arrays freq, son and prnt
    pc,     \* "idle", or the loop that runs: "collect", "build", "climb"
    i, j,   \* counters of reconst()'s loops
    c,      \* update()'s cursor
    sent,   \* what the encoder wrote last: <<"char", c>> or <<"position", p>>
    heard   \* what the decoder reads from the bits of it

vars == <<tree, pc, i, j, c, sent, heard>>

(* StartHuff().  freq[T] is a sentinel above every frequency.                *)
StartFreq[n \in 0..T] ==
    IF n = T THEN 65535
    ELSE IF n < NChar THEN 1
    ELSE StartFreq[2 * (n - NChar)] + StartFreq[2 * (n - NChar) + 1]

StartHuff ==
    [freq |-> StartFreq,
     son  |-> [n \in Node |-> IF n < NChar THEN Leaf(n) ELSE 2 * (n - NChar)],
     prnt |-> [x \in 0..T + NChar - 1 |->
                 IF x >= T THEN x - T ELSE IF x = R THEN 0 ELSE NChar + x \div 2]]

Rest ==
    /\ pc = "idle"
    /\ i = 0 /\ j = 0 /\ c = 0
    /\ sent = <<"none", 0>> /\ heard = <<"none", 0>>

Init == tree = StartHuff /\ Rest

-------------------------------------------------------------------------------
(* EncodeChar() and DecodeChar().  The bits of a code, from the root down:   *)
(* 1 for the right son, which is the odd one.                                *)
Bits(x) ==
    LET Down[k \in Node] ==
          IF k = R THEN <<>> ELSE Append(Down[tree.prnt[k]], k % 2)
    IN  Down[tree.prnt[Leaf(x)]]

(* Mutant: the register is a bit shorter.                                    *)
Written_Narrow(bits) == [k \in DOMAIN bits |-> IF k < CodeWidth THEN bits[k] ELSE 0]

(* Putcode(): the bits the register has lost are written as 0.               *)
Written(bits) == [k \in DOMAIN bits |-> IF k <= CodeWidth THEN bits[k] ELSE 0]

(* The code DecodeChar() arrives at with these bits, or -1 when it stops     *)
(* before the last of them or needs more.                                    *)
DecodeChar(bits) ==
    LET Down(n, b) == IF n \in Node THEN tree.son[n + b] ELSE -1
        Reached[k \in 0..Len(bits)] ==
          IF k = 0 THEN tree.son[R] ELSE Down(Reached[k - 1], bits[k])
        end == Reached[Len(bits)]
    IN  IF end >= T THEN end - T ELSE -1

IsMatch == sent[1] = "char" /\ sent[2] >= NLiteral

(* Mutant: the root is rebuilt one count late.                               *)
EncodeChar_Late(x) ==
    /\ pc = "idle"
    /\ ~IsMatch
    /\ sent' = <<"char", x>>
    /\ heard' = <<"char", DecodeChar(Written(Bits(x)))>>
    /\ IF tree.freq[R] > MaxFreq
       THEN pc' = "collect" /\ i' = 0 /\ j' = 0 /\ UNCHANGED c
       ELSE pc' = "climb" /\ c' = tree.prnt[Leaf(x)] /\ UNCHANGED <<i, j>>
    /\ UNCHANGED tree

(* EncodeChar() up to the first pass of update()'s loop.  Its error return   *)
(* is for a node that is its own parent: Linked, below, says there is none.  *)
EncodeChar(x) ==
    /\ pc = "idle"
    /\ ~IsMatch
    /\ sent' = <<"char", x>>
    /\ heard' = <<"char", DecodeChar(Written(Bits(x)))>>
    /\ IF tree.freq[R] = MaxFreq
       THEN /\ pc' = "collect"
            /\ i' = 0 /\ j' = 0
            /\ UNCHANGED c
       ELSE /\ pc' = "climb"
            /\ c' = tree.prnt[Leaf(x)]
            /\ UNCHANGED <<i, j>>
    /\ UNCHANGED tree

-------------------------------------------------------------------------------
(* reconst(), first loop: the leaves are moved down, in order, and halved.   *)
CollectLeaf ==
    /\ pc = "collect" /\ i < T
    /\ tree.son[i] >= T
    /\ tree' = [tree EXCEPT !.freq[j] = (tree.freq[i] + 1) \div 2,
                            !.son[j]  = tree.son[i]]
    /\ i' = i + 1 /\ j' = j + 1
    /\ UNCHANGED <<pc, c, sent, heard>>

(* Mutant: only a leaf moves the loop on.                                    *)
CollectNode_Stays ==
    /\ pc = "collect" /\ i < T
    /\ tree.son[i] < T
    /\ UNCHANGED vars

CollectNode ==
    /\ pc = "collect" /\ i < T
    /\ tree.son[i] < T
    /\ i' = i + 1
    /\ UNCHANGED <<tree, pc, j, c, sent, heard>>

CollectEnds ==
    /\ pc = "collect" /\ i = T
    /\ pc' = "build"
    /\ i' = 0 /\ j' = NChar
    /\ UNCHANGED <<tree, c, sent, heard>>

(* Mutant: a node is put right behind its sons, if another stands there.     *)
Place_First(f) == IF i + 2 < j THEN i + 2 ELSE j

(* Where the second loop puts a node of frequency f among 0 .. j-1: behind   *)
(* the last one that is not more frequent.                                   *)
Place(f) == CHOOSE k \in 0..j :
              /\ k > 0 => tree.freq[k - 1] <= f
              /\ \A n \in k..j - 1 : f < tree.freq[n]

(* f with v put in at k, what was there and up to j moved one up (memmove).  *)
Inserted(f, k, v) ==
    [n \in DOMAIN f |-> IF n = k THEN v
                        ELSE IF n \in k + 1..j THEN f[n - 1] ELSE f[n]]

(* Second loop: the next two nodes get a parent, at its place in the order.  *)
Build ==
    /\ pc = "build" /\ j < T
    /\ LET f == tree.freq[i] + tree.freq[i + 1]
       IN  tree' = [tree EXCEPT !.freq = Inserted(@, Place(f), f),
                                !.son  = Inserted(@, Place(f), i)]
    /\ i' = i + 2 /\ j' = j + 1
    /\ UNCHANGED <<pc, c, sent, heard>>

(* Third loop, and the rest of update() up to its own.                       *)
ParentOf(x) == CHOOSE n \in Node : x \in {tree.son[n], Right(tree.son[n])}

Connect ==
    /\ pc = "build" /\ j = T
    /\ tree' = [tree EXCEPT !.prnt =
                 [x \in DOMAIN @ |-> IF x = R THEN @[R] ELSE ParentOf(x)]]
    /\ pc' = "climb"
    /\ c' = tree'.prnt[Leaf(sent[2])]
    /\ UNCHANGED <<i, j, sent, heard>>

-------------------------------------------------------------------------------
(* Mutant: only the next node is looked at.                                  *)
Last_Next(t, n) == IF t.freq[n + 1] <= t.freq[n] THEN n + 1 ELSE n

(* One pass of update()'s loop: node n is counted and changes places with    *)
(* the last of the nodes it has overtaken.                                   *)
Last(t, n) == CHOOSE l \in n..R : /\ \A m \in n + 1..l : t.freq[m] <= t.freq[n]
                                  /\ t.freq[n] < t.freq[l + 1]

Counted(t, n) ==
    LET l == Last(t, n)
    IN  [freq |-> [t.freq EXCEPT ![n] = t.freq[l], ![l] = t.freq[n] + 1],
         son  |-> [t.son EXCEPT ![n] = t.son[l], ![l] = t.son[n]],
         prnt |-> [t.prnt EXCEPT ![t.son[n]] = l, ![Right(t.son[n])] = l,
                                 ![t.son[l]] = n, ![Right(t.son[l])] = n]]

Climb ==
    /\ pc = "climb"
    /\ tree' = Counted(tree, c)
    /\ c' = tree'.prnt[Last(tree, c)]
    /\ pc' = IF c' = 0 THEN "idle" ELSE "climb"
    /\ UNCHANGED <<i, j, sent, heard>>

-------------------------------------------------------------------------------
(* The tables for the upper six bits of a position: the length and the value *)
(* of the code of h (p_len, p_code), and back (d_code, d_len).               *)
PLen(h) == CASE h = 0 -> 3 [] h \in 1..3 -> 4 [] h \in 4..11 -> 5
             [] h \in 12..23 -> 6 [] h \in 24..47 -> 7 [] h \in 48..63 -> 8

PCode(h) == CASE h = 0 -> 0 [] h \in 1..3 -> 32 + 16 * (h - 1)
              [] h \in 4..11 -> 80 + 8 * (h - 4) [] h \in 12..23 -> 144 + 4 * (h - 12)
              [] h \in 24..47 -> 192 + 2 * (h - 24) [] h \in 48..63 -> 192 + h

DCode(b) == CASE b < 32 -> 0 [] b \in 32..79 -> (b - 16) \div 16
              [] b \in 80..143 -> (b - 48) \div 8 [] b \in 144..191 -> (b - 96) \div 4
              [] b \in 192..239 -> (b - 144) \div 2 [] b >= 240 -> b - 192

DLen(b) == CASE b < 32 -> 3 [] b \in 32..79 -> 4 [] b \in 80..143 -> 5
             [] b \in 144..191 -> 6 [] b \in 192..239 -> 7 [] b >= 240 -> 8

(* EncodePosition(): PLen bits of the code and the lower six bits, as one    *)
(* number; DecodePosition() reads eight bits of it and DLen - 2 more.        *)
PositionBits(p) == PLen(p \div 64) + 6
PositionCode(p) ==
    (PCode(p \div 64) \div 2^(8 - PLen(p \div 64))) * 64 + (p % 64)

DecodePosition(v, len) ==
    LET first == v \div 2^(len - 8)
        more  == DLen(first) - 2
        read  == IF 8 + more <= len THEN v \div 2^(len - 8 - more)
                                    ELSE v * 2^(8 + more - len)
    IN  DCode(first) * 64 + (read % 64)

EncodePosition(p) ==
    /\ pc = "idle"
    /\ IsMatch
    /\ sent'  = <<"position", p>>
    /\ heard' = <<"position", DecodePosition(PositionCode(p), PositionBits(p))>>
    /\ UNCHANGED <<tree, pc, i, j, c>>

-------------------------------------------------------------------------------
Update == CollectLeaf \/ CollectNode \/ CollectEnds \/ Build \/ Connect \/ Climb

Next ==
    \/ \E x \in Code : EncodeChar(x)
    \/ CollectLeaf \/ CollectNode \/ CollectEnds
    \/ Build \/ Connect
    \/ Climb
    \/ \E p \in Positions : EncodePosition(p)

(* update() is a loop in one thread: once called it runs.                    *)
Spec == Init /\ [][Next]_vars /\ WF_vars(Update)

-------------------------------------------------------------------------------
(* Type invariant: the arrays, the loops' counters and what went over.       *)
TypeOK ==
    /\ tree \in [freq : [0..T -> Nat],
                 son  : [Node -> 0..T + NChar - 1],
                 prnt : [0..T + NChar - 1 -> Node]]
    /\ pc \in {"idle", "collect", "build", "climb"}
    /\ i \in 0..T /\ j \in 0..T /\ c \in Node
    /\ sent  \in {"none", "char", "position"} \X (Code \cup 0..4095)
    /\ heard \in {"none", "char", "position"} \X (Code \cup 0..4095 \cup {-1})

(* The tree is whole except inside reconst().                                *)
Whole == pc \in {"idle", "climb"}

(* The nodes are in order of frequency.                                      *)
Ordered == \A n \in 0..R - 1 : tree.freq[n] <= tree.freq[n + 1]

(* A node has been seen as often as its sons; while update() climbs, the one *)
(* it has arrived at has not been counted yet.                               *)
Summed ==
    \A n \in Node : tree.son[n] < T =>
        tree.freq[n] + (IF pc = "climb" /\ n = c THEN 1 ELSE 0)
            = tree.freq[tree.son[n]] + tree.freq[tree.son[n] + 1]

(* Parents and sons agree, and sons stand to the left of their parent.       *)
Linked ==
    /\ \A n \in Node : /\ tree.prnt[tree.son[n]] = n
                       /\ tree.prnt[Right(tree.son[n])] = n
                       /\ tree.son[n] < T => tree.son[n] + 1 < n
    /\ \A x \in DOMAIN tree.prnt \ {R} :
           x \in {tree.son[tree.prnt[x]], Right(tree.son[tree.prnt[x]])}

(* The tree is a Huffman tree of the counts, with all codes in it: every     *)
(* walk up ends at the root, every walk down at a leaf.  update() keeps this *)
(* by exchanging two nodes, reconst() builds it again from halved counts.    *)
SiblingProperty == Whole => Ordered /\ Summed /\ Linked

(* update() tests MAX_FREQ with ==: no count steps over it, and after        *)
(* reconst() none is 0.                                                      *)
CountsBounded == Whole => \A n \in Node : tree.freq[n] \in 1..MaxFreq

(* What DecodeChar() and DecodePosition() read is what EncodeChar() and      *)
(* EncodePosition() wrote.                                                   *)
RoundTrip == heard = sent

(* A code of d bits needs a root counted as often as Fibonacci number d + 2: *)
(* EncodeChar()'s register is wide enough if number CodeWidth + 3 is more    *)
(* than MaxFreq.                                                             *)
Fib[n \in Nat] == IF n < 2 THEN n ELSE Fib[n - 1] + Fib[n - 2]
ShortCodes == pc = "idle" => \A x \in Code : Fib[Len(Bits(x)) + 2] <= tree.freq[R]

(* update() comes to its end: no loop of it or of reconst() hangs.           *)
UpdateEnds == pc # "idle" ~> pc = "idle"
===============================================================================
