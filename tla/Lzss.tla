--------------------------------- MODULE Lzss ---------------------------------
(***************************************************************************)
(* The dictionary half of src/lzhuf_1.c: Encode() with the search trees of  *)
(* InsertNode() and DeleteNode(), and Decode() reading what it writes.  The *)
(* coder between them is Huffman.tla; here a literal or a match goes over   *)
(* whole.                                                                   *)
(*                                                                         *)
(* text_buf is a ring of N bytes: s is where the next byte of the input     *)
(* goes, r where the bytes not yet coded begin.  Its first F - 1 bytes are  *)
(* repeated behind it, so that F bytes can be compared from any place.      *)
(* There is a tree of the places with the same first byte c, its root at    *)
(* N + 1 + c.                                                               *)
(***************************************************************************)
EXTENDS Integers, Sequences, FiniteSetsExt

CONSTANTS
    N,          \* size of the ring
    F,          \* longest match
    Threshold,  \* a match is longer than this
    Byte,       \* the bytes; 0 stands for the blank the ring is filled with
    MaxText     \* bound: length of the input

ASSUME RingAssumption ==
    /\ N \in Nat /\ F \in 2..N \div 2
    /\ Threshold \in 1..F - 1
    /\ Byte \subseteq Nat /\ 0 \in Byte /\ IsFiniteSet(Byte)
    /\ MaxText \in Nat

NIL == N
Root(b) == N + 1 + b
Place == 0..N - 1
Roots == {Root(b) : b \in Byte}
Distance(from, to) == (to - from) % N

VARIABLES
    text,         \* the input
    pc,           \* "start", "blanks", "code", "advance" or "done"
    read,         \* how many bytes of it have been read
    text_buf,     \* the encoder's ring
    tree,         \* the arrays lson, rson and dad
    s, r, len,    \* len bytes from r on are still to be coded
    match_length, match_position,   \* what InsertNode(r) found
    last, i,      \* last_match_length, and how far the ring has advanced of it
    ring, at,     \* the decoder's text_buf and r
    decoded       \* what it has put out

decoder == <<ring, at, decoded>>
vars == <<text, pc, read, text_buf, tree, s, r, len,
          match_length, match_position, last, i, decoder>>

-------------------------------------------------------------------------------
(* How many bytes from p and q on are the same, up to F; the first are.      *)
Common(buf, p, q) ==
    LET Same(n) == \A k \in 1..n - 1 : buf[p + k] = buf[q + k]
    IN  CHOOSE n \in 1..F : Same(n) /\ (n = F \/ ~Same(n + 1))

(* The son of p on the way to q's place: right from a root and where q's     *)
(* bytes are the greater.                                                    *)
GoesRight(buf, q, p) ==
    p > N \/ LET n == Common(buf, p, q) IN n = F \/ buf[q + n] > buf[p + n]

Son(buf, t, q, p) == IF GoesRight(buf, q, p) THEN t.rson[p] ELSE t.lson[p]

(* The search stops at a missing son, or at a place with the same F bytes.   *)
Stops(buf, t, q, p) ==
    Son(buf, t, q, p) = NIL \/ (p < N /\ Common(buf, p, q) = F)

(* The places in the trees.                                                  *)
InTrees(t) == {p \in Place : t.dad[p] # NIL}

(* The places InsertNode(q) compares with, from the root to where it stops.  *)
Path(buf, t, q) ==
    LET From[p \in Roots \cup InTrees(t)] ==
          IF Stops(buf, t, q, p) THEN <<p>> ELSE <<p>> \o From[Son(buf, t, q, p)]
    IN  From[Root(buf[q])]

Visited(buf, t, q) ==
    LET path == Path(buf, t, q) IN {path[k] : k \in 2..Len(path)}

Longest(S, buf, q) == Max({0} \cup {Common(buf, p, q) : p \in S})
Nearest(S, buf, q, n) == Min({Distance(p, q) : p \in {p \in S : Common(buf, p, q) = n}})

(* InsertNode(q): q becomes a leaf, or takes the place of the node with the  *)
(* same bytes.                                                               *)
Insert(buf, t, q) ==
    LET path == Path(buf, t, q)
        p    == path[Len(path)]
        leaf == [t EXCEPT !.lson[q] = NIL, !.rson[q] = NIL, !.dad[q] = p]
        up   == t.dad[p]
    IN  IF p > N \/ Common(buf, p, q) < F
        THEN IF GoesRight(buf, q, p) THEN [leaf EXCEPT !.rson[p] = q]
                                     ELSE [leaf EXCEPT !.lson[p] = q]
        ELSE LET moved == [t EXCEPT !.lson[q] = t.lson[p], !.rson[q] = t.rson[p],
                                    !.dad[q] = up, !.dad[t.lson[p]] = q,
                                    !.dad[t.rson[p]] = q, !.dad[p] = NIL]
             IN  IF moved.rson[up] = p THEN [moved EXCEPT !.rson[up] = q]
                                       ELSE [moved EXCEPT !.lson[up] = q]

(* DeleteNode(p): its place goes to its only son, or to the greatest place   *)
(* on its left.                                                              *)
Replaced(t, p, q) ==
    LET up == t.dad[p]
        u  == [t EXCEPT !.dad[q] = up, !.dad[p] = NIL]
    IN  IF t.rson[up] = p THEN [u EXCEPT !.rson[up] = q]
                          ELSE [u EXCEPT !.lson[up] = q]

Greatest(t, p) ==
    LET Down[q \in InTrees(t)] == IF t.rson[q] = NIL THEN q ELSE Down[t.rson[q]]
    IN  Down[p]

(* Mutant: with two sons, the left one takes the place and the right is lost. *)
Delete_LosesRight(t, p) ==
    IF t.dad[p] = NIL THEN t
    ELSE IF t.lson[p] = NIL THEN Replaced(t, p, t.rson[p])
    ELSE Replaced(t, p, t.lson[p])

Delete(t, p) ==
    IF t.dad[p] = NIL THEN t
    ELSE IF t.rson[p] = NIL THEN Replaced(t, p, t.lson[p])
    ELSE IF t.lson[p] = NIL THEN Replaced(t, p, t.rson[p])
    ELSE LET q == Greatest(t, t.lson[p])
             u == IF q = t.lson[p] THEN t
                  ELSE [t EXCEPT !.rson[t.dad[q]] = t.lson[q],
                                 !.dad[t.lson[q]] = t.dad[q],
                                 !.lson[q] = t.lson[p], !.dad[t.lson[p]] = q]
             v == [u EXCEPT !.rson[q] = t.rson[p], !.dad[t.rson[p]] = q]
         IN  Replaced(v, p, q)
-------------------------------------------------------------------------------
(* Mutants: the distance counts from one; the last place compared with is    *)
(* taken for the longest match.                                              *)
InsertNode_OffByOne(buf, t, q) ==
    LET seen == Visited(buf, t, q)
        n    == Longest(seen, buf, q)
    IN  /\ tree' = Insert(buf, t, q)
        /\ IF n > Threshold
           THEN match_length' = n /\ match_position' = Nearest(seen, buf, q, n)
           ELSE match_length' = 0 /\ UNCHANGED match_position

InsertNode_Latest(buf, t, q) ==
    LET path == Path(buf, t, q)
        p    == path[Len(path)]
    IN  /\ tree' = Insert(buf, t, q)
        /\ IF p < N /\ Common(buf, p, q) > Threshold
           THEN match_length' = Common(buf, p, q) /\ match_position' = Distance(p, q) - 1
           ELSE match_length' = 0 /\ UNCHANGED match_position

(* InsertNode(q), and what it reports: the longest match among the places it *)
(* has compared with, the nearest of those that long.                        *)
InsertNode(buf, t, q) ==
    LET seen == Visited(buf, t, q)
        n    == Longest(seen, buf, q)
    IN  /\ tree' = Insert(buf, t, q)
        /\ IF n > Threshold
           THEN match_length' = n /\ match_position' = Nearest(seen, buf, q, n) - 1
           ELSE match_length' = 0 /\ UNCHANGED match_position

NoTree == [lson |-> [p \in 0..N |-> NIL],
           rson |-> [p \in 0..N \cup Roots |-> NIL],
           dad  |-> [p \in 0..N |-> NIL]]

(* text_buf is static: before it is written it holds what an earlier message *)
(* has left there (bound: the same byte throughout).  The decoder's is never *)
(* read before it is written, which -1 would show.                           *)
Init ==
    /\ text \in UNION {[1..n -> Byte] : n \in 0..MaxText}
    /\ \E old \in Byte : text_buf = [p \in 0..N + F - 2 |-> IF p < N - F THEN 0 ELSE old]
    /\ pc = "start"
    /\ read = 0 /\ len = 0
    /\ tree = NoTree
    /\ s = 0 /\ r = N - F
    /\ match_length = 0 /\ match_position = 0
    /\ last = 0 /\ i = 0
    /\ ring = [p \in Place |-> IF p < N - F THEN 0 ELSE -1]
    /\ at = N - F
    /\ decoded = <<>>

(* Encode() of an empty input.                                               *)
Empty ==
    /\ pc = "start" /\ text = <<>>
    /\ pc' = "done"
    /\ UNCHANGED <<text, read, text_buf, tree, s, r, len,
                   match_length, match_position, last, i, decoder>>

(* Encode() up to its loop: the first bytes are read, then the F places       *)
(* before them and r itself are inserted.                                    *)
Start ==
    /\ pc = "start" /\ text # <<>>
    /\ read' = Min({F, Len(text)})
    /\ len' = read'
    /\ text_buf' = [p \in DOMAIN text_buf |->
                      IF p \in r..r + len' - 1 THEN text[p - r + 1] ELSE text_buf[p]]
    /\ i' = 1
    /\ pc' = "blanks"
    /\ UNCHANGED <<text, tree, s, r, match_length, match_position, last, decoder>>

InsertBlank ==
    /\ pc = "blanks" /\ i <= F
    /\ InsertNode(text_buf, tree, r - i)
    /\ i' = i + 1
    /\ UNCHANGED <<text, pc, read, text_buf, s, r, len, last, decoder>>

InsertFirst ==
    /\ pc = "blanks" /\ i = F + 1
    /\ InsertNode(text_buf, tree, r)
    /\ pc' = "code"
    /\ UNCHANGED <<text, read, text_buf, s, r, len, last, i, decoder>>

-------------------------------------------------------------------------------
(* A literal, and Decode() taking it.                                        *)
Literal ==
    /\ pc = "code"
    /\ Min({match_length, len}) <= Threshold
    /\ last' = 1
    /\ decoded' = Append(decoded, text_buf[r])
    /\ ring' = [ring EXCEPT ![at] = text_buf[r]]
    /\ at' = (at + 1) % N
    /\ i' = 0
    /\ pc' = "advance"
    /\ UNCHANGED <<text, read, text_buf, tree, s, r, len, match_length, match_position>>

(* Mutant: a match may reach past the end of the input.                      *)
Match_PastEnd ==
    /\ pc = "code"
    /\ LET n    == match_length
           from == at - match_position - 1
           Copied[k \in 0..n] ==
             IF k = 0 THEN ring
             ELSE [Copied[k - 1] EXCEPT ![(at + k - 1) % N] =
                                   Copied[k - 1][(from + k - 1) % N]]
       IN  /\ Min({n, len}) > Threshold
           /\ last' = n
           /\ ring' = Copied[n]
           /\ decoded' = decoded \o [k \in 1..n |-> Copied[n][(at + k - 1) % N]]
           /\ at' = (at + n) % N
    /\ i' = 0
    /\ pc' = "advance"
    /\ UNCHANGED <<text, read, text_buf, tree, s, r, len, match_length, match_position>>

(* A match, and Decode() copying it byte by byte: a byte it has just copied  *)
(* may be the next one it copies from.                                       *)
Match ==
    /\ pc = "code"
    /\ LET n    == Min({match_length, len})
           from == at - match_position - 1
           Copied[k \in 0..n] ==
             IF k = 0 THEN ring
             ELSE [Copied[k - 1] EXCEPT ![(at + k - 1) % N] =
                                   Copied[k - 1][(from + k - 1) % N]]
       IN  /\ n > Threshold
           /\ last' = n
           /\ ring' = Copied[n]
           /\ decoded' = decoded \o [k \in 1..n |-> Copied[n][(at + k - 1) % N]]
           /\ at' = (at + n) % N
    /\ i' = 0
    /\ pc' = "advance"
    /\ UNCHANGED <<text, read, text_buf, tree, s, r, len, match_length, match_position>>

-------------------------------------------------------------------------------
(* The loops that advance the ring past what has been coded.                 *)
Advance ==
    /\ pc = "advance"
    /\ s' = (s + 1) % N
    /\ r' = (r + 1) % N
    /\ i' = i + 1
    /\ pc' = IF i' < last THEN "advance" ELSE IF len' > 0 THEN "code" ELSE "done"
    /\ UNCHANGED <<text, last, decoder>>

(* Mutant: the place that is overwritten stays in the tree.                  *)
ReadByte_Keeps ==
    /\ read < Len(text)
    /\ LET b == text[read + 1]
       IN  text_buf' = [p \in DOMAIN text_buf |->
                          IF p = s \/ (s < F - 1 /\ p = s + N) THEN b ELSE text_buf[p]]
    /\ read' = read + 1
    /\ UNCHANGED len
    /\ Advance
    /\ InsertNode(text_buf', tree, r')

ReadByte ==
    /\ read < Len(text)
    /\ LET b == text[read + 1]
       IN  text_buf' = [p \in DOMAIN text_buf |->
                          IF p = s \/ (s < F - 1 /\ p = s + N) THEN b ELSE text_buf[p]]
    /\ read' = read + 1
    /\ UNCHANGED len
    /\ Advance
    /\ InsertNode(text_buf', Delete(tree, s), r')

Drain ==
    /\ read = Len(text)
    /\ len' = len - 1
    /\ UNCHANGED <<read, text_buf>>
    /\ Advance
    /\ IF len' > 0 THEN InsertNode(text_buf, Delete(tree, s), r')
       ELSE tree' = Delete(tree, s) /\ UNCHANGED <<match_length, match_position>>

Next == Empty \/ Start \/ InsertBlank \/ InsertFirst \/ Literal \/ Match \/ ReadByte \/ Drain

(* Encode() and Decode() are loops of one thread.                            *)
Spec == Init /\ [][Next]_vars /\ WF_vars(Next)

-------------------------------------------------------------------------------
(* Type invariant: no counter leaves the ring or the input.                  *)
TypeOK ==
    /\ pc \in {"start", "blanks", "code", "advance", "done"}
    /\ read \in 0..Len(text) /\ len \in 0..F
    /\ text_buf \in [0..N + F - 2 -> Byte]
    /\ tree \in [lson : [0..N -> 0..N], rson : [0..N \cup Roots -> 0..N],
                 dad : [0..N -> 0..N \cup Roots]]
    /\ s \in Place /\ r \in Place /\ at \in Place
    /\ match_length \in 0..F /\ match_position \in 0..N - 1
    /\ last \in 0..F /\ i \in 0..F + 1
    /\ ring \in [Place -> Byte \cup {-1}]

Registered == InTrees(tree)

(* A place is deleted before its bytes are overwritten: none in the trees    *)
(* lies in the part of the ring that holds the bytes to come.                *)
InWindow == pc = "code" => \A p \in Registered : Distance(p, r) <= N - F

(* A search for the bytes of a place that is in the trees ends there.        *)
Findable ==
    \A p \in Registered :
        LET path == Path(text_buf, tree, p) IN path[Len(path)] = p

(* The match InsertNode(r) reports is there, and its path through the tree   *)
(* has not missed a longer one.                                              *)
LongestMatch ==
    pc = "code" =>
        /\ match_length > 0 =>
             Common(text_buf, (r - match_position - 1) % N, r) = match_length
        /\ \A p \in Registered \ {r} : text_buf[p] = text_buf[r] =>
             Common(text_buf, p, r) <= Max({Threshold, match_length})

(* What has been decoded is what has been coded of the input.                *)
RoundTrip ==
    /\ decoded = SubSeq(text, 1, Len(decoded))
    /\ pc = "code" => Len(decoded) = read - len
    /\ pc = "done" => decoded = text

(* Every input is coded to its end.                                          *)
Finishes == <>(pc = "done" /\ decoded = text)
===============================================================================
