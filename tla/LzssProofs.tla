------------------------------- MODULE LzssProofs -------------------------------
(***************************************************************************)
(* Encode() and Decode() of lzhuf_1.c give the text back, for any text, ring *)
(* and longest match; the search trees that InsertNode() and DeleteNode()    *)
(* keep in the ring hold the places of the window, in the order of their     *)
(* bytes, and their search finds a longest match.                            *)
(***************************************************************************)
EXTENDS Lzss, SequenceTheorems, WellFoundedInduction, TLAPS

(* What RingAssumption says of the sizes.                                    *)
LEMMA Sizes ==
    /\ N \in Nat /\ F \in Nat /\ Threshold \in Nat /\ 2 =< F /\ 2 * F =< N
    /\ 1 =< Threshold /\ Threshold < F
    /\ Byte \subseteq Nat /\ 0 \in Byte
    /\ Place = 0 .. N - 1 /\ NIL = N
    /\ \A b \in Byte : Root(b) = N + 1 + b /\ Root(b) > N
    /\ \A u \in Roots : u \in Nat /\ u > N
  BY RingAssumption DEF Place, NIL, Root, Roots

(* A set of numbers has a smallest one: what induction comes down to here.   *)
LEMMA Smallest ==
    ASSUME NEW S \in SUBSET Nat, S # {}
    PROVE  \E n \in S : \A k \in S : n =< k
  <1>1. PICK n \in S : \A k \in S : ~(<<k, n>> \in OpToRel(<, Nat))
    BY NatLessThanWellFounded, WFMin
  <1>2. \A k \in S : ~ (k < n)
    BY <1>1 DEF OpToRel
  <1>3. QED
    BY <1>2

(* The ring's indices, and what lies behind it.                              *)
Index  == 0 .. N + F - 2
Buffer == [Index -> Byte]

-------------------------------------------------------------------------------
(* The order of two places by their bytes.                                   *)

(* n is how many bytes from p and q on are the same.                         *)
Agrees(buf, p, q, n) ==
    /\ n \in 1 .. F
    /\ \A k \in 1 .. n - 1 : buf[p + k] = buf[q + k]
    /\ n = F \/ buf[p + n] # buf[q + n]

(* InsertNode()'s loop over the bytes finds it.                              *)
LEMMA CommonIs ==
    ASSUME NEW buf, NEW p, NEW q
    PROVE  Agrees(buf, p, q, Common(buf, p, q))
  <1> DEFINE S == {n \in 1 .. F : n = F \/ buf[p + n] # buf[q + n]}
             Same(n) == \A k \in 1 .. n - 1 : buf[p + k] = buf[q + k]
  <1>1. F \in Nat /\ F >= 1
    BY Sizes
  <1>2. S \in SUBSET Nat /\ F \in S
    BY <1>1
  <1> HIDE DEF S
  <1>3. PICK n \in S : \A k \in S : n =< k
    <2>1. S # {}
      BY <1>2
    <2>2. QED
      BY <1>2, <2>1, Smallest
  <1>4. n \in 1 .. F /\ (n = F \/ buf[p + n] # buf[q + n])
    BY <1>3 DEF S
  <1>5. ASSUME NEW k \in 1 .. n - 1 PROVE buf[p + k] = buf[q + k]
    <2>1. k \in 1 .. F /\ ~ (n =< k)
      BY <1>1, <1>4
    <2>2. k \notin S
      BY <1>3, <2>1
    <2>3. QED
      BY <2>1, <2>2 DEF S
  <1>6. Same(n)
    BY <1>5
  <1>7. n = F \/ ~ Same(n + 1)
    <2>1. n \in 1 .. (n + 1) - 1
      BY <1>1, <1>4
    <2>2. QED
      BY <1>4, <2>1
  <1>8. \E m \in 1 .. F : Same(m) /\ (m = F \/ ~ Same(m + 1))
    BY <1>4, <1>6, <1>7
  <1> DEFINE c == Common(buf, p, q)
  <1>9. c \in 1 .. F /\ Same(c) /\ (c = F \/ ~ Same(c + 1))
    BY <1>8 DEF Common
  <1> HIDE DEF c
  <1>10. c = F \/ buf[p + c] # buf[q + c]
    <2> SUFFICES ASSUME c # F, buf[p + c] = buf[q + c] PROVE Same(c + 1)
      BY <1>9
    <2> TAKE k \in 1 .. (c + 1) - 1
    <2>1. k = c \/ k \in 1 .. c - 1
      BY <1>1, <1>9
    <2>2. QED
      BY <1>9, <2>1
  <1>11. QED
    BY <1>9, <1>10 DEF Agrees, c

(* There is one such number.                                                 *)
LEMMA OneCommon ==
    ASSUME NEW buf, NEW p, NEW q, NEW n, Agrees(buf, p, q, n)
    PROVE  Common(buf, p, q) = n /\ Common(buf, q, p) = n
  <1>1. ASSUME NEW m, Agrees(buf, p, q, m) PROVE m = n
    <2>1. F \in Nat /\ m \in 1 .. F /\ n \in 1 .. F
      BY <1>1, Sizes DEF Agrees
    <2>2. CASE m < n
      <3>1. m \in 1 .. n - 1 /\ m # F
        BY <2>1, <2>2
      <3>2. QED
        BY <1>1, <3>1 DEF Agrees
    <2>3. CASE n < m
      <3>1. n \in 1 .. m - 1 /\ n # F
        BY <2>1, <2>3
      <3>2. QED
        BY <1>1, <3>1 DEF Agrees
    <2>4. QED
      BY <2>1, <2>2, <2>3
  <1>2. Agrees(buf, p, q, Common(buf, q, p))
    BY CommonIs DEF Agrees
  <1>3. QED
    BY <1>1, <1>2, CommonIs

Less(buf, x, y) ==
    LET n == Common(buf, x, y) IN n < F /\ buf[x + n] < buf[y + n]

(* Bytes are numbers.                                                        *)
LEMMA ByteAt ==
    ASSUME NEW buf \in Buffer, NEW p \in Place, NEW k \in 0 .. F, k < F
    PROVE  p + k \in Index /\ buf[p + k] \in Nat
  <1>1. p + k \in Index
    BY Sizes DEF Index
  <1>2. QED
    BY <1>1, Sizes DEF Buffer

(* Where the bytes of two places first differ, they say which is less.       *)
LEMMA LessAt ==
    ASSUME NEW buf, NEW x, NEW y, NEW n \in 1 .. F - 1,
           \A k \in 1 .. n - 1 : buf[x + k] = buf[y + k],
           buf[x + n] \in Nat, buf[y + n] \in Nat, buf[x + n] < buf[y + n]
    PROVE  Common(buf, x, y) = n /\ Less(buf, x, y)
  <1>1. n \in 1 .. F /\ n < F
    BY Sizes
  <1>2. Agrees(buf, x, y, n)
    BY <1>1 DEF Agrees
  <1>3. Common(buf, x, y) = n
    BY <1>2, OneCommon
  <1>4. QED
    BY <1>1, <1>3 DEF Less

(* Of two places one is less, unless they have the same F bytes.             *)
LEMMA OneIsLess ==
    ASSUME NEW buf \in Buffer, NEW x \in Place, NEW y \in Place
    PROVE  /\ Common(buf, x, y) \in 1 .. F
           /\ Common(buf, x, y) = Common(buf, y, x)
           /\ Common(buf, x, y) = F \/ Less(buf, x, y) \/ Less(buf, y, x)
           /\ ~ (Less(buf, x, y) /\ Less(buf, y, x))
           /\ Less(buf, x, y) => Common(buf, x, y) < F
           /\ ~ Less(buf, x, x)
  <1> DEFINE n == Common(buf, x, y)
  <1>1. Agrees(buf, x, y, n)
    BY CommonIs
  <1> HIDE DEF n
  <1>2. n = Common(buf, x, y) /\ n = Common(buf, y, x)
    BY <1>1, OneCommon
  <1>3. F \in Nat /\ n \in 1 .. F
    BY <1>1, Sizes DEF Agrees
  <1>4. ~ Less(buf, x, x)
    <2> DEFINE m == Common(buf, x, x)
    <2>1. Agrees(buf, x, x, m)
      BY CommonIs
    <2>2. m = F
      BY <2>1 DEF Agrees
    <2>3. QED
      BY <1>3, <2>2 DEF Less
  <1>5. CASE n = F
    BY <1>2, <1>3, <1>4, <1>5 DEF Less
  <1>6. CASE n # F
    <2>1. n \in 0 .. F /\ n < F
      BY <1>3, <1>6
    <2>2. buf[x + n] \in Nat /\ buf[y + n] \in Nat
      BY <2>1, ByteAt
    <2>3. buf[x + n] # buf[y + n]
      BY <1>1, <1>6 DEF Agrees
    <2>4. x # y
      BY <2>3
    <2>5. (Less(buf, x, y) <=> buf[x + n] < buf[y + n])
          /\ (Less(buf, y, x) <=> buf[y + n] < buf[x + n])
      BY <1>2, <2>1 DEF Less
    <2>6. QED
      BY <1>2, <1>3, <1>4, <2>1, <2>2, <2>3, <2>5
  <1>7. QED
    BY <1>5, <1>6

(* The order is one: what lies between two places agrees with each for as    *)
(* long as they agree.                                                       *)
LEMMA LessThrough ==
    ASSUME NEW buf \in Buffer, NEW x \in Place, NEW y \in Place, NEW z \in Place,
           Less(buf, x, y), Less(buf, y, z)
    PROVE  /\ Less(buf, x, z)
           /\ Common(buf, x, z) =< Common(buf, x, y)
           /\ Common(buf, x, z) =< Common(buf, y, z)
  <1> DEFINE m == Common(buf, x, y)
             n == Common(buf, y, z)
             k == IF m < n THEN m ELSE n
  <1>1. Agrees(buf, x, y, m) /\ Agrees(buf, y, z, n)
    BY CommonIs
  <1>2. F \in Nat /\ m \in 1 .. F - 1 /\ n \in 1 .. F - 1
        /\ buf[x + m] < buf[y + m] /\ buf[y + n] < buf[z + n]
    <2>1. m \in 1 .. F /\ n \in 1 .. F /\ F \in Nat
      BY <1>1, Sizes DEF Agrees
    <2>2. QED
      BY <2>1 DEF Less
  <1>3. (\A j \in 1 .. m - 1 : buf[x + j] = buf[y + j])
        /\ (\A j \in 1 .. n - 1 : buf[y + j] = buf[z + j])
    BY <1>1 DEF Agrees
  <1>4. \A j \in 1 .. F - 1 : buf[x + j] \in Nat /\ buf[y + j] \in Nat /\ buf[z + j] \in Nat
    <2> TAKE j \in 1 .. F - 1
    <2>1. j \in 0 .. F /\ j < F
      BY Sizes
    <2>2. QED
      BY <2>1, ByteAt
  <1> HIDE DEF m, n
  <1>5. k \in 1 .. F - 1 /\ k =< m /\ k =< n
    BY <1>2
  <1>6. \A j \in 1 .. k - 1 : buf[x + j] = buf[z + j]
    BY <1>2, <1>3, <1>5
  <1>7. buf[x + k] < buf[z + k]
    <2>1. CASE m < n
      <3>1. k = m /\ m \in 1 .. n - 1
        BY <1>2, <2>1
      <3>2. QED
        BY <1>2, <1>3, <3>1
    <2>2. CASE n < m
      <3>1. k = n /\ n \in 1 .. m - 1
        BY <1>2, <2>2
      <3>2. QED
        BY <1>2, <1>3, <3>1
    <2>3. CASE n = m
      <3>1. k = n /\ k = m
        BY <2>3
      <3>2. QED
        BY <1>2, <1>4, <1>5, <3>1
    <2>4. QED
      BY <1>2, <2>1, <2>2, <2>3
  <1>8. buf[x + k] \in Nat /\ buf[z + k] \in Nat
    BY <1>4, <1>5
  <1> HIDE DEF k
  <1>9. Common(buf, x, z) = k /\ Less(buf, x, z)
    BY <1>5, <1>6, <1>7, <1>8, LessAt
  <1>10. QED
    BY <1>5, <1>9 DEF m, n

(* A place with the same F bytes is at the same place in the order.          *)
LEMMA SameLess ==
    ASSUME NEW buf \in Buffer, NEW x \in Place, NEW y \in Place, NEW z \in Place,
           Common(buf, x, y) = F
    PROVE  /\ Common(buf, x, z) = Common(buf, y, z)
           /\ Less(buf, x, z) <=> Less(buf, y, z)
           /\ Less(buf, z, x) <=> Less(buf, z, y)
  <1> DEFINE n == Common(buf, y, z)
  <1>1. Agrees(buf, x, y, F) /\ Agrees(buf, y, z, n) /\ Agrees(buf, z, y, Common(buf, z, y))
    BY CommonIs
  <1>2. F \in Nat /\ n \in 1 .. F /\ Common(buf, z, y) = n
    BY <1>1, Sizes, OneIsLess DEF Agrees
  <1>3. \A k \in 1 .. F - 1 : buf[x + k] = buf[y + k]
    BY <1>1 DEF Agrees
  <1> HIDE DEF n
  <1>4. n = F \/ n \in 1 .. F - 1
    BY <1>2
  <1>5. Agrees(buf, x, z, n)
    BY <1>1, <1>2, <1>3, <1>4 DEF Agrees
  <1>6. Common(buf, x, z) = n /\ Common(buf, z, x) = n
    BY <1>5, OneCommon
  <1>7. QED
    BY <1>2, <1>3, <1>4, <1>6 DEF Less, n

(* The search for q goes on among the greater ones if q is greater.          *)
LEMMA GoesByOrder ==
    ASSUME NEW buf \in Buffer, NEW q \in Place, NEW p \in Place
    PROVE  /\ GoesRight(buf, q, p) => Common(buf, p, q) = F \/ Less(buf, p, q)
           /\ ~ GoesRight(buf, q, p) => Less(buf, q, p)
  <1> DEFINE n == Common(buf, p, q)
  <1>1. ~ (p > N)
    BY Sizes
  <1>2. /\ n \in 1 .. F /\ Common(buf, q, p) = n
        /\ n = F \/ Less(buf, p, q) \/ Less(buf, q, p)
    BY OneIsLess
  <1>3. F \in Nat
    BY Sizes
  <1>4. CASE n = F
    BY <1>1, <1>4 DEF GoesRight
  <1>5. CASE n # F
    <2>1. n \in 0 .. F /\ n < F
      BY <1>2, <1>3, <1>5
    <2>2. buf[p + n] \in Nat /\ buf[q + n] \in Nat
      BY <2>1, ByteAt
    <2>3. GoesRight(buf, q, p) <=> buf[q + n] > buf[p + n]
      BY <1>1, <1>5 DEF GoesRight
    <2>4. (Less(buf, p, q) <=> buf[p + n] < buf[q + n])
          /\ (Less(buf, q, p) <=> buf[q + n] < buf[p + n])
      BY <1>2, <2>1 DEF Less
    <2>5. QED
      BY <1>2, <1>5, <2>2, <2>3, <2>4
  <1>6. QED
    BY <1>4, <1>5

(* From a root it goes right.                                                *)
LEMMA RootsGoRight ==
    ASSUME NEW buf, NEW q, NEW p \in Roots
    PROVE  GoesRight(buf, q, p) /\ p \notin Place /\ ~ (p < N) /\ p # NIL
  BY Sizes DEF GoesRight

(* Bytes that are the same compare the same.                                 *)
LEMMA SameBytes ==
    ASSUME NEW b1, NEW b2, NEW x, NEW y,
           \A k \in 0 .. F - 1 : b1[x + k] = b2[x + k] /\ b1[y + k] = b2[y + k]
    PROVE  /\ Common(b1, x, y) = Common(b2, x, y)
           /\ Less(b1, x, y) <=> Less(b2, x, y)
  <1> DEFINE n == Common(b2, x, y)
  <1>1. Agrees(b2, x, y, n) /\ F \in Nat
    BY CommonIs, Sizes
  <1> HIDE DEF n
  <1>2. n \in 1 .. F /\ (n # F => n \in 0 .. F - 1)
    BY <1>1 DEF Agrees
  <1>3. \A k \in 1 .. n - 1 : k \in 0 .. F - 1
    BY <1>1, <1>2
  <1>4. Agrees(b1, x, y, n)
    BY <1>1, <1>2, <1>3 DEF Agrees
  <1>5. Common(b1, x, y) = n
    BY <1>4, OneCommon
  <1>6. n < F => n \in 0 .. F - 1
    BY <1>1, <1>2
  <1>7. QED
    BY <1>5, <1>6 DEF Less, n

-------------------------------------------------------------------------------
(* The trees: the arrays lson, rson and dad as ls, rs and da.                *)
Nodes  == 0 .. N \cup Roots
Arrays(ls, rs, da) ==
    ls \in [0 .. N -> 0 .. N] /\ rs \in [Nodes -> 0 .. N] /\ da \in [0 .. N -> Nodes]

In(da)    == {p \in Place : da[p] # NIL}
Spots(da) == Roots \cup In(da)
SonsOf(ls, rs, u) == (IF u \in Place THEN {ls[u], rs[u]} ELSE {rs[u]}) \ {NIL}

(* Sons and fathers know each other.                                         *)
Linked(ls, rs, da) ==
    /\ \A u \in Spots(da) : \A x \in SonsOf(ls, rs, u) : x \in In(da) /\ da[x] = u
    /\ \A x \in In(da) : da[x] \in Spots(da) /\ x \in SonsOf(ls, rs, da[x])

(* Heights, by which every way down ends.                                    *)
Falls(ls, rs, da, h, top) ==
    /\ h \in [Nodes -> Nat] /\ top \in Nat /\ \A u \in Nodes : h[u] =< top
    /\ \A u \in Spots(da) : \A x \in SonsOf(ls, rs, u) : h[x] < h[u]

(* D[u] is what is below u, and u.                                           *)
Holds(ls, rs, da, D) ==
    /\ D \in [Nodes -> SUBSET Place]
    /\ \A u \in Spots(da) : D[u] \subseteq In(da)
    /\ \A u \in Spots(da) : \A z \in Place :
          z \in D[u] <=> z = u \/ \E x \in SonsOf(ls, rs, u) : z \in D[x]

(* On the left of u is what is less, on the right what is greater.           *)
Ordered(buf, ls, rs, da, D) ==
    \A u \in In(da) : /\ ls[u] # NIL => \A x \in D[ls[u]] : Less(buf, x, u)
                      /\ rs[u] # NIL => \A x \in D[rs[u]] : Less(buf, u, x)

(* The tree of the byte b.                                                   *)
Rooted(buf, da, D) ==
    \A b \in Byte : \A x \in Place : x \in D[Root(b)] <=> x \in In(da) /\ buf[x] = b

Shape(buf, ls, rs, da, D, h, top) ==
    /\ Arrays(ls, rs, da) /\ Linked(ls, rs, da) /\ Falls(ls, rs, da, h, top)
    /\ Holds(ls, rs, da, D) /\ Ordered(buf, ls, rs, da, D) /\ Rooted(buf, da, D)

Trees == [lson : [0 .. N -> 0 .. N], rson : [Nodes -> 0 .. N], dad : [0 .. N -> Nodes]]

Good(buf, t) ==
    t \in Trees /\ \E D, h, top : Shape(buf, t.lson, t.rson, t.dad, D, h, top)

(* What a node is.                                                           *)
LEMMA SpotsAre ==
    ASSUME NEW da
    PROVE  /\ \A u \in Spots(da) : u \in Nodes /\ u # NIL
           /\ \A u \in Spots(da) : u \in Place \/ u \in Roots
           /\ \A u \in Spots(da) : u \in Place => u \in In(da)
           /\ \A u \in Roots : u \notin Place /\ u \notin 0 .. N /\ u \in Spots(da)
           /\ In(da) \subseteq Place /\ In(da) \subseteq Spots(da)
           /\ Place \subseteq Nodes /\ Place \subseteq 0 .. N /\ NIL \notin Place
           /\ NIL \in 0 .. N /\ NIL \in Nodes
           /\ 0 .. N = Place \cup {NIL} /\ Nodes = Place \cup {NIL} \cup Roots
  BY Sizes DEF Spots, In, Nodes

(* A way down comes to an end.                                               *)
LEMMA DownInduction ==
    ASSUME NEW X, NEW h, \A x \in X : h[x] \in Nat, NEW S,
           \A x \in X : (\A y \in X : h[y] < h[x] => y \in S) => x \in S
    PROVE  X \subseteq S
  <1> SUFFICES ASSUME NEW b \in X \ S PROVE FALSE
    OBVIOUS
  <1> DEFINE B == {h[x] : x \in X \ S}
  <1>1. B \in SUBSET Nat /\ B # {}
    OBVIOUS
  <1> HIDE DEF B
  <1>2. PICK n \in B : \A k \in B : n =< k
    BY <1>1, Smallest
  <1>3. PICK x \in X \ S : n = h[x]
    BY <1>2 DEF B
  <1>4. \A y \in X : h[y] < h[x] => y \in S
    <2> SUFFICES ASSUME NEW y \in X, h[y] < h[x], y \notin S PROVE FALSE
      OBVIOUS
    <2>1. h[y] \in B
      BY DEF B
    <2>2. n =< h[y]
      BY <1>2, <2>1
    <2>3. QED
      BY <1>3, <2>2
  <1>5. QED
    BY <1>3, <1>4

(* So there is a function that is defined by a way down.                     *)
WayDown(f, X, Ends, to) ==
    f = [x \in X |-> IF x \in Ends THEN <<x>> ELSE <<x>> \o f[to[x]]]

(* The recursive function of InsertNode()'s way down exists.                 *)
LEMMA PathsExist ==
    ASSUME NEW X, NEW h, NEW top \in Nat, \A x \in X : h[x] \in Nat /\ h[x] =< top,
           NEW Ends, NEW to, \A x \in X \ Ends : to[x] \in X /\ h[to[x]] < h[x]
    PROVE  \E f : WayDown(f, X, Ends, to)
  <1> DEFINE H(n) == {x \in X : h[x] < n}
             Body(f, x) == IF x \in Ends THEN <<x>> ELSE <<x>> \o f[to[x]]
             Solves(f, n) == f = [x \in H(n) |-> Body(f, x)]
             S == {n \in Nat : ~ \E f : Solves(f, n)}
  <1>1. 0 \notin S
    <2> DEFINE f == [x \in {} |-> {}]
    <2>1. H(0) = {}
      OBVIOUS
    <2>2. Solves(f, 0)
      BY <2>1
    <2>3. QED
      BY <2>2
  <1>2. ASSUME NEW n \in Nat, n \notin S PROVE n + 1 \notin S
    <2>1. PICK f : Solves(f, n)
      BY <1>2
    <2> DEFINE g == [x \in H(n + 1) |-> Body(f, x)]
    <2>2. \A x \in H(n) : x \in H(n + 1) /\ g[x] = f[x]
      <3> TAKE x \in H(n)
      <3>1. x \in H(n + 1)
        OBVIOUS
      <3> HIDE DEF H, Body
      <3>2. f[x] = Body(f, x)
        BY <2>1
      <3>3. g[x] = Body(f, x)
        BY <3>1
      <3>4. QED
        BY <3>1, <3>2, <3>3
    <2>3. ASSUME NEW x \in H(n + 1) PROVE Body(f, x) = Body(g, x)
      <3>1. x \in Ends \/ to[x] \in H(n)
        OBVIOUS
      <3> HIDE DEF H, g
      <3>2. x \in Ends \/ f[to[x]] = g[to[x]]
        BY <2>2, <3>1
      <3>3. QED
        BY <3>2
    <2>4. g = [x \in H(n + 1) |-> Body(g, x)]
      <3>1. g = [x \in H(n + 1) |-> Body(f, x)]
        OBVIOUS
      <3> HIDE DEF H, Body, g
      <3>2. QED
        BY <2>3, <3>1
    <2> HIDE DEF g, H, Body
    <2>5. QED
      BY <2>4
  <1> HIDE DEF S
  <1>3. S = {}
    <2> SUFFICES ASSUME S # {} PROVE FALSE
      OBVIOUS
    <2>1. S \in SUBSET Nat
      BY DEF S
    <2>2. PICK n \in S : \A k \in S : n =< k
      BY <2>1, Smallest
    <2>3. n \in Nat /\ n # 0
      BY <1>1, <2>1, <2>2
    <2>4. n - 1 \in Nat /\ ~ (n =< n - 1) /\ (n - 1) + 1 = n
      BY <2>3
    <2>5. n - 1 \notin S
      BY <2>2, <2>4
    <2>6. QED
      BY <1>2, <2>2, <2>4, <2>5
  <1>4. top + 1 \in Nat /\ top + 1 \notin S
    BY <1>3
  <1>5. PICK f : Solves(f, top + 1)
    BY <1>4 DEF S
  <1>6. H(top + 1) = X
    OBVIOUS
  <1>7. QED
    BY <1>5, <1>6 DEF WayDown

-------------------------------------------------------------------------------
(* InsertNode()'s search.                                                    *)

(* What the search for the bytes of q does at u.                             *)
Route(buf, t, q) ==
    CHOOSE f : f = [p \in Roots \cup InTrees(t) |->
                      IF Stops(buf, t, q, p) THEN <<p>>
                      ELSE <<p>> \o f[Son(buf, t, q, p)]]

(* InsertNode() starts from the root of its first byte.                      *)
LEMMA PathIsRoute ==
    ASSUME NEW buf, NEW t, NEW q
    PROVE  Path(buf, t, q) = Route(buf, t, q)[Root(buf[q])]
  BY DEF Path, Route

(* Where it goes from u.                                                     *)
LEMMA StepDown ==
    ASSUME NEW buf, NEW t, NEW q, NEW D, NEW h, NEW top,
           Shape(buf, t.lson, t.rson, t.dad, D, h, top),
           NEW u \in Spots(t.dad), ~ Stops(buf, t, q, u)
    PROVE  /\ Son(buf, t, q, u) \in SonsOf(t.lson, t.rson, u)
           /\ Son(buf, t, q, u) \in In(t.dad)
           /\ t.dad[Son(buf, t, q, u)] = u
           /\ h[Son(buf, t, q, u)] < h[u]
  <1> DEFINE x == Son(buf, t, q, u)
  <1>1. x # NIL
    BY DEF Stops
  <1>2. x \in SonsOf(t.lson, t.rson, u)
    <2>1. CASE u \in Place
      BY <1>1, <2>1 DEF Son, SonsOf
    <2>2. CASE u \notin Place
      <3>1. u \in Roots
        BY <2>2, SpotsAre
      <3>2. x = t.rson[u]
        BY <3>1, RootsGoRight DEF Son
      <3>3. QED
        BY <1>1, <2>2, <3>2 DEF SonsOf
    <2>3. QED
      BY <2>1, <2>2
  <1> HIDE DEF x
  <1>3. x \in In(t.dad) /\ t.dad[x] = u /\ h[x] < h[u]
    BY <1>2 DEF Shape, Linked, Falls
  <1>4. QED
    BY <1>2, <1>3 DEF x

(* So the function that Path() is defined by is there.                       *)
IsRoute(f, buf, t, q) ==
    f = [p \in Spots(t.dad) |-> IF Stops(buf, t, q, p) THEN <<p>>
                                ELSE <<p>> \o f[Son(buf, t, q, p)]]

(* The search is what its recursion says.                                    *)
LEMMA RouteIs ==
    ASSUME NEW buf, NEW t, NEW q, NEW D, NEW h, NEW top,
           Shape(buf, t.lson, t.rson, t.dad, D, h, top)
    PROVE  IsRoute(Route(buf, t, q), buf, t, q)
  <1> DEFINE X == Spots(t.dad)
             Ends == {p \in X : Stops(buf, t, q, p)}
             to == [p \in X |-> Son(buf, t, q, p)]
  <1>1. X = Roots \cup InTrees(t)
    BY DEF Spots, In, InTrees
  <1>2. \A x \in X : h[x] \in Nat /\ h[x] =< top
    BY SpotsAre DEF Shape, Falls
  <1>3. \A x \in X \ Ends : to[x] \in X /\ h[to[x]] < h[x]
    BY StepDown, SpotsAre
  <1>4. top \in Nat
    BY DEF Shape, Falls
  <1> HIDE DEF X
  <1>5. PICK f : WayDown(f, X, Ends, to)
    <2> HIDE DEF Ends, to
    <2>1. QED
      BY <1>2, <1>3, <1>4, PathsExist
  <1>6. f = [x \in X |-> IF Stops(buf, t, q, x) THEN <<x>>
                         ELSE <<x>> \o f[Son(buf, t, q, x)]]
    <2>1. \A x \in X : (x \in Ends <=> Stops(buf, t, q, x)) /\ to[x] = Son(buf, t, q, x)
      OBVIOUS
    <2> HIDE DEF Ends, to
    <2>2. QED
      BY <1>5, <2>1 DEF WayDown
  <1>7. QED
    BY <1>1, <1>6 DEF Route, IsRoute, X

(* What is below u is where the search for q goes on, or agrees with q no    *)
(* more than u does, and is not q.                                           *)
LEMMA OtherSide ==
    ASSUME NEW buf \in Buffer, NEW t, NEW q \in Place, NEW D, NEW h, NEW top,
           Shape(buf, t.lson, t.rson, t.dad, D, h, top),
           NEW u \in Spots(t.dad), NEW x \in D[u]
    PROVE  /\ x \in Place /\ x \in In(t.dad)
           /\ \/ x = u
              \/ Son(buf, t, q, u) # NIL /\ x \in D[Son(buf, t, q, u)]
                 /\ (u \in Place => (Common(buf, u, q) = F => x # q))
              \/ u \in Place /\ Common(buf, x, q) =< Common(buf, u, q) /\ x # q
  <1> DEFINE ls == t.lson
             rs == t.rson
  <1> USE DEF Shape
  <1>1. x \in Place /\ x \in In(t.dad)
    BY SpotsAre DEF Holds
  <1>2. CASE x = u
    BY <1>1, <1>2
  <1>3. CASE x # u
    <2>1. PICK v \in SonsOf(ls, rs, u) : x \in D[v]
      BY <1>1, <1>3 DEF Holds
    <2>2. v # NIL
      BY <2>1 DEF SonsOf
    <2>3. CASE u \notin Place
      <3>1. u \in Roots
        BY <2>3, SpotsAre
      <3>2. Son(buf, t, q, u) = rs[u] /\ v = rs[u]
        BY <2>1, <2>3, <3>1, RootsGoRight DEF Son, SonsOf
      <3>3. QED
        BY <1>1, <2>1, <2>2, <2>3, <3>2
    <2>4. CASE u \in Place
      <3>1. u \in In(t.dad)
        BY <2>4, SpotsAre
      <3>2. /\ v = ls[u] => Less(buf, x, u)
            /\ v = rs[u] => Less(buf, u, x)
            /\ v \in {ls[u], rs[u]}
        BY <2>1, <2>2, <2>4, <3>1 DEF Ordered, SonsOf
      <3>3. Common(buf, u, q) = F => x # q
        BY <1>1, <2>4, <3>2, OneIsLess
      <3>4. CASE v = Son(buf, t, q, u)
        BY <1>1, <2>1, <2>2, <3>3, <3>4
      <3>5. CASE v # Son(buf, t, q, u)
        <4>1. CASE Common(buf, u, q) = F
          <5>1. Common(buf, x, q) \in 1 .. F /\ F \in Nat
            BY <1>1, OneIsLess, Sizes
          <5>2. QED
            BY <1>1, <2>4, <3>3, <4>1, <5>1
        <4>2. CASE Common(buf, u, q) # F /\ GoesRight(buf, q, u)
          <5>1. Less(buf, u, q)
            BY <2>4, <4>2, GoesByOrder
          <5>2. Less(buf, x, u)
            BY <3>2, <3>5, <4>2 DEF Son
          <5>3. Common(buf, x, q) =< Common(buf, u, q) /\ Less(buf, x, q)
            BY <1>1, <2>4, <5>1, <5>2, LessThrough
          <5>4. x # q
            BY <5>3, OneIsLess
          <5>5. QED
            BY <1>1, <2>4, <5>3, <5>4
        <4>3. CASE ~ GoesRight(buf, q, u)
          <5>1. Less(buf, q, u)
            BY <2>4, <4>3, GoesByOrder
          <5>2. Less(buf, u, x)
            BY <3>2, <3>5, <4>3 DEF Son
          <5>3. Common(buf, q, x) =< Common(buf, q, u) /\ Less(buf, q, x)
            BY <1>1, <2>4, <5>1, <5>2, LessThrough
          <5>4. x # q /\ Common(buf, q, x) = Common(buf, x, q)
                /\ Common(buf, q, u) = Common(buf, u, q)
            BY <1>1, <2>4, <5>3, OneIsLess
          <5>5. QED
            BY <1>1, <2>4, <5>3, <5>4
        <4>4. QED
          BY <4>1, <4>2, <4>3
      <3>6. QED
        BY <3>4, <3>5
    <2>5. QED
      BY <2>3, <2>4
  <1>4. QED
    BY <1>2, <1>3

(* What the search from u on passes.                                         *)
Passes(buf, t, q, D, u, w) ==
    /\ w \in Seq(Spots(t.dad)) /\ w # <<>> /\ w[1] = u
    /\ \A k \in 1 .. Len(w) - 1 : ~ Stops(buf, t, q, w[k]) /\ w[k + 1] = Son(buf, t, q, w[k])
    /\ Stops(buf, t, q, w[Len(w)])
    /\ \A k \in 1 .. Len(w) : w[k] \in Place => w[k] \in D[u]

(* It finds q, and whatever is below u it has met something as close to q.   *)
Finds(buf, q, D, u, w) ==
    /\ q \in D[u] => w[Len(w)] = q
    /\ \A x \in D[u] : \E k \in 1 .. Len(w) :
          w[k] \in Place /\ Common(buf, x, q) =< Common(buf, w[k], q)

(* One node.                                                                 *)
LEMMA PassesOne ==
    ASSUME NEW buf \in Buffer, NEW t, NEW q \in Place, NEW D, NEW h, NEW top,
           Shape(buf, t.lson, t.rson, t.dad, D, h, top),
           NEW u \in Spots(t.dad), Stops(buf, t, q, u)
    PROVE  Passes(buf, t, q, D, u, <<u>>) /\ Finds(buf, q, D, u, <<u>>)
  <1>1. u \in Place => u \in D[u]
    BY DEF Shape, Holds
  <1>2. Passes(buf, t, q, D, u, <<u>>)
    BY <1>1 DEF Passes
  <1>3. CASE Son(buf, t, q, u) = NIL
    <2>1. \A x \in D[u] : x = u \/ (u \in Place /\ Common(buf, x, q) =< Common(buf, u, q) /\ x # q)
      BY <1>3, OtherSide
    <2>2. \A x \in D[u] : x \in Place /\ Common(buf, x, q) \in Nat
      <3> TAKE x \in D[u]
      <3>1. x \in Place
        BY OtherSide
      <3>2. Common(buf, x, q) \in 1 .. F
        BY <3>1, OneIsLess
      <3>3. QED
        BY <3>1, <3>2
    <2>3. QED
      BY <1>2, <2>1, <2>2 DEF Finds
  <1>4. CASE u < N /\ Common(buf, u, q) = F
    <2>1. u \in Place
      BY <1>4, RootsGoRight, SpotsAre
    <2>2. \A x \in D[u] : x \in Place /\ (x = q => x = u)
      <3> TAKE x \in D[u]
      <3>1. QED
        BY <1>4, <2>1, OtherSide
    <2>3. \A x \in D[u] : Common(buf, x, q) \in 1 .. F
      BY <2>2, OneIsLess
    <2>4. \A x \in D[u] : Common(buf, x, q) =< Common(buf, u, q)
      BY <1>4, <2>3, Sizes
    <2>5. QED
      BY <1>2, <2>1, <2>2, <2>4 DEF Finds
  <1>5. QED
    BY <1>3, <1>4 DEF Stops

(* One more.                                                                 *)
LEMMA PassesMore ==
    ASSUME NEW buf \in Buffer, NEW t, NEW q \in Place, NEW D, NEW h, NEW top,
           Shape(buf, t.lson, t.rson, t.dad, D, h, top),
           NEW u \in Spots(t.dad), ~ Stops(buf, t, q, u), NEW w,
           Passes(buf, t, q, D, Son(buf, t, q, u), w),
           Finds(buf, q, D, Son(buf, t, q, u), w)
    PROVE  Passes(buf, t, q, D, u, <<u>> \o w) /\ Finds(buf, q, D, u, <<u>> \o w)
  <1> DEFINE v == Son(buf, t, q, u)
             z == <<u>> \o w
  <1>1. /\ w \in Seq(Spots(t.dad)) /\ w # <<>> /\ w[1] = v /\ Len(w) \in Nat /\ Len(w) > 0
        /\ z \in Seq(Spots(t.dad)) /\ z # <<>> /\ Len(z) = Len(w) + 1 /\ z[1] = u
        /\ \A k \in 1 .. Len(w) : z[k + 1] = w[k]
    BY DEF Passes
  <1>2. /\ v \in SonsOf(t.lson, t.rson, u) /\ v # NIL
    BY StepDown DEF Stops
  <1>3. D[v] \subseteq D[u]
    <2>1. v \in Spots(t.dad)
      BY StepDown, SpotsAre
    <2>2. D[v] \subseteq Place
      BY <2>1, SpotsAre DEF Shape, Holds
    <2>3. QED
      BY <1>2, <2>2 DEF Shape, Holds
  <1>4. /\ \A k \in 1 .. Len(w) - 1 : ~ Stops(buf, t, q, w[k]) /\ w[k + 1] = Son(buf, t, q, w[k])
        /\ Stops(buf, t, q, w[Len(w)])
        /\ \A k \in 1 .. Len(w) : w[k] \in Place => w[k] \in D[v]
    BY DEF Passes
  <1>5. u \in Place => u \in D[u]
    BY DEF Shape, Holds
  <1>6. /\ q \in D[v] => w[Len(w)] = q
        /\ \A x \in D[v] : \E k \in 1 .. Len(w) :
             w[k] \in Place /\ Common(buf, x, q) =< Common(buf, w[k], q)
    BY DEF Finds
  <1>7. \A x \in D[u] : x \in Place /\ Common(buf, x, q) \in Nat
    <2> TAKE x \in D[u]
    <2>1. x \in Place
      BY OtherSide
    <2>2. Common(buf, x, q) \in 1 .. F
      BY <2>1, OneIsLess
    <2>3. QED
      BY <2>1, <2>2
  <1>8. \A x \in D[u] : \/ x = u
                        \/ x \in D[v]
                        \/ u \in Place /\ Common(buf, x, q) =< Common(buf, u, q) /\ x # q
    BY OtherSide
  <1>9. u \in Place => u # q
    <2> SUFFICES ASSUME u \in Place, u = q PROVE FALSE
      OBVIOUS
    <2>1. Common(buf, q, q) = F
      BY OneIsLess
    <2>2. u < N
      BY Sizes
    <2>3. QED
      BY <2>1, <2>2 DEF Stops
  <1> HIDE DEF v, z
  <1>10. ASSUME NEW k \in 1 .. Len(z) - 1
         PROVE  ~ Stops(buf, t, q, z[k]) /\ z[k + 1] = Son(buf, t, q, z[k])
    <2>1. CASE k = 1
      <3>1. z[2] = w[1]
        BY <1>1
      <3>2. QED
        BY <1>1, <2>1, <3>1 DEF v
    <2>2. CASE k # 1
      <3>1. k - 1 \in 1 .. Len(w) - 1 /\ (k - 1) + 1 = k
        BY <1>1, <2>2
      <3>2. z[k] = w[k - 1] /\ z[k + 1] = w[k]
        BY <1>1, <2>2
      <3>3. QED
        BY <1>4, <3>1, <3>2
    <2>3. QED
      BY <2>1, <2>2
  <1>11. ASSUME NEW k \in 1 .. Len(z), z[k] \in Place PROVE z[k] \in D[u]
    <2>1. CASE k = 1
      BY <1>1, <1>5, <1>11, <2>1
    <2>2. CASE k # 1
      <3>1. k - 1 \in 1 .. Len(w) /\ z[k] = w[k - 1]
        BY <1>1, <2>2
      <3>2. QED
        BY <1>3, <1>4, <1>11, <3>1
    <2>3. QED
      BY <2>1, <2>2
  <1>12. z[Len(z)] = w[Len(w)]
    BY <1>1
  <1>13. Passes(buf, t, q, D, u, z)
    BY <1>1, <1>4, <1>10, <1>11, <1>12 DEF Passes
  <1>14. q \in D[u] => z[Len(z)] = q
    BY <1>6, <1>8, <1>9, <1>12
  <1>15. ASSUME NEW x \in D[u]
         PROVE  \E k \in 1 .. Len(z) :
                   z[k] \in Place /\ Common(buf, x, q) =< Common(buf, z[k], q)
    <2>1. CASE u \in Place /\ Common(buf, x, q) =< Common(buf, u, q)
      BY <1>1, <2>1
    <2>2. CASE x = u
      BY <1>1, <1>7, <2>2
    <2>3. CASE x \in D[v]
      <3>1. PICK k \in 1 .. Len(w) : w[k] \in Place /\ Common(buf, x, q) =< Common(buf, w[k], q)
        BY <1>6, <2>3
      <3>2. k + 1 \in 1 .. Len(z) /\ z[k + 1] = w[k]
        BY <1>1
      <3>3. QED
        BY <3>1, <3>2
    <2>4. QED
      BY <1>8, <2>1, <2>2, <2>3
  <1>16. QED
    BY <1>13, <1>14, <1>15 DEF Finds, z

(* So the whole search does.                                                 *)
LEMMA SearchPasses ==
    ASSUME NEW buf \in Buffer, NEW t, NEW q \in Place, NEW D, NEW h, NEW top,
           Shape(buf, t.lson, t.rson, t.dad, D, h, top),
           NEW u \in Spots(t.dad)
    PROVE  /\ Passes(buf, t, q, D, u, Route(buf, t, q)[u])
           /\ Finds(buf, q, D, u, Route(buf, t, q)[u])
  <1> DEFINE f == Route(buf, t, q)
             S == {x \in Spots(t.dad) : /\ Passes(buf, t, q, D, x, f[x])
                                        /\ Finds(buf, q, D, x, f[x])}
  <1>1. \A x \in Spots(t.dad) : h[x] \in Nat
    BY SpotsAre DEF Shape, Falls
  <1>2. ASSUME NEW x \in Spots(t.dad), ~ Stops(buf, t, q, x)
        PROVE  f[x] = <<x>> \o f[Son(buf, t, q, x)]
    <2> HIDE DEF S
    <2>1. IsRoute(f, buf, t, q)
      BY RouteIs
    <2> HIDE DEF f
    <2>2. QED
      BY <1>2, <2>1 DEF IsRoute
  <1>3. ASSUME NEW x \in Spots(t.dad), \A y \in Spots(t.dad) : h[y] < h[x] => y \in S
        PROVE  x \in S
    <2>1. CASE Stops(buf, t, q, x)
      <3>1. f[x] = <<x>>
        <4>1. IsRoute(f, buf, t, q)
          BY RouteIs
        <4> HIDE DEF f
        <4>2. QED
          BY <2>1, <4>1 DEF IsRoute
      <3>2. QED
        BY <2>1, <3>1, PassesOne
    <2>2. CASE ~ Stops(buf, t, q, x)
      <3> DEFINE v == Son(buf, t, q, x)
      <3>1. f[x] = <<x>> \o f[v]
        BY <1>2, <2>2
      <3>2. v \in Spots(t.dad) /\ h[v] < h[x]
        BY <2>2, StepDown, SpotsAre
      <3>3. v \in S
        BY <1>3, <3>2
      <3>4. QED
        BY <2>2, <3>1, <3>3, PassesMore
    <2>3. QED
      BY <2>1, <2>2
  <1> HIDE DEF S
  <1>4. Spots(t.dad) \subseteq S
    BY <1>1, <1>3, DownInduction
  <1>5. QED
    BY <1>4 DEF S

-------------------------------------------------------------------------------
(* The way of the search for q: the nodes A, down to e.                      *)
Way(buf, t, q, A, e) ==
    /\ A \subseteq Spots(t.dad) /\ e \in A /\ Stops(buf, t, q, e)
    /\ buf[q] \in Byte /\ Root(buf[q]) \in A
    /\ \A u \in A \ {e} : ~ Stops(buf, t, q, u) /\ Son(buf, t, q, u) \in A
    /\ \A u \in A \ {Root(buf[q])} :
          t.dad[u] \in A /\ u = Son(buf, t, q, t.dad[u]) /\ ~ Stops(buf, t, q, t.dad[u])

(* InsertNode()'s search: it finds a place that is in the trees, and the longest *)
(* match of the others.                                                      *)
LEMMA WayIs ==
    ASSUME NEW buf \in Buffer, NEW t, NEW q \in Place, NEW D, NEW h, NEW top,
           Shape(buf, t.lson, t.rson, t.dad, D, h, top),
           NEW w, w = Path(buf, t, q)
    PROVE  /\ Len(w) \in Nat \ {0}
           /\ \E A : Way(buf, t, q, A, w[Len(w)])
           /\ w[Len(w)] \in Place => w[Len(w)] \in D[Root(buf[q])]
           /\ buf[q] \in Byte
           /\ Visited(buf, t, q) \subseteq Place /\ Visited(buf, t, q) \subseteq D[Root(buf[q])]
           /\ q \in In(t.dad) => w[Len(w)] = q
           /\ \A x \in In(t.dad) : buf[x] = buf[q] =>
                \E v \in Visited(buf, t, q) : Common(buf, x, q) =< Common(buf, v, q)
  <1> DEFINE A == {w[k] : k \in 1 .. Len(w)}
             root == Root(buf[q])
  <1>1. buf[q] \in Byte /\ root \in Roots /\ root \in Spots(t.dad)
    <2>1. q \in Index
      BY Sizes DEF Index
    <2>2. buf[q] \in Byte
      BY <2>1 DEF Buffer
    <2>3. QED
      BY <2>2, SpotsAre DEF Roots
  <1>2. Passes(buf, t, q, D, root, w) /\ Finds(buf, q, D, root, w)
    BY <1>1, PathIsRoute, SearchPasses
  <1>3. Len(w) \in Nat /\ Len(w) > 0 /\ w[1] = root /\ \A k \in 1 .. Len(w) : w[k] \in Spots(t.dad)
    BY <1>2 DEF Passes
  <1>4. /\ \A k \in 1 .. Len(w) - 1 : ~ Stops(buf, t, q, w[k]) /\ w[k + 1] = Son(buf, t, q, w[k])
        /\ Stops(buf, t, q, w[Len(w)])
        /\ \A k \in 1 .. Len(w) : w[k] \in Place => w[k] \in D[root]
    BY <1>2 DEF Passes
  <1>5. ASSUME NEW k \in 1 .. Len(w), k # 1
        PROVE  /\ w[k] \in In(t.dad) /\ w[k] \in Place /\ k - 1 \in 1 .. Len(w) - 1
               /\ t.dad[w[k]] = w[k - 1] /\ w[k] = Son(buf, t, q, w[k - 1])
               /\ ~ Stops(buf, t, q, w[k - 1])
    <2>1. k - 1 \in 1 .. Len(w) - 1 /\ (k - 1) + 1 = k /\ k - 1 \in 1 .. Len(w)
      BY <1>3, <1>5
    <2>2. ~ Stops(buf, t, q, w[k - 1]) /\ w[k] = Son(buf, t, q, w[k - 1])
      BY <1>4, <2>1
    <2>3. w[k - 1] \in Spots(t.dad)
      BY <1>3, <2>1
    <2>4. ASSUME NEW u \in Spots(t.dad), ~ Stops(buf, t, q, u)
          PROVE  Son(buf, t, q, u) \in In(t.dad) /\ t.dad[Son(buf, t, q, u)] = u
      BY <2>4, StepDown
    <2>5. w[k] \in In(t.dad) /\ t.dad[w[k]] = w[k - 1]
      BY <2>2, <2>3, <2>4
    <2>6. QED
      BY <2>1, <2>2, <2>5, SpotsAre
  <1>6. root \notin Place
    BY <1>1, SpotsAre
  <1>7. Way(buf, t, q, A, w[Len(w)])
    <2>1. A \subseteq Spots(t.dad) /\ w[Len(w)] \in A /\ root \in A
      BY <1>3
    <2>2. ASSUME NEW u \in A \ {w[Len(w)]}
          PROVE  ~ Stops(buf, t, q, u) /\ Son(buf, t, q, u) \in A
      <3>1. PICK k \in 1 .. Len(w) : u = w[k]
        OBVIOUS
      <3>2. k \in 1 .. Len(w) - 1 /\ k + 1 \in 1 .. Len(w)
        BY <1>3, <2>2, <3>1
      <3>3. QED
        BY <1>4, <3>1, <3>2
    <2>3. ASSUME NEW u \in A \ {root}
          PROVE  /\ t.dad[u] \in A /\ u = Son(buf, t, q, t.dad[u])
                 /\ ~ Stops(buf, t, q, t.dad[u])
      <3>1. PICK k \in 1 .. Len(w) : u = w[k]
        OBVIOUS
      <3>2. k # 1
        BY <1>3, <2>3, <3>1
      <3>3. k - 1 \in 1 .. Len(w)
        BY <1>3, <3>2
      <3>4. QED
        BY <1>5, <3>1, <3>2, <3>3
    <2> HIDE DEF A, root
    <2>4. QED
      BY <1>1, <1>4, <2>1, <2>2, <2>3 DEF Way, root
  <1>8. Visited(buf, t, q) = A \cap Place
    <2>1. Visited(buf, t, q) = {w[k] : k \in 2 .. Len(w)}
      BY DEF Visited
    <2>2. \A k \in 2 .. Len(w) : k \in 1 .. Len(w) /\ k # 1 /\ w[k] \in Place
      BY <1>3, <1>5
    <2>3. \A k \in 1 .. Len(w) : w[k] \in Place => k \in 2 .. Len(w)
      BY <1>3, <1>6
    <2>4. QED
      BY <2>1, <2>2, <2>3
  <1>9. A \cap Place \subseteq D[root]
    BY <1>4
  <1>10. \A x \in In(t.dad) : buf[x] = buf[q] => x \in D[root]
    <2>1. \A x \in In(t.dad) : x \in Place
      BY SpotsAre
    <2>2. QED
      BY <1>1, <2>1 DEF Shape, Rooted
  <1>11. q \in In(t.dad) => w[Len(w)] = q
    BY <1>2, <1>10 DEF Finds
  <1>12. ASSUME NEW x \in In(t.dad), buf[x] = buf[q]
         PROVE  \E v \in Visited(buf, t, q) : Common(buf, x, q) =< Common(buf, v, q)
    <2>1. PICK k \in 1 .. Len(w) : w[k] \in Place /\ Common(buf, x, q) =< Common(buf, w[k], q)
      BY <1>2, <1>10, <1>12 DEF Finds
    <2>2. w[k] \in Visited(buf, t, q)
      BY <1>8, <2>1
    <2>3. QED
      BY <2>1, <2>2
  <1>13. w[Len(w)] \in Place => w[Len(w)] \in D[root]
    BY <1>3, <1>4
  <1> HIDE DEF A
  <1>14. QED
    BY <1>13, <1>1, <1>3, <1>7, <1>8, <1>9, <1>11, <1>12 DEF root

-------------------------------------------------------------------------------
(* InsertNode(): q becomes a leaf.                                           *)
LeafSays(ls, rs, da, q, e, right, ls2, rs2, da2) ==
    /\ Arrays(ls2, rs2, da2)
    /\ \A x \in Place : da2[x] = IF x = q THEN e ELSE da[x]
    /\ \A u \in Place :
          ls2[u] = IF u = q THEN NIL ELSE IF u = e /\ ~ right THEN q ELSE ls[u]
    /\ \A u \in Place \cup Roots :
          rs2[u] = IF u = q THEN NIL ELSE IF u = e /\ right THEN q ELSE rs[u]

(* InsertNode() at a missing son: the trees stay in order.                   *)
LEMMA LeafStep ==
    ASSUME NEW buf \in Buffer, NEW t, NEW q \in Place, NEW D, NEW h, NEW top,
           Shape(buf, t.lson, t.rson, t.dad, D, h, top),
           NEW A, NEW e, Way(buf, t, q, A, e),
           q \notin In(t.dad), Son(buf, t, q, e) = NIL,
           e \in Place => Common(buf, e, q) # F,
           NEW ls2, NEW rs2, NEW da2,
           LeafSays(t.lson, t.rson, t.dad, q, e, GoesRight(buf, q, e), ls2, rs2, da2)
    PROVE  /\ In(da2) = In(t.dad) \cup {q}
           /\ \E D2, h2, top2 : Shape(buf, ls2, rs2, da2, D2, h2, top2)
  <1> DEFINE ls == t.lson
             rs == t.rson
             da == t.dad
             right == GoesRight(buf, q, e)
             root == Root(buf[q])
             D2 == [u \in Nodes |-> IF u = q THEN {q} ELSE IF u \in A THEN D[u] \cup {q} ELSE D[u]]
             h2 == [u \in Nodes |-> IF u = q THEN 0 ELSE h[u] + 1]
  <1>1. /\ A \subseteq Spots(da) /\ e \in A /\ buf[q] \in Byte /\ root \in A
        /\ \A u \in A \ {e} : ~ Stops(buf, t, q, u) /\ Son(buf, t, q, u) \in A
        /\ \A u \in A \ {root} :
             da[u] \in A /\ u = Son(buf, t, q, da[u]) /\ ~ Stops(buf, t, q, da[u])
        /\ Stops(buf, t, q, e)
    BY DEF Way
  <1>2. /\ \A x \in Place : da2[x] = IF x = q THEN e ELSE da[x]
        /\ \A u \in Place :
             ls2[u] = IF u = q THEN NIL ELSE IF u = e /\ ~ right THEN q ELSE ls[u]
        /\ \A u \in Place \cup Roots :
             rs2[u] = IF u = q THEN NIL ELSE IF u = e /\ right THEN q ELSE rs[u]
    BY DEF LeafSays
  <1>3. q # NIL /\ q \notin Spots(da) /\ e # q /\ e # NIL /\ root \in Roots
        /\ q \notin Roots /\ q \in Nodes
    <2>1. q \notin Spots(da) /\ q \notin Roots /\ q # NIL
      BY SpotsAre
    <2>2. QED
      BY <1>1, <2>1, SpotsAre DEF Roots
  <1>4. In(da2) = In(da) \cup {q}
    BY <1>2, <1>3 DEF In
  <1>5. Spots(da2) = Spots(da) \cup {q}
    BY <1>4 DEF Spots
  <1>6. right \/ e \in Place
    <2>1. CASE e \in Roots
      BY <2>1, RootsGoRight
    <2>2. QED
      BY <1>1, <2>1, SpotsAre
  <1>7. (right => rs[e] = NIL) /\ (~ right => ls[e] = NIL)
    BY DEF Son
  <1>8. SonsOf(ls2, rs2, q) = {}
    BY <1>2 DEF SonsOf
  <1>9. SonsOf(ls2, rs2, e) = SonsOf(ls, rs, e) \cup {q}
    <2>1. CASE e \in Place
      BY <1>2, <1>3, <1>7, <2>1 DEF SonsOf
    <2>2. CASE e \notin Place
      <3>1. e \in Roots /\ right
        BY <1>1, <1>6, <2>2, SpotsAre
      <3>2. rs2[e] = q
        BY <1>2, <1>3, <3>1
      <3>3. QED
        BY <1>3, <1>7, <2>2, <3>1, <3>2 DEF SonsOf
    <2>3. QED
      BY <2>1, <2>2
  <1>10. \A u \in Spots(da) \ {e} : SonsOf(ls2, rs2, u) = SonsOf(ls, rs, u)
    <2> TAKE u \in Spots(da) \ {e}
    <2>1. u # q /\ (u \in Place \/ u \in Roots)
      BY <1>3, SpotsAre
    <2>2. QED
      BY <1>2, <2>1 DEF SonsOf
  <1>11. \A u \in Spots(da) : q \notin SonsOf(ls, rs, u)
    BY <1>3, SpotsAre DEF Shape, Linked
  <1>12. Linked(ls, rs, da)
    BY DEF Shape
  <1>13. Linked(ls2, rs2, da2)
    <2>1. ASSUME NEW u \in Spots(da2), NEW x \in SonsOf(ls2, rs2, u)
          PROVE  x \in In(da2) /\ da2[x] = u
      <3>1. u # q
        BY <1>8, <2>1
      <3>2. u \in Spots(da)
        BY <1>5, <3>1
      <3>3. CASE x = q /\ u = e
        BY <1>2, <1>4, <3>3
      <3>4. CASE x \in SonsOf(ls, rs, u)
        <4>1. x \in In(da) /\ da[x] = u
          BY <1>12, <3>2, <3>4 DEF Linked
        <4>2. x # q /\ x \in Place
          BY <4>1, SpotsAre
        <4>3. QED
          BY <1>2, <1>4, <4>1, <4>2
      <3>5. QED
        BY <1>9, <1>10, <2>1, <3>2, <3>3, <3>4
    <2>2. ASSUME NEW x \in In(da2)
          PROVE  da2[x] \in Spots(da2) /\ x \in SonsOf(ls2, rs2, da2[x])
      <3>1. CASE x = q
        BY <1>1, <1>2, <1>5, <1>9, <3>1
      <3>2. CASE x # q
        <4>1. x \in In(da) /\ x \in Place
          BY <1>4, <3>2, SpotsAre
        <4>2. da2[x] = da[x] /\ da[x] \in Spots(da) /\ x \in SonsOf(ls, rs, da[x])
          BY <1>2, <1>12, <3>2, <4>1 DEF Linked
        <4>3. QED
          BY <1>5, <1>9, <1>10, <4>2
      <3>3. QED
        BY <3>1, <3>2
    <2>3. QED
      BY <2>1, <2>2 DEF Linked
  <1>14. Falls(ls2, rs2, da2, h2, top + 1)
    <2>1. Falls(ls, rs, da, h, top)
      BY DEF Shape
    <2>2. h2 \in [Nodes -> Nat] /\ top + 1 \in Nat /\ \A u \in Nodes : h2[u] =< top + 1
      BY <2>1 DEF Falls
    <2>3. ASSUME NEW u \in Spots(da2), NEW x \in SonsOf(ls2, rs2, u) PROVE h2[x] < h2[u]
      <3>1. u # q /\ u \in Nodes /\ x \in Nodes
        BY <1>8, <1>13, <2>3, SpotsAre DEF Linked
      <3>2. u \in Spots(da)
        BY <1>5, <3>1
      <3>3. h[u] \in Nat /\ h[x] \in Nat /\ h2[u] = h[u] + 1
        BY <2>1, <3>1 DEF Falls
      <3>4. CASE x = q
        BY <1>3, <3>3, <3>4
      <3>5. CASE x # q
        <4>1. x \in SonsOf(ls, rs, u)
          BY <1>9, <1>10, <2>3, <3>2, <3>5
        <4>2. h[x] < h[u] /\ h2[x] = h[x] + 1
          BY <2>1, <3>1, <3>2, <3>5, <4>1 DEF Falls
        <4>3. QED
          BY <3>3, <4>2
      <3>6. QED
        BY <3>4, <3>5
    <2> HIDE DEF h2
    <2>4. QED
      BY <2>2, <2>3 DEF Falls
  <1>15. Holds(ls, rs, da, D)
    BY DEF Shape
  <1>16. \A u \in Spots(da) : /\ u \in Nodes /\ u # q
                              /\ u \in A => D2[u] = D[u] \cup {q}
                              /\ u \notin A => D2[u] = D[u]
    BY <1>3, SpotsAre
  <1>17. D2[q] = {q} /\ D2 \in [Nodes -> SUBSET Place]
    BY <1>3, <1>15 DEF Holds
  <1> HIDE DEF D2, h2, right, root
  <1>18. \A u \in Spots(da) : \A x \in SonsOf(ls, rs, u) :
            x \in Spots(da) /\ x \in In(da) /\ da[x] = u /\ (x \in A => x # root)
    BY <1>3, <1>12, SpotsAre DEF Linked
  <1>19. Holds(ls2, rs2, da2, D2)
    <2>1. \A u \in Spots(da2) : D2[u] \subseteq In(da2)
      BY <1>4, <1>5, <1>15, <1>16, <1>17 DEF Holds
    <2>2. ASSUME NEW u \in Spots(da2), NEW z \in Place
          PROVE  z \in D2[u] <=> z = u \/ \E x \in SonsOf(ls2, rs2, u) : z \in D2[x]
      <3>1. CASE u = q
        BY <1>8, <1>17, <3>1
      <3>2. CASE u # q
        <4>1. u \in Spots(da)
          BY <1>5, <3>2
        <4>2. z \in D[u] <=> z = u \/ \E x \in SonsOf(ls, rs, u) : z \in D[x]
          BY <1>15, <4>1 DEF Holds
        <4>3. CASE u = e
          <5>1. \A x \in SonsOf(ls, rs, u) : x \notin A
            BY <1>1, <1>18, <4>1, <4>3
          <5>2. \A x \in SonsOf(ls, rs, u) : D2[x] = D[x]
            BY <1>16, <1>18, <4>1, <5>1
          <5>3. D2[u] = D[u] \cup {q}
            BY <1>1, <1>16, <4>1, <4>3
          <5>4. QED
            BY <1>9, <1>17, <4>2, <4>3, <5>2, <5>3
        <4>4. CASE u \in A /\ u # e
          <5> DEFINE v == Son(buf, t, q, u)
          <5>1. v \in SonsOf(ls, rs, u) /\ v \in A
            BY <1>1, <4>1, <4>4, StepDown
          <5>2. D2[v] = D[v] \cup {q} /\ D2[u] = D[u] \cup {q}
            BY <1>16, <1>18, <4>1, <4>4, <5>1
          <5>3. \A x \in SonsOf(ls, rs, u) : D2[x] \in {D[x], D[x] \cup {q}}
            BY <1>16, <1>18, <4>1
          <5>4. SonsOf(ls2, rs2, u) = SonsOf(ls, rs, u)
            BY <1>10, <4>1, <4>4
          <5> HIDE DEF v
          <5>5. CASE z = q
            BY <5>1, <5>2, <5>4, <5>5
          <5>6. CASE z # q
            BY <4>2, <5>2, <5>3, <5>4, <5>6
          <5>7. QED
            BY <5>5, <5>6
        <4>5. CASE u \notin A
          <5>1. \A x \in SonsOf(ls, rs, u) : x \notin A
            BY <1>1, <1>18, <4>1, <4>5
          <5>2. \A x \in SonsOf(ls, rs, u) : D2[x] = D[x]
            BY <1>16, <1>18, <4>1, <5>1
          <5>3. SonsOf(ls2, rs2, u) = SonsOf(ls, rs, u) /\ D2[u] = D[u]
            BY <1>1, <1>10, <1>16, <4>1, <4>5
          <5>4. QED
            BY <4>2, <5>2, <5>3
        <4>6. QED
          BY <4>3, <4>4, <4>5
      <3>3. QED
        BY <3>1, <3>2
    <2>3. QED
      BY <1>17, <2>1, <2>2 DEF Holds
  <1>20. Ordered(buf, ls, rs, da, D)
    BY DEF Shape
  <1>21. ASSUME NEW u \in In(da), NEW x, x = Son(buf, t, q, u), x # NIL \/ u = e,
                u \in A, u # e => ~ Stops(buf, t, q, u)
         PROVE  (GoesRight(buf, q, u) => Less(buf, u, q))
                /\ (~ GoesRight(buf, q, u) => Less(buf, q, u))
    <2>1. u \in Place /\ u < N
      BY SpotsAre, Sizes
    <2>2. Common(buf, u, q) # F
      BY <1>21, <2>1 DEF Stops
    <2>3. QED
      BY <2>1, <2>2, GoesByOrder
  <1>22. ASSUME NEW u \in In(da), NEW v, v \in A, v \in SonsOf(ls, rs, u)
         PROVE  /\ v = ls[u] => Less(buf, q, u)
                /\ v = rs[u] => Less(buf, u, q)
    <2>1. u \in Spots(da) /\ u \in Place
      BY SpotsAre
    <2>2. da[v] = u /\ v # root /\ v \in In(da) /\ v \in Spots(da) /\ v \in Place /\ v # NIL
      BY <1>18, <1>22, <2>1, SpotsAre
    <2>3. u \in A /\ v = Son(buf, t, q, u) /\ ~ Stops(buf, t, q, u)
      BY <1>1, <1>22, <2>2
    <2>4. (GoesRight(buf, q, u) => Less(buf, u, q))
          /\ (~ GoesRight(buf, q, u) => Less(buf, q, u))
      BY <1>21, <2>2, <2>3
    <2>5. v \in D[v]
      BY <1>15, <2>2 DEF Holds
    <2>6. ~ (v = ls[u] /\ v = rs[u])
      BY <1>20, <2>1, <2>2, <2>5, OneIsLess DEF Ordered
    <2>7. GoesRight(buf, q, u) => v = rs[u]
      BY <2>3 DEF Son
    <2>8. ~ GoesRight(buf, q, u) => v = ls[u]
      BY <2>3 DEF Son
    <2>9. QED
      BY <2>4, <2>6, <2>7, <2>8
  <1>23. Ordered(buf, ls2, rs2, da2, D2)
    <2> SUFFICES ASSUME NEW u \in In(da2)
                 PROVE  /\ ls2[u] # NIL => \A x \in D2[ls2[u]] : Less(buf, x, u)
                        /\ rs2[u] # NIL => \A x \in D2[rs2[u]] : Less(buf, u, x)
      BY DEF Ordered
    <2>1. CASE u = q
      BY <1>2, <2>1
    <2>2. CASE u # q
      <3>1. u \in In(da) /\ u \in Place /\ u \in Spots(da)
        BY <1>4, <2>2, SpotsAre
      <3>2. ASSUME ls2[u] # NIL, NEW x \in D2[ls2[u]] PROVE Less(buf, x, u)
        <4>1. CASE u = e /\ ~ right
          <5>1. x = q
            BY <1>2, <1>17, <2>2, <3>1, <3>2, <4>1
          <5>2. QED
            BY <1>21, <1>1, <3>1, <4>1, <5>1 DEF right
        <4>2. CASE ~ (u = e /\ ~ right)
          <5>1. ls2[u] = ls[u]
            BY <1>2, <2>2, <3>1, <4>2
          <5>2. ls[u] \in SonsOf(ls, rs, u)
            BY <3>1, <3>2, <5>1 DEF SonsOf
          <5>3. ls[u] \in Spots(da)
            BY <1>18, <3>1, <5>2
          <5>4. CASE x \in D[ls[u]]
            BY <1>20, <3>1, <3>2, <5>1, <5>4 DEF Ordered
          <5>5. CASE x = q /\ ls[u] \in A
            BY <1>22, <3>1, <5>2, <5>5
          <5>6. QED
            BY <1>16, <3>2, <5>1, <5>3, <5>4, <5>5
        <4>3. QED
          BY <4>1, <4>2
      <3>3. ASSUME rs2[u] # NIL, NEW x \in D2[rs2[u]] PROVE Less(buf, u, x)
        <4>1. CASE u = e /\ right
          <5>1. x = q
            BY <1>2, <1>17, <2>2, <3>1, <3>3, <4>1
          <5>2. QED
            BY <1>21, <1>1, <3>1, <4>1, <5>1 DEF right
        <4>2. CASE ~ (u = e /\ right)
          <5>1. rs2[u] = rs[u]
            BY <1>2, <2>2, <3>1, <4>2
          <5>2. rs[u] \in SonsOf(ls, rs, u)
            BY <3>1, <3>3, <5>1 DEF SonsOf
          <5>3. rs[u] \in Spots(da)
            BY <1>18, <3>1, <5>2
          <5>4. CASE x \in D[rs[u]]
            BY <1>20, <3>1, <3>3, <5>1, <5>4 DEF Ordered
          <5>5. CASE x = q /\ rs[u] \in A
            BY <1>22, <3>1, <5>2, <5>5
          <5>6. QED
            BY <1>16, <3>3, <5>1, <5>3, <5>4, <5>5
        <4>3. QED
          BY <4>1, <4>2
      <3>4. QED
        BY <3>2, <3>3
    <2>3. QED
      BY <2>1, <2>2
  <1>24. Rooted(buf, da2, D2)
    <2> SUFFICES ASSUME NEW b \in Byte, NEW x \in Place
                 PROVE  x \in D2[Root(b)] <=> x \in In(da2) /\ buf[x] = b
      BY DEF Rooted
    <2>1. x \in D[Root(b)] <=> x \in In(da) /\ buf[x] = b
      BY DEF Shape, Rooted
    <2>2. Root(b) \in Roots /\ Root(b) \in Spots(da) /\ Root(b) \notin Place
      BY SpotsAre DEF Roots
    <2>3. Root(b) = root <=> b = buf[q]
      <3>1. /\ b \in Nat /\ buf[q] \in Nat /\ N \in Nat
            /\ Root(b) = N + 1 + b /\ root = N + 1 + buf[q]
        BY <1>1, Sizes DEF root
      <3>2. QED
        BY <3>1
    <2>4. Root(b) \in A <=> b = buf[q]
      <3>1. ASSUME Root(b) \in A, Root(b) # root PROVE FALSE
        <4>1. Root(b) = Son(buf, t, q, da[Root(b)]) /\ da[Root(b)] \in Spots(da)
              /\ ~ Stops(buf, t, q, da[Root(b)])
          BY <1>1, <3>1
        <4>2. Son(buf, t, q, da[Root(b)]) \in In(da)
          BY <4>1, StepDown
        <4>3. QED
          BY <2>2, <4>1, <4>2, SpotsAre
      <3>2. QED
        BY <1>1, <2>3, <3>1
    <2>5. QED
      BY <1>4, <1>16, <2>1, <2>2, <2>4
  <1>25. Arrays(ls2, rs2, da2)
    BY DEF LeafSays
  <1>26. Shape(buf, ls2, rs2, da2, D2, h2, top + 1)
    BY <1>13, <1>14, <1>19, <1>23, <1>24, <1>25 DEF Shape
  <1>27. QED
    BY <1>4, <1>26

-------------------------------------------------------------------------------
(* A place that is not in the trees takes over that of p.                    *)
SwapSays(ls, rs, da, p, g, ls2, rs2, da2) ==
    /\ Arrays(ls2, rs2, da2)
    /\ \A x \in Place :
          da2[x] = IF x = g THEN da[p] ELSE IF x = p THEN NIL
                   ELSE IF x \in {ls[p], rs[p]} THEN g ELSE da[x]
    /\ ls2[g] = ls[p] /\ rs2[g] = rs[p]
    /\ \A u \in In(da) \ {p} : ls2[u] = IF ls[u] = p THEN g ELSE ls[u]
    /\ \A u \in Spots(da) \ {p} : rs2[u] = IF rs[u] = p THEN g ELSE rs[u]

(* It may, where it is between the same places.                              *)
Fits(buf, ls, rs, da, D, p, g) ==
    /\ buf[g] = buf[p]
    /\ ls[p] # NIL => \A x \in D[ls[p]] : Less(buf, x, g)
    /\ rs[p] # NIL => \A x \in D[rs[p]] : Less(buf, g, x)
    /\ \A u \in In(da) \ {p} :
          /\ ls[u] # NIL /\ p \in D[ls[u]] => Less(buf, g, u)
          /\ rs[u] # NIL /\ p \in D[rs[u]] => Less(buf, u, g)

(* InsertNode() at a place with the same bytes: the trees stay in order.     *)
LEMMA SwapStep ==
    ASSUME NEW buf, NEW ls, NEW rs, NEW da, NEW D, NEW h, NEW top,
           Shape(buf, ls, rs, da, D, h, top),
           NEW p \in In(da), NEW g \in Place, g \notin In(da), g # p,
           Fits(buf, ls, rs, da, D, p, g), \A x \in Place : ~ Less(buf, x, x),
           NEW ls2, NEW rs2, NEW da2, SwapSays(ls, rs, da, p, g, ls2, rs2, da2)
    PROVE  /\ In(da2) = (In(da) \ {p}) \cup {g}
           /\ \E D2, h2 : Shape(buf, ls2, rs2, da2, D2, h2, top)
  <1> DEFINE ren(x) == IF x = p THEN g ELSE x
             Put(S) == IF p \in S THEN (S \ {p}) \cup {g} ELSE S
             D2 == [u \in Nodes |-> IF u = g THEN Put(D[p]) ELSE Put(D[u])]
             h2 == [u \in Nodes |-> IF u = g THEN h[p] ELSE h[u]]
  <1>1. /\ Linked(ls, rs, da) /\ Falls(ls, rs, da, h, top) /\ Holds(ls, rs, da, D)
        /\ Ordered(buf, ls, rs, da, D) /\ Rooted(buf, da, D) /\ Arrays(ls2, rs2, da2)
    BY DEF Shape, SwapSays
  <1>2. /\ p \in Place /\ p # NIL /\ g # NIL /\ p \in Spots(da) /\ g \notin Spots(da)
        /\ g \notin Roots /\ p \notin Roots /\ p \in Nodes /\ g \in Nodes /\ da[p] # NIL
    BY SpotsAre DEF In, Spots
  <1>3. /\ \A x \in Place :
             da2[x] = IF x = g THEN da[p] ELSE IF x = p THEN NIL
                      ELSE IF x \in {ls[p], rs[p]} THEN g ELSE da[x]
        /\ ls2[g] = ls[p] /\ rs2[g] = rs[p]
        /\ \A u \in In(da) \ {p} : ls2[u] = IF ls[u] = p THEN g ELSE ls[u]
        /\ \A u \in Spots(da) \ {p} : rs2[u] = IF rs[u] = p THEN g ELSE rs[u]
    BY DEF SwapSays
  <1>4. \A u \in Spots(da) : \A x \in SonsOf(ls, rs, u) :
           x \in In(da) /\ da[x] = u /\ x # NIL /\ x \in Place /\ x \in Spots(da) /\ x # g
    BY <1>1, SpotsAre DEF Linked
  <1>5. SonsOf(ls, rs, p) = {ls[p], rs[p]} \ {NIL}
    BY <1>2 DEF SonsOf
  <1>6. p \notin SonsOf(ls, rs, p)
    <2>1. ASSUME p \in SonsOf(ls, rs, p) PROVE FALSE
      <3>1. h[p] < h[p] /\ h[p] \in Nat
        BY <1>1, <1>2, <2>1 DEF Falls
      <3>2. QED
        BY <3>1
    <2>2. QED
      BY <2>1
  <1>7. \A x \in In(da) : x \in Place /\ x # NIL /\ x # g /\ da[x] \in Spots(da)
                          /\ x \in SonsOf(ls, rs, da[x])
    BY <1>1, SpotsAre DEF Linked
  <1>8. \A x \in In(da) : (x \in {ls[p], rs[p]} <=> da[x] = p)
    BY <1>2, <1>4, <1>5, <1>7
  <1>9. \A x \in In(da) : da2[ren(x)] = ren(da[x])
    <2> TAKE x \in In(da)
    <2>1. x \in Place /\ x # g
      BY <1>7
    <2>2. CASE x = p
      <3>1. da2[g] = da[p]
        BY <1>3
      <3>2. da[p] # p
        BY <1>6, <1>7
      <3>3. QED
        BY <2>2, <3>1, <3>2
    <2>3. CASE x # p
      BY <1>3, <1>8, <2>1, <2>3
    <2>4. QED
      BY <2>2, <2>3
  <1>10. In(da2) = (In(da) \ {p}) \cup {g}
    <2>1. ASSUME NEW x \in Place PROVE x \in In(da2) <=> x \in (In(da) \ {p}) \cup {g}
      <3>1. CASE x = g
        BY <1>2, <1>3, <3>1 DEF In
      <3>2. CASE x = p
        BY <1>3, <3>2 DEF In
      <3>3. CASE x # g /\ x # p
        <4>1. CASE x \in In(da)
          BY <1>2, <1>3, <3>3, <4>1 DEF In
        <4>2. CASE x \notin In(da)
          <5>1. x # NIL
            BY SpotsAre
          <5>2. x \notin {ls[p], rs[p]}
            BY <1>2, <1>4, <1>5, <4>2, <5>1
          <5>3. QED
            BY <1>3, <3>3, <4>2, <5>2 DEF In
        <4>3. QED
          BY <4>1, <4>2
      <3>4. QED
        BY <3>1, <3>2, <3>3
    <2>2. In(da2) \subseteq Place /\ In(da) \subseteq Place
      BY DEF In
    <2>3. QED
      BY <2>1, <2>2
  <1>11. Spots(da2) = (Spots(da) \ {p}) \cup {g}
    BY <1>2, <1>10 DEF Spots
  <1>12. /\ \A u \in Spots(da) : ren(u) \in Spots(da2) /\ u # g
         /\ \A x \in In(da) : ren(x) \in In(da2)
         /\ \A u \in Spots(da2) : \E v \in Spots(da) : u = ren(v)
         /\ \A u \in In(da2) : \E v \in In(da) : u = ren(v)
    BY <1>2, <1>10, <1>11
  <1>13. \A u \in Spots(da) : (u \in Place <=> ren(u) \in Place)
    BY <1>2
  <1>14. \A u \in In(da) : /\ (ls2[ren(u)] = NIL <=> ls[u] = NIL)
                           /\ ls[u] # NIL => ls2[ren(u)] = ren(ls[u])
    <2> TAKE u \in In(da)
    <2>1. u \in Place /\ u # g
      BY <1>7
    <2>2. CASE u = p
      <3>1. ls2[g] = ls[p] /\ ls[p] # p
        BY <1>2, <1>3, <1>5, <1>6
      <3>2. QED
        BY <2>2, <3>1
    <2>3. CASE u # p
      BY <1>2, <1>3, <2>1, <2>3
    <2>4. QED
      BY <2>2, <2>3
  <1>15. \A u \in Spots(da) : /\ (rs2[ren(u)] = NIL <=> rs[u] = NIL)
                              /\ rs[u] # NIL => rs2[ren(u)] = ren(rs[u])
    <2> TAKE u \in Spots(da)
    <2>1. u \in Place \cup Roots /\ u # g
      BY <1>2, SpotsAre
    <2>2. CASE u = p
      <3>1. rs2[g] = rs[p] /\ rs[p] # p
        BY <1>2, <1>3, <1>5, <1>6
      <3>2. QED
        BY <2>2, <3>1
    <2>3. CASE u # p
      BY <1>2, <1>3, <2>1, <2>3
    <2>4. QED
      BY <2>2, <2>3
  <1>16. \A u \in Spots(da) : SonsOf(ls2, rs2, ren(u)) = {ren(x) : x \in SonsOf(ls, rs, u)}
    <2> TAKE u \in Spots(da)
    <2>1. u \in Place => u \in In(da)
      BY SpotsAre
    <2> HIDE DEF ren
    <2>2. CASE u \in Place
      <3>1. ren(u) \in Place
        BY <1>13, <2>2
      <3>2. SonsOf(ls2, rs2, ren(u)) = {ls2[ren(u)], rs2[ren(u)]} \ {NIL}
            /\ SonsOf(ls, rs, u) = {ls[u], rs[u]} \ {NIL}
        BY <2>2, <3>1 DEF SonsOf
      <3>3. QED
        BY <1>14, <1>15, <2>1, <2>2, <3>2
    <2>3. CASE u \notin Place
      <3>1. ren(u) \notin Place
        BY <1>13, <2>3
      <3>2. SonsOf(ls2, rs2, ren(u)) = {rs2[ren(u)]} \ {NIL}
            /\ SonsOf(ls, rs, u) = {rs[u]} \ {NIL}
        BY <2>3, <3>1 DEF SonsOf
      <3>3. QED
        BY <1>15, <3>2
    <2>4. QED
      BY <2>2, <2>3
  <1>17. \A u \in Spots(da) : D2[ren(u)] = Put(D[u]) /\ h2[ren(u)] = h[u]
                              /\ g \notin D[u] /\ D[u] \subseteq Place
    BY <1>1, <1>2, SpotsAre DEF Holds
  <1>18. D2 \in [Nodes -> SUBSET Place] /\ h2 \in [Nodes -> Nat] /\ \A u \in Nodes : h2[u] =< top
    BY <1>1, <1>2 DEF Holds, Falls
  <1>19. \A S : g \notin S => \A z : z \in Put(S) <=> \/ z = g /\ p \in S
                                                      \/ z # p /\ z # g /\ z \in S
    OBVIOUS
  <1> HIDE DEF D2, h2, Put
  <1>20. Linked(ls2, rs2, da2)
    <2>1. ASSUME NEW v \in Spots(da2), NEW y \in SonsOf(ls2, rs2, v)
          PROVE  y \in In(da2) /\ da2[y] = v
      <3>1. PICK u \in Spots(da) : v = ren(u)
        BY <1>12
      <3>2. PICK x \in SonsOf(ls, rs, u) : y = ren(x)
        BY <1>16, <2>1, <3>1
      <3> HIDE DEF ren
      <3>3. QED
        BY <1>4, <1>9, <1>12, <3>1, <3>2
    <2>2. ASSUME NEW y \in In(da2)
          PROVE  da2[y] \in Spots(da2) /\ y \in SonsOf(ls2, rs2, da2[y])
      <3>1. PICK x \in In(da) : y = ren(x)
        BY <1>12
      <3> HIDE DEF ren
      <3>2. QED
        BY <1>7, <1>9, <1>12, <1>16, <3>1
    <2>3. QED
      BY <2>1, <2>2 DEF Linked
  <1>21. Falls(ls2, rs2, da2, h2, top)
    <2>1. ASSUME NEW v \in Spots(da2), NEW y \in SonsOf(ls2, rs2, v) PROVE h2[y] < h2[v]
      <3>1. PICK u \in Spots(da) : v = ren(u)
        BY <1>12
      <3>2. PICK x \in SonsOf(ls, rs, u) : y = ren(x)
        BY <1>16, <2>1, <3>1
      <3>3. h[x] < h[u]
        BY <1>1, <3>1, <3>2 DEF Falls
      <3> HIDE DEF ren
      <3>4. QED
        BY <1>4, <1>17, <3>1, <3>2, <3>3
    <2>2. QED
      BY <1>1, <1>18, <2>1 DEF Falls
  <1>22. Holds(ls2, rs2, da2, D2)
    <2>1. ASSUME NEW v \in Spots(da2) PROVE D2[v] \subseteq In(da2)
      <3>1. PICK u \in Spots(da) : v = ren(u)
        BY <1>12
      <3>2. D2[v] = Put(D[u]) /\ g \notin D[u] /\ D[u] \subseteq In(da)
        BY <1>1, <1>17, <3>1 DEF Holds
      <3>3. QED
        BY <1>10, <1>19, <3>2
    <2>2. ASSUME NEW v \in Spots(da2), NEW z \in Place
          PROVE  z \in D2[v] <=> z = v \/ \E y \in SonsOf(ls2, rs2, v) : z \in D2[y]
      <3>1. PICK u \in Spots(da) : v = ren(u)
        BY <1>12
      <3>2. \A x \in SonsOf(ls, rs, u) : D2[ren(x)] = Put(D[x]) /\ g \notin D[x]
        BY <1>4, <1>17, <3>1
      <3>3. (\E y \in SonsOf(ls2, rs2, v) : z \in D2[y])
              <=> \E x \in SonsOf(ls, rs, u) : z \in Put(D[x])
        <4> HIDE DEF ren
        <4>1. QED
          BY <1>16, <3>1, <3>2
      <3>4. D2[v] = Put(D[u]) /\ g \notin D[u]
        BY <1>17, <3>1
      <3>5. \A y \in Place : y \in D[u] <=> y = u \/ \E x \in SonsOf(ls, rs, u) : y \in D[x]
        BY <1>1, <3>1 DEF Holds
      <3>6. u # g /\ (v = g <=> u = p) /\ v # p
        BY <1>2, <3>1
      <3>7. CASE z = g
        <4>1. \A x \in SonsOf(ls, rs, u) : z \in Put(D[x]) <=> p \in D[x]
          BY <1>19, <3>2, <3>7
        <4>2. z \in Put(D[u]) <=> p \in D[u]
          BY <1>19, <3>4, <3>7
        <4>3. QED
          BY <1>2, <3>3, <3>4, <3>5, <3>6, <3>7, <4>1, <4>2
      <3>8. CASE z = p
        <4>1. \A x \in SonsOf(ls, rs, u) : z \notin Put(D[x])
          BY <1>19, <3>2, <3>8
        <4>2. z \notin Put(D[u])
          BY <1>19, <3>4, <3>8
        <4>3. QED
          BY <3>3, <3>4, <3>6, <3>8, <4>1, <4>2
      <3>9. CASE z # g /\ z # p
        <4>1. \A x \in SonsOf(ls, rs, u) : z \in Put(D[x]) <=> z \in D[x]
          BY <1>19, <3>2, <3>9
        <4>2. z \in Put(D[u]) <=> z \in D[u]
          BY <1>19, <3>4, <3>9
        <4>3. z = v <=> z = u
          BY <3>1, <3>9
        <4>4. QED
          BY <3>3, <3>4, <3>5, <4>1, <4>2, <4>3
      <3>10. QED
        BY <3>7, <3>8, <3>9
    <2>3. QED
      BY <1>18, <2>1, <2>2 DEF Holds
  <1>23. Ordered(buf, ls2, rs2, da2, D2)
    <2> SUFFICES ASSUME NEW v \in In(da2)
                 PROVE  /\ ls2[v] # NIL => \A y \in D2[ls2[v]] : Less(buf, y, v)
                        /\ rs2[v] # NIL => \A y \in D2[rs2[v]] : Less(buf, v, y)
      BY DEF Ordered
    <2>1. PICK u \in In(da) : v = ren(u)
      BY <1>12
    <2>2. u \in Spots(da) /\ u \in Place
      BY SpotsAre
    <2>3. ASSUME ls2[v] # NIL, NEW y \in D2[ls2[v]] PROVE Less(buf, y, v)
      <3>1. ls[u] # NIL /\ ls2[v] = ren(ls[u])
        BY <1>14, <2>1, <2>3
      <3>2. ls[u] \in SonsOf(ls, rs, u)
        BY <2>2, <3>1 DEF SonsOf
      <3>3. ls[u] \in Spots(da)
        BY <1>4, <2>2, <3>2
      <3>4. D2[ls2[v]] = Put(D[ls[u]]) /\ g \notin D[ls[u]]
        BY <1>17, <3>1, <3>3
      <3>5. \A x \in D[ls[u]] : Less(buf, x, u)
        BY <1>1, <3>1 DEF Ordered
      <3>6. CASE u = p
        <4>1. y = g => p \in D[ls[p]]
          BY <1>19, <2>3, <3>4, <3>6
        <4>2. p \notin D[ls[p]]
          BY <1>2, <3>5, <3>6
        <4>3. y \in D[ls[p]]
          BY <1>19, <2>3, <3>4, <3>6, <4>1, <4>2
        <4>4. QED
          BY <2>1, <3>1, <3>6, <4>3 DEF Fits
      <3>7. CASE u # p
        <4>1. CASE y = g /\ p \in D[ls[u]]
          BY <2>1, <3>1, <3>7, <4>1 DEF Fits
        <4>2. CASE y \in D[ls[u]]
          BY <2>1, <3>5, <3>7, <4>2
        <4>3. QED
          BY <1>19, <2>3, <3>4, <4>1, <4>2
      <3>8. QED
        BY <3>6, <3>7
    <2>4. ASSUME rs2[v] # NIL, NEW y \in D2[rs2[v]] PROVE Less(buf, v, y)
      <3>1. rs[u] # NIL /\ rs2[v] = ren(rs[u])
        BY <1>15, <2>1, <2>2, <2>4
      <3>2. rs[u] \in SonsOf(ls, rs, u)
        BY <2>2, <3>1 DEF SonsOf
      <3>3. rs[u] \in Spots(da)
        BY <1>4, <2>2, <3>2
      <3>4. D2[rs2[v]] = Put(D[rs[u]]) /\ g \notin D[rs[u]]
        BY <1>17, <3>1, <3>3
      <3>5. \A x \in D[rs[u]] : Less(buf, u, x)
        BY <1>1, <3>1 DEF Ordered
      <3>6. CASE u = p
        <4>1. y = g => p \in D[rs[p]]
          BY <1>19, <2>4, <3>4, <3>6
        <4>2. p \notin D[rs[p]]
          BY <1>2, <3>5, <3>6
        <4>3. y \in D[rs[p]]
          BY <1>19, <2>4, <3>4, <3>6, <4>1, <4>2
        <4>4. QED
          BY <2>1, <3>1, <3>6, <4>3 DEF Fits
      <3>7. CASE u # p
        <4>1. CASE y = g /\ p \in D[rs[u]]
          BY <2>1, <3>1, <3>7, <4>1 DEF Fits
        <4>2. CASE y \in D[rs[u]]
          BY <2>1, <3>5, <3>7, <4>2
        <4>3. QED
          BY <1>19, <2>4, <3>4, <4>1, <4>2
      <3>8. QED
        BY <3>6, <3>7
    <2>5. QED
      BY <2>3, <2>4
  <1>24. Rooted(buf, da2, D2)
    <2> SUFFICES ASSUME NEW b \in Byte, NEW x \in Place
                 PROVE  x \in D2[Root(b)] <=> x \in In(da2) /\ buf[x] = b
      BY DEF Rooted
    <2>1. \A y \in Place : y \in D[Root(b)] <=> y \in In(da) /\ buf[y] = b
      BY <1>1 DEF Rooted
    <2>2. Root(b) \in Spots(da) /\ Root(b) # p
      BY <1>2, SpotsAre DEF Roots
    <2>3. D2[Root(b)] = Put(D[Root(b)]) /\ g \notin D[Root(b)]
      BY <1>17, <2>2
    <2>4. buf[g] = buf[p]
      BY DEF Fits
    <2>5. QED
      BY <1>2, <1>10, <1>19, <2>1, <2>3, <2>4
  <1>25. Shape(buf, ls2, rs2, da2, D2, h2, top)
    BY <1>1, <1>20, <1>21, <1>22, <1>23, <1>24 DEF Shape
  <1>26. QED
    BY <1>10, <1>25

-------------------------------------------------------------------------------
(* A place with at most one son, c, goes, and its son takes its place.       *)
CutSays(ls, rs, da, p, c, ls2, rs2, da2) ==
    /\ Arrays(ls2, rs2, da2)
    /\ SonsOf(ls, rs, p) = {c} \ {NIL}
    /\ \A x \in Place : da2[x] = IF x = p THEN NIL ELSE IF x = c THEN da[p] ELSE da[x]
    /\ \A u \in In(da) \ {p} : ls2[u] = IF ls[u] = p THEN c ELSE ls[u]
    /\ \A u \in Spots(da) \ {p} : rs2[u] = IF rs[u] = p THEN c ELSE rs[u]

(* DeleteNode() of a place with one son at most: the trees stay in order.    *)
LEMMA CutStep ==
    ASSUME NEW buf, NEW ls, NEW rs, NEW da, NEW D, NEW h, NEW top,
           Shape(buf, ls, rs, da, D, h, top),
           NEW p \in In(da), NEW c,
           NEW ls2, NEW rs2, NEW da2, CutSays(ls, rs, da, p, c, ls2, rs2, da2)
    PROVE  /\ In(da2) = In(da) \ {p}
           /\ Shape(buf, ls2, rs2, da2, [u \in Nodes |-> D[u] \ {p}], h, top)
  <1> DEFINE ren(x) == IF x = p THEN c ELSE x
             D2 == [u \in Nodes |-> D[u] \ {p}]
  <1>1. /\ Linked(ls, rs, da) /\ Falls(ls, rs, da, h, top) /\ Holds(ls, rs, da, D)
        /\ Ordered(buf, ls, rs, da, D) /\ Rooted(buf, da, D) /\ Arrays(ls2, rs2, da2)
    BY DEF Shape, CutSays
  <1>2. p \in Place /\ p # NIL /\ p \in Spots(da) /\ p \notin Roots /\ p \in Nodes /\ da[p] # NIL
    BY SpotsAre DEF In, Spots
  <1>3. /\ SonsOf(ls, rs, p) = {c} \ {NIL}
        /\ \A x \in Place : da2[x] = IF x = p THEN NIL ELSE IF x = c THEN da[p] ELSE da[x]
        /\ \A u \in In(da) \ {p} : ls2[u] = IF ls[u] = p THEN c ELSE ls[u]
        /\ \A u \in Spots(da) \ {p} : rs2[u] = IF rs[u] = p THEN c ELSE rs[u]
    BY DEF CutSays
  <1>4. \A u \in Spots(da) : \A x \in SonsOf(ls, rs, u) :
           x \in In(da) /\ da[x] = u /\ x # NIL /\ x \in Place /\ x \in Spots(da)
    BY <1>1, SpotsAre DEF Linked
  <1>5. \A u \in Spots(da) : \A x \in SonsOf(ls, rs, u) : h[x] < h[u] /\ h[u] \in Nat
    BY <1>1, SpotsAre DEF Falls
  <1>6. \A u \in Spots(da) : u \notin SonsOf(ls, rs, u)
    <2> TAKE u \in Spots(da)
    <2>1. u \in SonsOf(ls, rs, u) => h[u] < h[u] /\ h[u] \in Nat
      BY <1>5
    <2>2. QED
      BY <2>1
  <1>7. \A x \in In(da) : x \in Place /\ x # NIL /\ da[x] \in Spots(da)
                          /\ x \in SonsOf(ls, rs, da[x])
    BY <1>1, SpotsAre DEF Linked
  <1>8. c # NIL => /\ c \in In(da) /\ da[c] = p /\ c # p /\ c \in Spots(da)
                   /\ c \in SonsOf(ls, rs, p)
    BY <1>2, <1>3, <1>4, <1>6
  <1>9. /\ In(da2) = In(da) \ {p}
        /\ Spots(da2) = Spots(da) \ {p}
    <2>1. ASSUME NEW x \in Place PROVE x \in In(da2) <=> x \in In(da) /\ x # p
      <3>1. CASE x = p
        BY <1>3, <3>1 DEF In
      <3>2. CASE x # p /\ x = c
        <4>1. c # NIL
          BY <3>2, SpotsAre
        <4>2. QED
          BY <1>2, <1>3, <1>8, <3>2, <4>1 DEF In
      <3>3. CASE x # p /\ x # c
        BY <1>3, <3>3 DEF In
      <3>4. QED
        BY <3>1, <3>2, <3>3
    <2>2. In(da2) = In(da) \ {p}
      <3>1. In(da2) \subseteq Place /\ In(da) \subseteq Place
        BY SpotsAre
      <3>2. QED
        BY <2>1, <3>1
    <2>3. QED
      BY <1>2, <2>2 DEF Spots
  <1>10. \A u \in Spots(da) \ {p} :
            SonsOf(ls2, rs2, u) = {ren(x) : x \in SonsOf(ls, rs, u)} \ {NIL}
    <2> TAKE u \in Spots(da) \ {p}
    <2>1. u # p /\ (u \in Place => u \in In(da))
      BY SpotsAre
    <2>2. rs2[u] = ren(rs[u])
      BY <1>3, <2>1
    <2>3. CASE u \in Place
      <3>1. ls2[u] = ren(ls[u])
        BY <1>3, <2>1, <2>3
      <3>2. SonsOf(ls2, rs2, u) = {ls2[u], rs2[u]} \ {NIL}
            /\ SonsOf(ls, rs, u) = {ls[u], rs[u]} \ {NIL}
        BY <2>3 DEF SonsOf
      <3>3. ren(NIL) = NIL
        BY <1>2
      <3> HIDE DEF ren
      <3>4. QED
        BY <2>2, <3>1, <3>2, <3>3
    <2>4. CASE u \notin Place
      <3>1. SonsOf(ls2, rs2, u) = {rs2[u]} \ {NIL} /\ SonsOf(ls, rs, u) = {rs[u]} \ {NIL}
        BY <2>4 DEF SonsOf
      <3>2. ren(NIL) = NIL
        BY <1>2
      <3> HIDE DEF ren
      <3>3. QED
        BY <2>2, <3>1, <3>2
    <2>5. QED
      BY <2>3, <2>4
  (* A son of u is one it had, or the son of p, that it had.                 *)
  <1>11. ASSUME NEW u \in Spots(da), u # p, NEW y \in SonsOf(ls2, rs2, u)
         PROVE  /\ y # NIL /\ y # p
                /\ \/ y \in SonsOf(ls, rs, u)
                   \/ y = c /\ p \in SonsOf(ls, rs, u)
    <2>1. PICK x \in SonsOf(ls, rs, u) : y = ren(x) /\ y # NIL
      BY <1>10, <1>11
    <2>2. QED
      BY <1>8, <2>1
  <1>12. Linked(ls2, rs2, da2)
    <2>1. ASSUME NEW u \in Spots(da2), NEW y \in SonsOf(ls2, rs2, u)
          PROVE  y \in In(da2) /\ da2[y] = u
      <3>1. u \in Spots(da) /\ u # p
        BY <1>9, <2>1
      <3>2. CASE y \in SonsOf(ls, rs, u)
        <4>1. y \in In(da) /\ da[y] = u /\ y # p /\ y \in Place
          BY <1>4, <1>11, <2>1, <3>1, <3>2
        <4>2. y # c
          BY <1>8, <3>1, <4>1, <1>7
        <4>3. QED
          BY <1>3, <1>9, <4>1, <4>2
      <3>3. CASE y = c /\ p \in SonsOf(ls, rs, u)
        <4>1. da[p] = u /\ c # NIL
          BY <1>4, <1>11, <2>1, <3>1, <3>3
        <4>2. c \in In(da) /\ c # p /\ c \in Place
          BY <1>7, <1>8, <4>1
        <4>3. QED
          BY <1>3, <1>9, <3>3, <4>1, <4>2
      <3>4. QED
        BY <1>11, <2>1, <3>1, <3>2, <3>3
    <2>2. ASSUME NEW y \in In(da2)
          PROVE  da2[y] \in Spots(da2) /\ y \in SonsOf(ls2, rs2, da2[y])
      <3>1. y \in In(da) /\ y # p /\ y \in Place /\ y # NIL
        BY <1>7, <1>9
      <3>2. CASE y = c
        <4>1. da2[y] = da[p] /\ da[p] \in Spots(da) /\ p \in SonsOf(ls, rs, da[p])
          BY <1>3, <1>7, <3>1, <3>2
        <4>2. da[p] # p
          BY <1>6, <4>1
        <4>3. y = ren(p)
          BY <3>2
        <4> HIDE DEF ren
        <4>4. QED
          BY <1>9, <1>10, <3>1, <4>1, <4>2, <4>3
      <3>3. CASE y # c
        <4>1. da2[y] = da[y] /\ da[y] \in Spots(da) /\ y \in SonsOf(ls, rs, da[y])
          BY <1>3, <1>7, <3>1, <3>3
        <4>2. da[y] # p
          BY <1>3, <3>3, <4>1
        <4>3. y = ren(y)
          BY <3>1
        <4> HIDE DEF ren
        <4>4. QED
          BY <1>9, <1>10, <3>1, <4>1, <4>2, <4>3
      <3>4. QED
        BY <3>2, <3>3
    <2>3. QED
      BY <2>1, <2>2 DEF Linked
  <1>13. Falls(ls2, rs2, da2, h, top)
    <2>1. ASSUME NEW u \in Spots(da2), NEW y \in SonsOf(ls2, rs2, u) PROVE h[y] < h[u]
      <3>1. u \in Spots(da) /\ u # p
        BY <1>9, <2>1
      <3>2. CASE y \in SonsOf(ls, rs, u)
        BY <1>5, <3>1, <3>2
      <3>3. CASE y = c /\ p \in SonsOf(ls, rs, u)
        <4>1. h[p] < h[u] /\ h[c] < h[p]
          BY <1>2, <1>5, <1>8, <1>11, <2>1, <3>1, <3>3
        <4>2. h \in [Nodes -> Nat] /\ c \in Nodes /\ u \in Nodes
          BY <1>1, <1>8, <1>11, <2>1, <3>1, <3>3, SpotsAre DEF Falls
        <4>3. QED
          BY <1>2, <3>3, <4>1, <4>2
      <3>4. QED
        BY <1>11, <2>1, <3>1, <3>2, <3>3
    <2>2. QED
      BY <1>1, <2>1 DEF Falls
  <1>14. \A u \in Nodes : D2[u] = D[u] \ {p}
    OBVIOUS
  <1>15. D2 \in [Nodes -> SUBSET Place]
    BY <1>1 DEF Holds
  <1> HIDE DEF D2
  <1>16. \A u \in Spots(da) : \A z \in Place :
            z \in D[u] <=> z = u \/ \E x \in SonsOf(ls, rs, u) : z \in D[x]
    BY <1>1 DEF Holds
  <1>17. c # NIL => D[c] \subseteq D[p]
    <2> SUFFICES ASSUME c # NIL PROVE D[c] \subseteq D[p]
      OBVIOUS
    <2>1. D[c] \subseteq Place
      BY <1>1, <1>8, SpotsAre DEF Holds
    <2>2. QED
      BY <1>2, <1>8, <1>16, <2>1
  <1>18. Holds(ls2, rs2, da2, D2)
    <2>1. ASSUME NEW u \in Spots(da2) PROVE D2[u] \subseteq In(da2)
      <3>1. u \in Spots(da) /\ u \in Nodes
        BY <1>9, SpotsAre
      <3>2. D[u] \subseteq In(da)
        BY <1>1, <3>1 DEF Holds
      <3>3. QED
        BY <1>9, <1>14, <3>1, <3>2
    <2>2. ASSUME NEW u \in Spots(da2), NEW z \in Place
          PROVE  z \in D2[u] <=> z = u \/ \E y \in SonsOf(ls2, rs2, u) : z \in D2[y]
      <3>1. u \in Spots(da) /\ u # p /\ u \in Nodes
        BY <1>9, SpotsAre
      <3>2. \A y \in SonsOf(ls2, rs2, u) : D2[y] = D[y] \ {p}
        <4> TAKE y \in SonsOf(ls2, rs2, u)
        <4>1. y \in Nodes
          BY <1>12, SpotsAre DEF Linked
        <4>2. QED
          BY <1>14, <4>1
      <3>3. D2[u] = D[u] \ {p}
        BY <1>14, <3>1
      <3>4. CASE z = p
        BY <3>1, <3>2, <3>3, <3>4
      <3>5. CASE z # p
        <4>1. ASSUME NEW y \in SonsOf(ls2, rs2, u), z \in D[y] PROVE z \in D[u]
          <5>1. CASE y \in SonsOf(ls, rs, u)
            BY <1>16, <3>1, <4>1, <5>1
          <5>2. CASE y = c /\ p \in SonsOf(ls, rs, u)
            <6>1. z \in D[p]
              BY <1>11, <1>17, <3>1, <4>1, <5>2
            <6>2. QED
              BY <1>16, <3>1, <5>2, <6>1
          <5>3. QED
            BY <1>11, <3>1, <4>1, <5>1, <5>2
        <4>2. ASSUME z \in D[u], z # u PROVE \E y \in SonsOf(ls2, rs2, u) : z \in D[y]
          <5>1. PICK x \in SonsOf(ls, rs, u) : z \in D[x]
            BY <1>16, <3>1, <4>2
          <5>2. x # NIL
            BY <1>4, <3>1
          <5>3. CASE x # p
            <6>1. x = ren(x)
              BY <5>3
            <6> HIDE DEF ren
            <6>2. x \in SonsOf(ls2, rs2, u)
              BY <1>10, <3>1, <5>2, <6>1
            <6>3. QED
              BY <5>1, <6>2
          <5>4. CASE x = p
            <6>1. PICK y \in SonsOf(ls, rs, p) : z \in D[y]
              BY <1>2, <1>16, <3>5, <5>1, <5>4
            <6>2. y = c /\ c # NIL
              BY <1>3, <6>1
            <6>3. c = ren(x)
              BY <5>4
            <6> HIDE DEF ren
            <6>4. c \in SonsOf(ls2, rs2, u)
              BY <1>10, <3>1, <6>2, <6>3
            <6>5. QED
              BY <6>1, <6>2, <6>4
          <5>5. QED
            BY <5>3, <5>4
        <4>3. z = u => z \in D[u]
          BY <1>16, <3>1
        <4>4. QED
          BY <3>2, <3>3, <3>5, <4>1, <4>2, <4>3
      <3>6. QED
        BY <3>4, <3>5
    <2>3. QED
      BY <1>15, <2>1, <2>2 DEF Holds
  <1>19. Ordered(buf, ls2, rs2, da2, D2)
    <2> SUFFICES ASSUME NEW u \in In(da2)
                 PROVE  /\ ls2[u] # NIL => \A y \in D2[ls2[u]] : Less(buf, y, u)
                        /\ rs2[u] # NIL => \A y \in D2[rs2[u]] : Less(buf, u, y)
      BY DEF Ordered
    <2>1. u \in In(da) /\ u # p /\ u \in Place /\ u \in Spots(da) /\ u \in Spots(da2)
      BY <1>9, SpotsAre
    <2>2. /\ ls[u] # NIL => \A y \in D[ls[u]] : Less(buf, y, u)
          /\ rs[u] # NIL => \A y \in D[rs[u]] : Less(buf, u, y)
      BY <1>1, <2>1 DEF Ordered
    <2>3. ls2[u] = ren(ls[u]) /\ rs2[u] = ren(rs[u])
      BY <1>3, <2>1
    <2>4. ASSUME ls2[u] # NIL PROVE ls[u] # NIL /\ D2[ls2[u]] \subseteq D[ls[u]]
      <3>1. ls2[u] \in SonsOf(ls2, rs2, u)
        BY <2>1, <2>4 DEF SonsOf
      <3>2. ls2[u] \in Nodes
        BY <1>12, <2>1, <3>1, SpotsAre DEF Linked
      <3>3. D2[ls2[u]] \subseteq D[ls2[u]]
        BY <1>14, <3>2
      <3>4. QED
        BY <1>2, <1>17, <2>3, <2>4, <3>3
    <2>5. ASSUME rs2[u] # NIL PROVE rs[u] # NIL /\ D2[rs2[u]] \subseteq D[rs[u]]
      <3>1. rs2[u] \in SonsOf(ls2, rs2, u)
        BY <2>1, <2>5 DEF SonsOf
      <3>2. rs2[u] \in Nodes
        BY <1>12, <2>1, <3>1, SpotsAre DEF Linked
      <3>3. D2[rs2[u]] \subseteq D[rs2[u]]
        BY <1>14, <3>2
      <3>4. QED
        BY <1>2, <1>17, <2>3, <2>5, <3>3
    <2>6. QED
      BY <2>2, <2>4, <2>5
  <1>20. Rooted(buf, da2, D2)
    <2> SUFFICES ASSUME NEW b \in Byte, NEW x \in Place
                 PROVE  x \in D2[Root(b)] <=> x \in In(da2) /\ buf[x] = b
      BY DEF Rooted
    <2>1. x \in D[Root(b)] <=> x \in In(da) /\ buf[x] = b
      BY <1>1 DEF Rooted
    <2>2. Root(b) \in Nodes
      BY SpotsAre DEF Roots
    <2>3. QED
      BY <1>9, <1>14, <2>1, <2>2
  <1>21. QED
    BY <1>1, <1>9, <1>12, <1>13, <1>18, <1>19, <1>20 DEF Shape, D2

-------------------------------------------------------------------------------
(* What is below something that is below u is below u.                       *)
LEMMA Nested ==
    ASSUME NEW buf, NEW ls, NEW rs, NEW da, NEW D, NEW h, NEW top,
           Shape(buf, ls, rs, da, D, h, top), NEW u \in Spots(da), NEW x \in D[u]
    PROVE  x \in In(da) /\ D[x] \subseteq D[u] /\ (x = u \/ h[x] < h[u])
  <1> DEFINE Below(v) == \A y \in D[v] : /\ y \in In(da) /\ D[y] \subseteq D[v]
                                         /\ y = v \/ h[y] < h[v]
             S == {v \in Spots(da) : Below(v)}
  <1>1. \A v \in Spots(da) : h[v] \in Nat
    BY SpotsAre DEF Shape, Falls
  <1>2. ASSUME NEW v \in Spots(da), \A y \in Spots(da) : h[y] < h[v] => y \in S
        PROVE  v \in S
    <2>1. \A y \in SonsOf(ls, rs, v) : y \in Spots(da) /\ h[y] < h[v]
      BY SpotsAre DEF Shape, Linked, Falls
    <2>2. ASSUME NEW y \in SonsOf(ls, rs, v)
          PROVE  D[y] \subseteq D[v] /\ Below(y)
      <3>1. y \in Spots(da) /\ h[y] < h[v]
        BY <2>1
      <3>2. Below(y)
        BY <1>2, <3>1
      <3>3. D[y] \subseteq Place
        BY <3>1, SpotsAre DEF Shape, Holds
      <3>4. QED
        BY <2>2, <3>2, <3>3 DEF Shape, Holds
    <2>3. ASSUME NEW y \in D[v]
          PROVE  y \in In(da) /\ D[y] \subseteq D[v] /\ (y = v \/ h[y] < h[v])
      <3>1. y \in In(da) /\ y \in Place
        BY SpotsAre DEF Shape, Holds
      <3>2. CASE y = v
        BY <3>1, <3>2
      <3>3. CASE y # v
        <4>1. PICK z \in SonsOf(ls, rs, v) : y \in D[z]
          BY <3>1, <3>3 DEF Shape, Holds
        <4>2. D[z] \subseteq D[v] /\ D[y] \subseteq D[z] /\ (y = z \/ h[y] < h[z])
          BY <2>2, <4>1
        <4>3. h[z] < h[v] /\ h[z] \in Nat /\ h[v] \in Nat /\ h[y] \in Nat
          BY <1>1, <2>1, <3>1, <4>1, SpotsAre
        <4>4. QED
          BY <3>1, <4>2, <4>3
      <3>4. QED
        BY <3>2, <3>3
    <2>4. QED
      BY <2>3
  <1> HIDE DEF S
  <1>3. Spots(da) \subseteq S
    BY <1>1, <1>2, DownInduction
  <1>4. QED
    BY <1>3 DEF S

(* What a tree says of a node, its father and its sons.                      *)
LEMMA Family ==
    ASSUME NEW buf \in Buffer, NEW ls, NEW rs, NEW da, NEW D, NEW h, NEW top,
           Shape(buf, ls, rs, da, D, h, top), NEW u \in In(da)
    PROVE  /\ u \in Place /\ u # NIL /\ u \in Spots(da) /\ u \in D[u] /\ D[u] \subseteq In(da)
           /\ da[u] \in Spots(da) /\ da[u] # u
           /\ rs[da[u]] = u \/ (da[u] \in Place /\ ls[da[u]] = u)
           /\ SonsOf(ls, rs, u) = {ls[u], rs[u]} \ {NIL}
           /\ ls[u] # NIL => /\ ls[u] \in In(da) /\ da[ls[u]] = u /\ ls[u] # u /\ ls[u] # rs[u]
                             /\ ls[u] \in D[ls[u]] /\ D[ls[u]] \subseteq D[u] /\ u \notin D[ls[u]]
                             /\ \A x \in D[ls[u]] : Less(buf, x, u)
           /\ rs[u] # NIL => /\ rs[u] \in In(da) /\ da[rs[u]] = u /\ rs[u] # u
                             /\ rs[u] \in D[rs[u]] /\ D[rs[u]] \subseteq D[u] /\ u \notin D[rs[u]]
                             /\ \A x \in D[rs[u]] : Less(buf, u, x)
  <1> USE DEF Shape
  <1>1. u \in Place /\ u # NIL /\ u \in Spots(da)
    BY SpotsAre
  <1>2. \A v \in Spots(da) : v \in Place => v \in D[v]
    BY DEF Holds
  <1>3. D[u] \subseteq In(da)
    BY <1>1 DEF Holds
  <1>4. SonsOf(ls, rs, u) = {ls[u], rs[u]} \ {NIL}
    BY <1>1 DEF SonsOf
  <1>5. da[u] \in Spots(da) /\ u \in SonsOf(ls, rs, da[u])
    BY DEF Linked
  <1>6. rs[da[u]] = u \/ (da[u] \in Place /\ ls[da[u]] = u)
    BY <1>5 DEF SonsOf
  <1>7. \A v \in Spots(da) : \A x \in SonsOf(ls, rs, v) :
           x \in In(da) /\ x \in Place /\ x \in Spots(da) /\ da[x] = v /\ h[x] < h[v] /\ h[v] \in Nat
    BY SpotsAre DEF Linked, Falls
  <1>8. da[u] # u
    BY <1>5, <1>7
  <1>9. ASSUME NEW x \in SonsOf(ls, rs, u)
        PROVE  x \in In(da) /\ x \in Place /\ da[x] = u /\ x # u /\ x \in D[x] /\ D[x] \subseteq D[u]
    <2>1. x \in In(da) /\ x \in Place /\ x \in Spots(da) /\ da[x] = u /\ x # u
      BY <1>1, <1>7, <1>9
    <2>2. D[x] \subseteq Place
      BY <2>1, SpotsAre DEF Holds
    <2>3. QED
      BY <1>1, <1>2, <1>9, <2>1, <2>2 DEF Holds
  <1>10. ~ Less(buf, u, u) /\ \A x \in Place : ~ (Less(buf, x, u) /\ Less(buf, u, x))
    BY <1>1, OneIsLess
  <1>11. ls[u] # NIL => \A x \in D[ls[u]] : Less(buf, x, u)
    BY DEF Ordered
  <1>12. rs[u] # NIL => \A x \in D[rs[u]] : Less(buf, u, x)
    BY DEF Ordered
  <1>13. ls[u] # NIL => ls[u] \in SonsOf(ls, rs, u)
    BY <1>4
  <1>14. rs[u] # NIL => rs[u] \in SonsOf(ls, rs, u)
    BY <1>4
  <1>15. ls[u] # NIL => ls[u] # rs[u]
    BY <1>9, <1>10, <1>11, <1>12, <1>13
  <1>16. QED
    BY <1>1, <1>2, <1>3, <1>4, <1>5, <1>6, <1>8, <1>9, <1>10, <1>11, <1>12, <1>13, <1>14, <1>15

-------------------------------------------------------------------------------
(* DeleteNode()'s way to the right.                                          *)
Downward(t) ==
    CHOOSE f : f = [q \in InTrees(t) |-> IF t.rson[q] = NIL THEN q ELSE f[t.rson[q]]]

(* The function that Greatest() is defined by is there.                      *)
LEMMA DownwardIs ==
    ASSUME NEW buf \in Buffer, NEW t, NEW D, NEW h, NEW top,
           Shape(buf, t.lson, t.rson, t.dad, D, h, top)
    PROVE  Downward(t) = [q \in In(t.dad) |->
                            IF t.rson[q] = NIL THEN q ELSE Downward(t)[t.rson[q]]]
  <1> DEFINE X == In(t.dad)
             Ends == {q \in X : t.rson[q] = NIL}
             to == [q \in X |-> t.rson[q]]
  <1>1. X = InTrees(t)
    BY DEF In, InTrees
  <1>2. \A x \in X : h[x] \in Nat /\ h[x] =< top
    BY SpotsAre DEF Shape, Falls
  <1>3. \A x \in X \ Ends : to[x] \in X /\ h[to[x]] < h[x]
    <2> TAKE x \in X \ Ends
    <2>1. x \in Spots(t.dad) /\ t.rson[x] \in SonsOf(t.lson, t.rson, x)
      BY Family
    <2>2. QED
      BY <2>1 DEF Shape, Linked, Falls
  <1>4. top \in Nat
    BY DEF Shape, Falls
  <1> HIDE DEF X
  <1>5. PICK w : WayDown(w, X, Ends, to)
    <2> HIDE DEF Ends, to
    <2>1. QED
      BY <1>2, <1>3, <1>4, PathsExist
  <1>6. \A x \in X : w[x] = IF x \in Ends THEN <<x>> ELSE <<x>> \o w[to[x]]
    <2> HIDE DEF Ends, to
    <2>1. QED
      BY <1>5 DEF WayDown
  <1> DEFINE S == {x \in X : w[x] \in Seq(X) /\ Len(w[x]) \in Nat \ {0}}
  <1>7. ASSUME NEW x \in X, \A y \in X : h[y] < h[x] => y \in S PROVE x \in S
    <2>1. CASE x \in Ends
      <3>1. w[x] = <<x>>
        BY <1>6, <2>1
      <3>2. w[x] \in Seq(X) /\ Len(w[x]) = 1
        BY <3>1
      <3>3. Len(w[x]) \in Nat \ {0}
        BY <3>2
      <3>4. w[x] \in Seq(X)
        BY <3>2
      <3> HIDE DEF Ends, to
      <3>5. QED
        BY <3>3, <3>4
    <2>2. CASE x \notin Ends
      <3> DEFINE y == to[x]
      <3>1. w[x] = <<x>> \o w[y] /\ y \in S
        <4> HIDE DEF Ends, to, S
        <4>1. QED
          BY <1>3, <1>6, <1>7, <2>2
      <3>2. w[y] \in Seq(X) /\ Len(w[y]) \in Nat
        BY <3>1
      <3> HIDE DEF y
      <3>3. w[x] \in Seq(X) /\ Len(w[x]) = 1 + Len(w[y])
        BY <3>1, <3>2
      <3>4. QED
        BY <3>2, <3>3
    <2>3. QED
      BY <2>1, <2>2
  <1> HIDE DEF S
  <1>8. X \subseteq S
    BY <1>2, <1>7, DownInduction
  <1> DEFINE f == [x \in X |-> w[x][Len(w[x])]]
  <1>9. ASSUME NEW x \in X PROVE f[x] = IF t.rson[x] = NIL THEN x ELSE f[t.rson[x]]
    <2>1. CASE x \in Ends
      <3>1. w[x] = <<x>>
        BY <1>6, <2>1
      <3>2. w[x][Len(w[x])] = x
        BY <3>1
      <3>3. QED
        BY <2>1, <3>2
    <2>2. CASE x \notin Ends
      <3> DEFINE y == t.rson[x]
      <3>1. y \in X /\ y # NIL /\ w[x] = <<x>> \o w[y]
        BY <1>3, <1>6, <2>2
      <3> HIDE DEF y
      <3>2. w[y] \in Seq(X) /\ Len(w[y]) \in Nat \ {0}
        BY <1>8, <3>1 DEF S
      <3>3. w[x][Len(w[x])] = w[y][Len(w[y])]
        BY <3>1, <3>2
      <3>4. QED
        BY <3>1, <3>3 DEF y
    <2>3. QED
      BY <2>1, <2>2
  <1>10. f = [x \in X |-> IF t.rson[x] = NIL THEN x ELSE f[t.rson[x]]]
    <2>1. f = [x \in X |-> f[x]]
      OBVIOUS
    <2> HIDE DEF f
    <2>2. QED
      BY <1>9, <2>1
  <1> HIDE DEF f
  <1>11. QED
    BY <1>1, <1>10 DEF Downward, X

(* It ends at the greatest.                                                  *)
IsGreatest(buf, t, D, u, g) ==
    /\ g \in D[u] /\ t.rson[g] = NIL
    /\ \A x \in D[u] : x = g \/ Less(buf, x, g)
    /\ g = u \/ (t.dad[g] \in D[u] /\ t.rson[t.dad[g]] = g)

(* DeleteNode()'s loop down the right sons finds the greatest place on the left. *)
LEMMA GreatestIs ==
    ASSUME NEW buf \in Buffer, NEW t, NEW D, NEW h, NEW top,
           Shape(buf, t.lson, t.rson, t.dad, D, h, top), NEW u \in In(t.dad)
    PROVE  IsGreatest(buf, t, D, u, Greatest(t, u))
  <1> DEFINE f == Downward(t)
             S == {v \in In(t.dad) : IsGreatest(buf, t, D, v, f[v])}
  <1>1. Greatest(t, u) = f[u]
    BY DEF Greatest, Downward
  <1>2. f = [q \in In(t.dad) |-> IF t.rson[q] = NIL THEN q ELSE f[t.rson[q]]]
    BY DownwardIs
  <1> HIDE DEF f
  <1>3. \A v \in In(t.dad) : h[v] \in Nat
    BY SpotsAre DEF Shape, Falls
  <1>4. ASSUME NEW v \in In(t.dad), \A y \in In(t.dad) : h[y] < h[v] => y \in S
        PROVE  v \in S
    <2>1. /\ v \in Place /\ v # NIL /\ v \in Spots(t.dad) /\ v \in D[v] /\ D[v] \subseteq In(t.dad)
          /\ SonsOf(t.lson, t.rson, v) = {t.lson[v], t.rson[v]} \ {NIL}
          /\ t.lson[v] # NIL => \A x \in D[t.lson[v]] : Less(buf, x, v)
      BY Family
    <2>2. \A x \in D[v] : \/ x = v
                          \/ t.lson[v] # NIL /\ x \in D[t.lson[v]]
                          \/ t.rson[v] # NIL /\ x \in D[t.rson[v]]
      <3>1. \A x \in D[v] : x \in Place
        BY <2>1, SpotsAre
      <3>2. \A x \in D[v] : x = v \/ \E y \in SonsOf(t.lson, t.rson, v) : x \in D[y]
        BY <2>1, <3>1 DEF Shape, Holds
      <3>3. QED
        BY <2>1, <3>2
    <2>3. CASE t.rson[v] = NIL
      <3>1. f[v] = v
        BY <1>2, <2>3
      <3>2. QED
        BY <2>1, <2>2, <2>3, <3>1 DEF IsGreatest
    <2>4. CASE t.rson[v] # NIL
      <3> DEFINE y == t.rson[v]
                 g == f[y]
      <3>1. f[v] = g
        BY <1>2, <2>4
      <3>2. /\ y \in In(t.dad) /\ t.dad[y] = v /\ y \in D[y] /\ D[y] \subseteq D[v]
            /\ \A x \in D[y] : Less(buf, v, x)
        BY <2>4, Family
      <3>3. h[y] < h[v]
        BY <2>1, <2>4 DEF Shape, Falls
      <3>4. IsGreatest(buf, t, D, y, g)
        BY <1>4, <3>2, <3>3
      <3> HIDE DEF g
      <3>5. /\ g \in D[y] /\ t.rson[g] = NIL
            /\ \A x \in D[y] : x = g \/ Less(buf, x, g)
            /\ g = y \/ (t.dad[g] \in D[y] /\ t.rson[t.dad[g]] = g)
        BY <3>4 DEF IsGreatest
      <3>6. \A x \in D[v] : x \in Place
        BY <2>1, SpotsAre
      <3>7. g \in D[v] /\ Less(buf, v, g)
        BY <3>2, <3>5
      <3>8. \A x \in D[v] : x = g \/ Less(buf, x, g)
        <4> TAKE x \in D[v]
        <4>1. CASE t.lson[v] # NIL /\ x \in D[t.lson[v]]
          <5>1. Less(buf, x, v)
            BY <2>1, <4>1
          <5>2. QED
            BY <2>1, <3>6, <3>7, <5>1, LessThrough
        <4>2. QED
          BY <2>2, <3>5, <3>7, <4>1
      <3>9. t.dad[g] \in D[v] /\ t.rson[t.dad[g]] = g
        BY <2>1, <3>2, <3>5
      <3>10. QED
        BY <3>1, <3>5, <3>7, <3>8, <3>9 DEF IsGreatest
    <2>5. QED
      BY <2>3, <2>4
  <1> HIDE DEF S
  <1>5. In(t.dad) \subseteq S
    BY <1>3, <1>4, DownInduction
  <1>6. QED
    BY <1>1, <1>5 DEF S

-------------------------------------------------------------------------------
(* DeleteNode().                                                             *)

(* Whose son p is.                                                           *)
LEMMA FatherIs ==
    ASSUME NEW buf \in Buffer, NEW ls, NEW rs, NEW da, NEW D, NEW h, NEW top,
           Shape(buf, ls, rs, da, D, h, top), NEW p \in In(da)
    PROVE  /\ \A u \in In(da) : ls[u] = p <=> u = da[p] /\ rs[da[p]] # p
           /\ \A u \in Spots(da) : rs[u] = p <=> u = da[p] /\ rs[da[p]] = p
           /\ rs[da[p]] # p => da[p] \in In(da)
  <1>1. /\ p # NIL /\ da[p] \in Spots(da)
        /\ rs[da[p]] = p \/ (da[p] \in Place /\ ls[da[p]] = p)
    BY Family
  <1>2. rs[da[p]] # p => da[p] \in In(da) /\ ls[da[p]] = p
    BY <1>1, SpotsAre
  <1>3. ASSUME NEW u \in In(da), ls[u] = p PROVE u = da[p] /\ rs[da[p]] # p
    BY <1>1, <1>3, Family
  <1>4. ASSUME NEW u \in Spots(da), rs[u] = p PROVE u = da[p]
    <2>1. p \in SonsOf(ls, rs, u)
      BY <1>1, <1>4 DEF SonsOf
    <2>2. QED
      BY <2>1 DEF Shape, Linked
  <1>5. QED
    BY <1>2, <1>3, <1>4

(* What Replaced() assigns.                                                  *)
LEMMA ReplacedIs ==
    ASSUME NEW t \in Trees, NEW p \in Place, NEW q \in 0 .. N,
           NEW up, up = t.dad[p], up \in Place \/ up \in Roots,
           t.rson[up] # p => up \in Place,
           NEW t2, t2 = Replaced(t, p, q)
    PROVE  /\ t2 \in Trees
           /\ \A x \in 0 .. N :
                t2.dad[x] = IF x = p THEN NIL ELSE IF x = q THEN up ELSE t.dad[x]
           /\ \A u \in 0 .. N :
                t2.lson[u] = IF u = up /\ t.rson[up] # p THEN q ELSE t.lson[u]
           /\ \A u \in Nodes :
                t2.rson[u] = IF u = up /\ t.rson[up] = p THEN q ELSE t.rson[u]
  <1> DEFINE ls == t.lson
             rs == t.rson
             da == t.dad
             d1 == [da EXCEPT ![q] = up]
             d2 == [d1 EXCEPT ![p] = NIL]
             u1 == [t EXCEPT !.dad[q] = up]
             v == [t EXCEPT !.dad[q] = up, !.dad[p] = NIL]
  <1>1. /\ ls \in [0 .. N -> 0 .. N] /\ rs \in [Nodes -> 0 .. N] /\ da \in [0 .. N -> Nodes]
        /\ t = [lson |-> ls, rson |-> rs, dad |-> da]
    BY DEF Trees
  <1>2. /\ NIL \in 0 .. N /\ NIL \in Nodes /\ up \in Nodes /\ p \in 0 .. N /\ p \in Nodes
        /\ up \in Place => up \in 0 .. N
    BY SpotsAre
  <1>3. v = [lson |-> ls, rson |-> rs, dad |-> d2]
    <2>1. v = [u1 EXCEPT !.dad[p] = NIL]
      OBVIOUS
    <2>2. u1 = [lson |-> ls, rson |-> rs, dad |-> d1]
      <3>1. t = [lson |-> ls, rson |-> rs, dad |-> da] /\ da \in [0 .. N -> Nodes]
        BY <1>1
      <3> HIDE DEF ls, rs, da
      <3>2. QED
        BY <3>1
    <2> HIDE DEF u1, v, ls, rs, da
    <2>3. QED
      BY <2>1, <2>2
  <1>4. /\ d2 \in [0 .. N -> Nodes]
        /\ \A x \in 0 .. N : d2[x] = IF x = p THEN NIL ELSE IF x = q THEN up ELSE da[x]
    BY <1>1, <1>2
  <1>5. t2 = IF rs[up] = p THEN [v EXCEPT !.rson[up] = q] ELSE [v EXCEPT !.lson[up] = q]
    BY DEF Replaced
  <1> HIDE DEF v, d2, ls, rs, da
  <1>6. CASE rs[up] = p
    <2>1. t2 = [lson |-> ls, rson |-> [rs EXCEPT ![up] = q], dad |-> d2]
      BY <1>3, <1>5, <1>6
    <2>2. t2 \in Trees
      BY <1>1, <1>2, <1>4, <2>1 DEF Trees
    <2>3. t2.dad = d2 /\ t2.lson = ls /\ t2.rson = [rs EXCEPT ![up] = q]
      BY <2>1
    <2>4. \A u \in Nodes : t2.rson[u] = IF u = up THEN q ELSE rs[u]
      BY <1>1, <1>2, <2>3
    <2>5. QED
      BY <1>4, <1>6, <2>2, <2>3, <2>4 DEF ls, rs, da
  <1>7. CASE rs[up] # p
    <2>1. t2 = [lson |-> [ls EXCEPT ![up] = q], rson |-> rs, dad |-> d2]
      BY <1>3, <1>5, <1>7
    <2>2. t2 \in Trees
      BY <1>1, <1>2, <1>4, <2>1, SMTT(60) DEF Trees
    <2>3. t2.dad = d2 /\ t2.rson = rs /\ t2.lson = [ls EXCEPT ![up] = q]
      BY <2>1
    <2>4. \A u \in 0 .. N : t2.lson[u] = IF u = up THEN q ELSE ls[u]
      BY <1>1, <1>2, <1>7, <2>3 DEF ls, rs
    <2>5. QED
      BY <1>4, <1>7, <2>2, <2>3, <2>4 DEF ls, rs, da
  <1>8. QED
    BY <1>6, <1>7

(* The trees are good, and hold S.                                           *)
GoodWith(buf, t, S) == Good(buf, t) /\ InTrees(t) = S

(* The two ways to say which places are in the trees.                        *)
LEMMA InIs == ASSUME NEW t PROVE InTrees(t) = In(t.dad)
  BY DEF InTrees, In

(* p has at most the son c.                                                  *)
LEMMA CutGood ==
    ASSUME NEW buf \in Buffer, NEW t \in Trees, NEW D, NEW h, NEW top,
           Shape(buf, t.lson, t.rson, t.dad, D, h, top), NEW p \in In(t.dad),
           NEW c \in 0 .. N, SonsOf(t.lson, t.rson, p) = {c} \ {NIL}
    PROVE  GoodWith(buf, Replaced(t, p, c), InTrees(t) \ {p})
  <1> DEFINE ls == t.lson
             rs == t.rson
             da == t.dad
             t2 == Replaced(t, p, c)
             up == da[p]
  <1>1. /\ p \in Place /\ p # NIL /\ up \in Spots(da) /\ up # p
    BY Family
  <1>2. /\ \A u \in In(da) : ls[u] = p <=> u = up /\ rs[up] # p
        /\ \A u \in Spots(da) : rs[u] = p <=> u = up /\ rs[up] = p
        /\ rs[up] # p => up \in In(da)
    BY FatherIs
  <1>3. c # p
    <2>1. p \notin SonsOf(ls, rs, p)
      BY Family
    <2>2. QED
      BY <1>1, <2>1
  <1>4. /\ \A u \in In(da) : u \in Place /\ u \in 0 .. N
        /\ \A u \in Spots(da) : u \in Nodes
        /\ up \in Place \/ up \in Roots
        /\ Place \subseteq 0 .. N
    BY <1>1, SpotsAre
  <1>5. /\ t2 \in Trees
        /\ \A x \in 0 .. N :
             t2.dad[x] = IF x = p THEN NIL ELSE IF x = c THEN up ELSE da[x]
        /\ \A u \in 0 .. N :
             t2.lson[u] = IF u = up /\ rs[up] # p THEN c ELSE ls[u]
        /\ \A u \in Nodes :
             t2.rson[u] = IF u = up /\ rs[up] = p THEN c ELSE rs[u]
    BY <1>1, <1>2, <1>4, ReplacedIs
  <1> HIDE DEF t2
  <1>6. Arrays(t2.lson, t2.rson, t2.dad)
    BY <1>5 DEF Trees, Arrays
  <1>7. CutSays(ls, rs, da, p, c, t2.lson, t2.rson, t2.dad)
    <2>1. \A x \in Place : t2.dad[x] = IF x = p THEN NIL ELSE IF x = c THEN da[p] ELSE da[x]
      BY <1>4, <1>5
    <2>2. \A u \in In(da) \ {p} : t2.lson[u] = IF ls[u] = p THEN c ELSE ls[u]
      BY <1>2, <1>4, <1>5
    <2>3. \A u \in Spots(da) \ {p} : t2.rson[u] = IF rs[u] = p THEN c ELSE rs[u]
      BY <1>2, <1>4, <1>5
    <2>4. QED
      BY <1>6, <2>1, <2>2, <2>3 DEF CutSays
  <1>8. /\ In(t2.dad) = In(da) \ {p}
        /\ Shape(buf, t2.lson, t2.rson, t2.dad, [u \in Nodes |-> D[u] \ {p}], h, top)
    BY <1>7, CutStep
  <1>9. QED
    BY <1>5, <1>8, InIs DEF Good, GoodWith, t2

(* One assignment to each of the arrays.                                     *)
IsSetRson(t, x, y, t2) == t2 = [t EXCEPT !.rson[x] = y]
IsSetLson(t, x, y, t2) == t2 = [t EXCEPT !.lson[x] = y]
IsSetDad(t, x, y, t2)  == t2 = [t EXCEPT !.dad[x] = y]

(* An assignment to rson[x].                                                 *)
LEMMA SetRson ==
    ASSUME NEW t \in Trees, NEW x \in Nodes, NEW y \in 0 .. N,
           NEW t2, IsSetRson(t, x, y, t2)
    PROVE  /\ t2 \in Trees /\ t2.lson = t.lson /\ t2.dad = t.dad
           /\ \A u \in Nodes : t2.rson[u] = IF u = x THEN y ELSE t.rson[u]
  <1>1. /\ t2 = [lson |-> t.lson, rson |-> [t.rson EXCEPT ![x] = y], dad |-> t.dad]
        /\ t.rson \in [Nodes -> 0 .. N]
        /\ t.lson \in [0 .. N -> 0 .. N] /\ t.dad \in [0 .. N -> Nodes]
    BY DEF Trees, IsSetRson
  <1>2. t2.lson = t.lson /\ t2.dad = t.dad /\ t2.rson = [t.rson EXCEPT ![x] = y]
    BY <1>1
  <1>3. [t.rson EXCEPT ![x] = y] \in [Nodes -> 0 .. N]
    BY <1>1
  <1>4. t2 \in Trees
    BY <1>1, <1>3 DEF Trees
  <1>5. QED
    BY <1>1, <1>2, <1>4

(* An assignment to lson[x].                                                 *)
LEMMA SetLson ==
    ASSUME NEW t \in Trees, NEW x \in 0 .. N, NEW y \in 0 .. N,
           NEW t2, IsSetLson(t, x, y, t2)
    PROVE  /\ t2 \in Trees /\ t2.rson = t.rson /\ t2.dad = t.dad
           /\ \A u \in 0 .. N : t2.lson[u] = IF u = x THEN y ELSE t.lson[u]
  <1>1. /\ t2 = [lson |-> [t.lson EXCEPT ![x] = y], rson |-> t.rson, dad |-> t.dad]
        /\ t.rson \in [Nodes -> 0 .. N]
        /\ t.lson \in [0 .. N -> 0 .. N] /\ t.dad \in [0 .. N -> Nodes]
    BY DEF Trees, IsSetLson
  <1>2. t2.rson = t.rson /\ t2.dad = t.dad /\ t2.lson = [t.lson EXCEPT ![x] = y]
    BY <1>1
  <1>3. [t.lson EXCEPT ![x] = y] \in [0 .. N -> 0 .. N]
    BY <1>1
  <1>4. t2 \in Trees
    BY <1>1, <1>3 DEF Trees
  <1>5. QED
    BY <1>1, <1>2, <1>4

(* An assignment to dad[x].                                                  *)
LEMMA SetDad ==
    ASSUME NEW t \in Trees, NEW x \in 0 .. N, NEW y \in Nodes,
           NEW t2, IsSetDad(t, x, y, t2)
    PROVE  /\ t2 \in Trees /\ t2.lson = t.lson /\ t2.rson = t.rson
           /\ \A u \in 0 .. N : t2.dad[u] = IF u = x THEN y ELSE t.dad[u]
  <1>1. /\ t2 = [lson |-> t.lson, rson |-> t.rson, dad |-> [t.dad EXCEPT ![x] = y]]
        /\ t.rson \in [Nodes -> 0 .. N]
        /\ t.lson \in [0 .. N -> 0 .. N] /\ t.dad \in [0 .. N -> Nodes]
    BY DEF Trees, IsSetDad
  <1>2. t2.rson = t.rson /\ t2.lson = t.lson /\ t2.dad = [t.dad EXCEPT ![x] = y]
    BY <1>1
  <1>3. [t.dad EXCEPT ![x] = y] \in [0 .. N -> Nodes]
    BY <1>1
  <1>4. t2 \in Trees
    BY <1>1, <1>3 DEF Trees
  <1>5. QED
    BY <1>1, <1>2, <1>4

(* The sons of p, that has two, and what else it had, become those of q, the *)
(* greatest on its left, whose only son takes the place of q.                *)
Moved(t, p, q) ==
    LET u == IF q = t.lson[p] THEN t
             ELSE [t EXCEPT !.rson[t.dad[q]] = t.lson[q],
                            !.dad[t.lson[q]] = t.dad[q],
                            !.lson[q] = t.lson[p], !.dad[t.lson[p]] = q]
    IN  [u EXCEPT !.rson[q] = t.rson[p], !.dad[t.rson[p]] = q]

(* What DeleteNode()'s assignments make of the arrays.                       *)
LEMMA MovedIs ==
    ASSUME NEW t \in Trees, NEW p \in Place, NEW q \in Place,
           NEW v, v = Moved(t, p, q)
    PROVE  /\ v \in Trees
           /\ \A x \in 0 .. N :
                v.dad[x] = IF x = t.rson[p] THEN q
                           ELSE IF q = t.lson[p] THEN t.dad[x]
                           ELSE IF x = t.lson[p] THEN q
                           ELSE IF x = t.lson[q] THEN t.dad[q] ELSE t.dad[x]
           /\ \A x \in 0 .. N :
                v.lson[x] = IF x = q /\ q # t.lson[p] THEN t.lson[p] ELSE t.lson[x]
           /\ \A x \in Nodes :
                v.rson[x] = IF x = q THEN t.rson[p]
                            ELSE IF q # t.lson[p] /\ x = t.dad[q] THEN t.lson[q]
                            ELSE t.rson[x]
  <1> DEFINE ls == t.lson
             rs == t.rson
             da == t.dad
  <1>1. /\ p \in 0 .. N /\ q \in 0 .. N /\ p \in Nodes /\ q \in Nodes
        /\ ls[p] \in 0 .. N /\ rs[p] \in 0 .. N /\ ls[q] \in 0 .. N /\ da[q] \in Nodes
        /\ 0 .. N \subseteq Nodes
    BY SpotsAre DEF Trees
  <1> DEFINE t1 == [t EXCEPT !.rson[da[q]] = ls[q]]
             t2 == [t1 EXCEPT !.dad[ls[q]] = da[q]]
             t3 == [t2 EXCEPT !.lson[q] = ls[p]]
             t4 == [t3 EXCEPT !.dad[ls[p]] = q]
             t5 == IF q = ls[p] THEN t ELSE t4
             t6 == [t5 EXCEPT !.rson[q] = rs[p]]
             t7 == [t6 EXCEPT !.dad[rs[p]] = q]
  <1>2. v = t7
    BY DEF Moved
  <1>3. /\ IsSetRson(t, da[q], ls[q], t1) /\ IsSetDad(t1, ls[q], da[q], t2)
        /\ IsSetLson(t2, q, ls[p], t3) /\ IsSetDad(t3, ls[p], q, t4)
        /\ IsSetRson(t5, q, rs[p], t6) /\ IsSetDad(t6, rs[p], q, t7)
        /\ t5 = IF q = ls[p] THEN t ELSE t4
    BY DEF IsSetRson, IsSetLson, IsSetDad
  <1> HIDE DEF t1, t2, t3, t4, t5, t6, t7
  <1>4. /\ t1 \in Trees /\ t1.lson = t.lson /\ t1.dad = t.dad
        /\ \A u \in Nodes : t1.rson[u] = IF u = da[q] THEN ls[q] ELSE t.rson[u]
    <2> DEFINE c == ls[q]
               f == da[q]
    <2>1. c \in 0 .. N /\ f \in Nodes
      BY <1>1
    <2>2. IsSetRson(t, f, c, t1)
      BY <1>3
    <2> HIDE DEF c, f
    <2>3. /\ t1 \in Trees /\ t1.lson = t.lson /\ t1.dad = t.dad
          /\ \A u \in Nodes : t1.rson[u] = IF u = f THEN c ELSE t.rson[u]
      BY <2>1, <2>2, SetRson
    <2>4. QED
      BY <2>3 DEF c, f
  <1>5. /\ t2 \in Trees /\ t2.lson = t1.lson /\ t2.rson = t1.rson
        /\ \A u \in 0 .. N : t2.dad[u] = IF u = ls[q] THEN da[q] ELSE t1.dad[u]
    <2> DEFINE c == ls[q]
               f == da[q]
    <2>1. c \in 0 .. N /\ f \in Nodes
      BY <1>1
    <2>2. IsSetDad(t1, c, f, t2)
      BY <1>3
    <2> HIDE DEF c, f
    <2>3. /\ t2 \in Trees /\ t2.lson = t1.lson /\ t2.rson = t1.rson
          /\ \A u \in 0 .. N : t2.dad[u] = IF u = c THEN f ELSE t1.dad[u]
      BY <1>4, <2>1, <2>2, SetDad
    <2>4. QED
      BY <2>3 DEF c, f
  <1>6. /\ t3 \in Trees /\ t3.rson = t2.rson /\ t3.dad = t2.dad
        /\ \A u \in 0 .. N : t3.lson[u] = IF u = q THEN ls[p] ELSE t2.lson[u]
    BY <1>1, <1>5, <1>3, SetLson
  <1>7. /\ t4 \in Trees /\ t4.lson = t3.lson /\ t4.rson = t3.rson
        /\ \A u \in 0 .. N : t4.dad[u] = IF u = ls[p] THEN q ELSE t3.dad[u]
    BY <1>1, <1>6, <1>3, SetDad
  <1>8. /\ t5 \in Trees
        /\ \A x \in 0 .. N :
             t5.dad[x] = IF q = ls[p] THEN da[x] ELSE IF x = ls[p] THEN q
                         ELSE IF x = ls[q] THEN da[q] ELSE da[x]
        /\ \A x \in 0 .. N : t5.lson[x] = IF x = q /\ q # ls[p] THEN ls[p] ELSE ls[x]
        /\ \A x \in Nodes :
             t5.rson[x] = IF q # ls[p] /\ x = da[q] THEN ls[q] ELSE rs[x]
    <2>1. CASE q = ls[p]
      BY <1>3, <2>1
    <2>2. CASE q # ls[p]
      <3>1. t5 = t4
        BY <1>3, <2>2
      <3> HIDE DEF ls, rs, da
      <3>2. t4 \in Trees
        BY <1>7
      <3>3. \A x \in 0 .. N : t4.dad[x] = IF x = ls[p] THEN q ELSE IF x = ls[q] THEN da[q] ELSE da[x]
        BY <1>4, <1>5, <1>6, <1>7 DEF da
      <3>4. \A x \in 0 .. N : t4.lson[x] = IF x = q THEN ls[p] ELSE ls[x]
        BY <1>4, <1>5, <1>6, <1>7 DEF ls
      <3>5. \A x \in Nodes : t4.rson[x] = IF x = da[q] THEN ls[q] ELSE rs[x]
        BY <1>4, <1>5, <1>6, <1>7 DEF rs
      <3>6. QED
        BY <2>2, <3>1, <3>2, <3>3, <3>4, <3>5
    <2>3. QED
      BY <2>1, <2>2
  <1>9. /\ t6 \in Trees /\ t6.lson = t5.lson /\ t6.dad = t5.dad
        /\ \A u \in Nodes : t6.rson[u] = IF u = q THEN rs[p] ELSE t5.rson[u]
    BY <1>1, <1>8, <1>3, SetRson
  <1>10. /\ t7 \in Trees /\ t7.lson = t6.lson /\ t7.rson = t6.rson
        /\ \A u \in 0 .. N : t7.dad[u] = IF u = rs[p] THEN q ELSE t6.dad[u]
    BY <1>1, <1>9, <1>3, SetDad
  <1>11. QED
    BY <1>2, <1>8, <1>9, <1>10

(* p has two sons, and q is the greatest on its left.                        *)
LEMMA TwoSons ==
    ASSUME NEW buf \in Buffer, NEW t \in Trees, NEW D, NEW h, NEW top,
           Shape(buf, t.lson, t.rson, t.dad, D, h, top), NEW p \in In(t.dad),
           t.lson[p] # NIL, t.rson[p] # NIL,
           NEW q, IsGreatest(buf, t, D, t.lson[p], q)
    PROVE  GoodWith(buf, Replaced(Moved(t, p, q), p, q), InTrees(t) \ {p})
  <1> DEFINE ls == t.lson
             rs == t.rson
             da == t.dad
             l == ls[p]
             c == ls[q]
             f == da[q]
             up == da[p]
             v == Moved(t, p, q)
             t2 == Replaced(v, p, q)
  <1>1. /\ p \in Place /\ p # NIL /\ p \in Spots(da) /\ p \in D[p] /\ D[p] \subseteq In(da)
        /\ up \in Spots(da) /\ up # p
        /\ l \in In(da) /\ da[l] = p /\ l # p /\ l # rs[p] /\ l \in D[l]
        /\ D[l] \subseteq D[p] /\ p \notin D[l] /\ \A x \in D[l] : Less(buf, x, p)
        /\ rs[p] \in In(da) /\ da[rs[p]] = p /\ rs[p] # p /\ rs[p] \in D[rs[p]]
        /\ D[rs[p]] \subseteq D[p] /\ \A x \in D[rs[p]] : Less(buf, p, x)
    BY Family
  <1>2. /\ \A u \in In(da) : u \in Place /\ u # NIL /\ u \in Spots(da) /\ u \in 0 .. N
        /\ \A u \in Spots(da) : u \in Nodes /\ u # NIL
        /\ up \in Place \/ up \in Roots
        /\ up \in Nodes
    BY <1>1, SpotsAre
  <1>3. /\ q \in D[l] /\ rs[q] = NIL
        /\ \A x \in D[l] : x = q \/ Less(buf, x, q)
        /\ q = l \/ (f \in D[l] /\ rs[f] = q)
    BY DEF IsGreatest
  <1>4. q \in In(da) /\ q \in Place /\ q # p /\ Less(buf, q, p)
    BY <1>1, <1>2, <1>3
  <1>5. q \notin D[rs[p]] /\ q # rs[p]
    <2>1. ~ (Less(buf, q, p) /\ Less(buf, p, q))
      BY <1>1, <1>4, OneIsLess
    <2>2. QED
      BY <1>1, <1>4, <2>1
  <1>6. up \notin D[p]
    <2> SUFFICES ASSUME up \in D[p] PROVE FALSE
      OBVIOUS
    <2>1. h[up] < h[p]
      BY <1>1, Nested
    <2>2. p \in SonsOf(ls, rs, up)
      BY DEF Shape, Linked
    <2>3. h[p] < h[up] /\ h[p] \in Nat /\ h[up] \in Nat
      BY <1>1, <1>2, <2>2 DEF Shape, Falls
    <2>4. QED
      BY <2>1, <2>3
  <1>7. /\ up # q /\ (q # l => up # f /\ f # p /\ f \in In(da))
        /\ q = l => f = p
    BY <1>1, <1>3, <1>6
  <1>8. c # NIL => c \in In(da) /\ da[c] = q /\ D[c] \subseteq D[q] /\ c \in D[c] /\ c # q
    BY <1>4, Family
  <1>9. D[q] \subseteq D[l]
    BY <1>1, <1>2, <1>3, Nested
  <1>10. c # l /\ c # rs[p] /\ c # p /\ c # q
    BY <1>1, <1>2, <1>4, <1>8, <1>9
  <1>11. c \in 0 .. N /\ f \in Nodes /\ q \in 0 .. N /\ ls[p] \in 0 .. N /\ rs[p] \in 0 .. N
    BY <1>2, <1>4, SpotsAre DEF Trees
  <1>12. /\ v \in Trees
         /\ \A x \in 0 .. N :
              v.dad[x] = IF x = rs[p] THEN q ELSE IF q = l THEN da[x]
                         ELSE IF x = l THEN q ELSE IF x = c THEN f ELSE da[x]
         /\ \A x \in 0 .. N : v.lson[x] = IF x = q /\ q # l THEN l ELSE ls[x]
         /\ \A x \in Nodes :
              v.rson[x] = IF x = q THEN rs[p] ELSE IF q # l /\ x = f THEN c ELSE rs[x]
    BY <1>1, <1>4, MovedIs
  <1> HIDE DEF v
  <1>13. p \in 0 .. N /\ v.dad[p] = up /\ v.rson[up] = rs[up]
    BY <1>1, <1>2, <1>7, <1>10, <1>12
  <1>14. /\ \A u \in In(da) : ls[u] = p <=> u = up /\ rs[up] # p
         /\ \A u \in Spots(da) : rs[u] = p <=> u = up /\ rs[up] = p
         /\ rs[up] # p => up \in In(da)
    BY FatherIs
  <1>15. /\ \A u \in In(da) : ls[u] = q <=> u = f /\ rs[f] # q
         /\ \A u \in Spots(da) : rs[u] = q <=> u = f /\ rs[f] = q
    BY <1>4, FatherIs
  <1>16. /\ t2 \in Trees
         /\ \A x \in 0 .. N :
              t2.dad[x] = IF x = p THEN NIL ELSE IF x = q THEN up ELSE v.dad[x]
         /\ \A u \in 0 .. N : t2.lson[u] = IF u = up /\ rs[up] # p THEN q ELSE v.lson[u]
         /\ \A u \in Nodes : t2.rson[u] = IF u = up /\ rs[up] = p THEN q ELSE v.rson[u]
    <2>1. /\ t2 \in Trees
          /\ \A x \in 0 .. N :
               t2.dad[x] = IF x = p THEN NIL ELSE IF x = q THEN up ELSE v.dad[x]
          /\ \A u \in 0 .. N :
               t2.lson[u] = IF u = up /\ v.rson[up] # p THEN q ELSE v.lson[u]
          /\ \A u \in Nodes :
               t2.rson[u] = IF u = up /\ v.rson[up] = p THEN q ELSE v.rson[u]
      <3>1. v.rson[up] # p => up \in Place
        BY <1>2, <1>13, <1>14
      <3>2. up = v.dad[p] /\ t2 = Replaced(v, p, q)
        BY <1>13
      <3> HIDE DEF up, t2
      <3>3. QED
        BY <1>1, <1>2, <1>11, <1>12, <3>1, <3>2, ReplacedIs
    <2>2. QED
      BY <1>13, <2>1
  <1> HIDE DEF t2
  (* First q goes,                                                           *)
  <1> DEFINE ls1 == [u \in 0 .. N |-> IF u \in In(da) /\ ls[u] = q THEN c ELSE ls[u]]
             rs1 == [u \in Nodes |-> IF u \in Spots(da) /\ rs[u] = q THEN c ELSE rs[u]]
             da1 == [x \in 0 .. N |-> IF x = q THEN NIL ELSE IF x = c THEN f ELSE da[x]]
             D1 == [u \in Nodes |-> D[u] \ {q}]
  <1>17. CutSays(ls, rs, da, q, c, ls1, rs1, da1)
    <2>1. ls1 \in [0 .. N -> 0 .. N] /\ rs1 \in [Nodes -> 0 .. N] /\ da1 \in [0 .. N -> Nodes]
      <3>1. ls \in [0 .. N -> 0 .. N] /\ rs \in [Nodes -> 0 .. N] /\ da \in [0 .. N -> Nodes]
        BY DEF Trees
      <3>2. NIL \in Nodes
        BY SpotsAre
      <3> HIDE DEF ls, rs, da, c, f
      <3>3. QED
        BY <1>11, <3>1, <3>2
    <2>2. SonsOf(ls, rs, q) = {c} \ {NIL}
      BY <1>3, <1>4 DEF SonsOf
    <2>3. /\ \A x \in Place : da1[x] = IF x = q THEN NIL ELSE IF x = c THEN da[q] ELSE da[x]
          /\ \A u \in In(da) \ {q} : ls1[u] = IF ls[u] = q THEN c ELSE ls[u]
          /\ \A u \in Spots(da) \ {q} : rs1[u] = IF rs[u] = q THEN c ELSE rs[u]
      BY <1>2, SpotsAre
    <2>4. QED
      BY <2>1, <2>2, <2>3 DEF CutSays, Arrays
  <1>18. In(da1) = In(da) \ {q} /\ Shape(buf, ls1, rs1, da1, D1, h, top)
    <2> HIDE DEF ls1, rs1, da1, c
    <2>1. QED
      BY <1>4, <1>17, CutStep
  <1>19. /\ ls1[p] = (IF q = l THEN c ELSE l) /\ rs1[p] = rs[p] /\ da1[p] = up
         /\ p \in In(da1) /\ q \notin In(da1) /\ Spots(da1) \subseteq Spots(da) \ {q}
    <2>1. q \notin Roots
      BY <1>4, SpotsAre
    <2>2. /\ ls1[p] = (IF l = q THEN c ELSE l) /\ rs1[p] = rs[p] /\ da1[p] = up
      BY <1>1, <1>2, <1>4, <1>5, <1>10
    <2> HIDE DEF ls1, rs1, da1, c
    <2>3. QED
      BY <1>4, <1>18, <2>1, <2>2 DEF Spots
  (* then it takes the place of p.                                           *)
  <1>20. SwapSays(ls1, rs1, da1, p, q, t2.lson, t2.rson, t2.dad)
    <2>1. Arrays(t2.lson, t2.rson, t2.dad)
      BY <1>16 DEF Trees, Arrays
    <2>2. ASSUME NEW x \in Place
          PROVE  t2.dad[x] = IF x = q THEN da1[p] ELSE IF x = p THEN NIL
                             ELSE IF x \in {ls1[p], rs1[p]} THEN q ELSE da1[x]
      <3>1. x \in 0 .. N /\ x # NIL
        BY SpotsAre
      <3>2. da1[x] = IF x = q THEN NIL ELSE IF x = c THEN f ELSE da[x]
        BY <3>1
      <3>3. x = c => da[x] = q
        BY <1>8, <3>1
      <3>4. t2.dad[x] = IF x = p THEN NIL ELSE IF x = q THEN up ELSE v.dad[x]
        BY <1>16, <3>1
      <3>5. v.dad[x] = IF x = rs[p] THEN q ELSE IF q = l THEN da[x]
                       ELSE IF x = l THEN q ELSE IF x = c THEN f ELSE da[x]
        BY <1>12, <3>1
      <3> HIDE DEF ls1, rs1, da1, ls, rs, da, l, c, f, up
      <3>6. QED
        BY <1>4, <1>10, <1>19, <3>2, <3>3, <3>4, <3>5
    <2>3. t2.lson[q] = ls1[p] /\ t2.rson[q] = rs1[p]
      <3>1. q \in Nodes
        BY <1>2, <1>4
      <3> HIDE DEF ls1, rs1, da1, ls, rs, da, f, up, l
      <3>2. t2.lson[q] = v.lson[q] /\ t2.rson[q] = v.rson[q]
        BY <1>7, <1>11, <1>16, <3>1
      <3>3. v.lson[q] = (IF q # l THEN l ELSE c) /\ v.rson[q] = rs[p]
        BY <1>11, <1>12, <3>1
      <3>4. QED
        BY <1>19, <3>2, <3>3
    <2>4. ASSUME NEW u \in In(da1) \ {p}
          PROVE  t2.lson[u] = IF ls1[u] = p THEN q ELSE ls1[u]
      <3>1. u \in In(da) /\ u # q /\ u # p /\ u \in 0 .. N
        BY <1>2, <1>18
      <3>2. ls1[u] = IF ls[u] = q THEN c ELSE ls[u]
        BY <3>1
      <3>3. ls[u] # q
        BY <1>3, <1>7, <1>15, <3>1
      <3>4. t2.lson[u] = IF u = up /\ rs[up] # p THEN q ELSE ls[u]
        BY <1>12, <1>16, <3>1
      <3> HIDE DEF ls1
      <3>5. QED
        BY <1>14, <3>1, <3>2, <3>3, <3>4
    <2>5. ASSUME NEW u \in Spots(da1) \ {p}
          PROVE  t2.rson[u] = IF rs1[u] = p THEN q ELSE rs1[u]
      <3>1. u \in Spots(da) /\ u # q /\ u # p /\ u \in Nodes
        BY <1>2, <1>19
      <3>2. rs1[u] = IF rs[u] = q THEN c ELSE rs[u]
        BY <3>1
      <3>3. rs[u] = q <=> q # l /\ u = f
        BY <1>3, <1>7, <1>15, <3>1
      <3>4. t2.rson[u] = IF u = up /\ rs[up] = p THEN q ELSE v.rson[u]
        BY <1>16, <3>1
      <3>5. v.rson[u] = IF q # l /\ u = f THEN c ELSE rs[u]
        BY <1>12, <3>1
      <3> HIDE DEF rs1
      <3>6. QED
        BY <1>7, <1>10, <1>14, <3>1, <3>2, <3>3, <3>4, <3>5
    <2> HIDE DEF ls1, rs1, da1
    <2>6. QED
      BY <2>1, <2>2, <2>3, <2>4, <2>5 DEF SwapSays
  <1>21. \A u \in Spots(da) : D1[u] = D[u] \ {q}
    BY <1>2
  <1>22. buf[q] = buf[p]
    <2>1. buf[p] \in Byte
      BY <1>1, Sizes DEF Buffer, Index
    <2>2. Root(buf[p]) \in Spots(da)
      BY <2>1, SpotsAre DEF Roots
    <2>3. p \in D[Root(buf[p])]
      BY <1>1, <2>1 DEF Shape, Rooted
    <2>4. D[p] \subseteq D[Root(buf[p])]
      BY <2>2, <2>3, Nested
    <2>5. q \in D[Root(buf[p])]
      BY <1>1, <1>3, <2>4
    <2>6. QED
      BY <1>4, <2>1, <2>5 DEF Shape, Rooted
  <1>23. Fits(buf, ls1, rs1, da1, D1, p, q)
    <2>1. ASSUME ls1[p] # NIL PROVE \A x \in D1[ls1[p]] : Less(buf, x, q)
      <3>1. ls1[p] \in Spots(da) /\ D[ls1[p]] \subseteq D[l]
        <4> HIDE DEF ls1, rs1, da1
        <4>1. CASE q = l
          BY <1>2, <1>8, <1>9, <1>19, <2>1, <4>1
        <4>2. CASE q # l
          BY <1>1, <1>2, <1>19, <2>1, <4>2
        <4>3. QED
          BY <4>1, <4>2
      <3>2. D1[ls1[p]] = D[ls1[p]] \ {q}
        BY <1>21, <3>1
      <3> HIDE DEF ls1, D1
      <3>3. QED
        BY <1>3, <3>1, <3>2
    <2>2. \A x \in D1[rs1[p]] : Less(buf, q, x)
      <3>1. D1[rs1[p]] \subseteq D[rs[p]]
        BY <1>1, <1>2, <1>19, <1>21
      <3>2. \A x \in D[rs[p]] : Less(buf, p, x) /\ x \in Place
        BY <1>1, <1>2
      <3> HIDE DEF rs1, D1
      <3>3. \A x \in D[rs[p]] : Less(buf, q, x)
        BY <1>1, <1>4, <3>2, LessThrough
      <3>4. QED
        BY <3>1, <3>3
    <2>3. ASSUME NEW u \in In(da1) \ {p}
          PROVE  /\ ls1[u] # NIL /\ p \in D1[ls1[u]] => Less(buf, q, u)
                 /\ rs1[u] # NIL /\ p \in D1[rs1[u]] => Less(buf, u, q)
      <3>1. u \in In(da) /\ u # q /\ u # p /\ u \in Place /\ u \in Spots(da)
        BY <1>2, <1>18
      <3>2. /\ ls[u] # NIL => ls[u] \in In(da) /\ \A x \in D[ls[u]] : Less(buf, x, u)
            /\ rs[u] # NIL => rs[u] \in In(da) /\ \A x \in D[rs[u]] : Less(buf, u, x)
        BY <3>1, Family
      <3>3. /\ ls1[u] = IF ls[u] = q THEN c ELSE ls[u]
            /\ rs1[u] = IF rs[u] = q THEN c ELSE rs[u]
        BY <1>2, <3>1
      <3>4. ASSUME NEW x \in In(da), p \in D[x] PROVE q \in D[x]
        <4>1. D[p] \subseteq D[x]
          BY <1>2, <3>4, Nested
        <4>2. QED
          BY <1>1, <1>3, <4>1
      <3>5. ASSUME ls1[u] # NIL, p \in D1[ls1[u]] PROVE Less(buf, q, u)
        <4>1. CASE ls[u] = q
          <5>1. ls1[u] = c /\ c # NIL
            BY <3>3, <3>5, <4>1
          <5>2. q \in D[ls[u]] /\ ls[u] # NIL
            BY <1>2, <1>4, <4>1, Family
          <5>3. QED
            BY <3>2, <5>2
        <4>2. CASE ls[u] # q
          <5>1. ls1[u] = ls[u] /\ ls[u] \in In(da)
            BY <3>2, <3>3, <3>5, <4>2
          <5>2. p \in D[ls[u]]
            BY <1>2, <1>21, <3>5, <5>1
          <5>3. QED
            BY <3>2, <3>4, <3>5, <5>1, <5>2
        <4>3. QED
          BY <4>1, <4>2
      <3>6. ASSUME rs1[u] # NIL, p \in D1[rs1[u]] PROVE Less(buf, u, q)
        <4>1. CASE rs[u] = q
          <5>1. q \in D[rs[u]] /\ rs[u] # NIL
            BY <1>2, <1>4, <4>1, Family
          <5>2. QED
            BY <3>2, <5>1
        <4>2. CASE rs[u] # q
          <5>1. rs1[u] = rs[u] /\ rs[u] \in In(da)
            BY <3>2, <3>3, <3>6, <4>2
          <5>2. p \in D[rs[u]]
            BY <1>2, <1>21, <3>6, <5>1
          <5>3. QED
            BY <3>2, <3>4, <3>6, <5>1, <5>2
        <4>3. QED
          BY <4>1, <4>2
      <3>7. QED
        BY <3>5, <3>6
    <2> HIDE DEF ls1, rs1, da1, D1
    <2>4. QED
      BY <1>22, <2>1, <2>2, <2>3 DEF Fits
  <1>24. \A x \in Place : ~ Less(buf, x, x)
    BY OneIsLess
  <1>25. /\ In(t2.dad) = (In(da1) \ {p}) \cup {q}
         /\ \E D2, h2 : Shape(buf, t2.lson, t2.rson, t2.dad, D2, h2, top)
    <2> HIDE DEF ls1, rs1, da1, D1
    <2>1. QED
      BY <1>4, <1>18, <1>19, <1>20, <1>23, <1>24, SwapStep
  <1>26. In(t2.dad) = In(da) \ {p}
    BY <1>4, <1>18, <1>25
  <1> HIDE DEF ls1, rs1, da1, D1
  <1>27. GoodWith(buf, t2, InTrees(t) \ {p})
    BY <1>16, <1>25, <1>26, InIs DEF Good, GoodWith
  <1>28. QED
    BY <1>27 DEF t2, v

(* A deleted place is out, and the trees are as good as before.              *)
LEMMA DeleteGood ==
    ASSUME NEW buf \in Buffer, NEW t, Good(buf, t), NEW p \in Place
    PROVE  GoodWith(buf, Delete(t, p), InTrees(t) \ {p})
  <1>1. t \in Trees
    BY DEF Good
  <1>2. PICK D, h, top : Shape(buf, t.lson, t.rson, t.dad, D, h, top)
    BY DEF Good
  <1>3. CASE t.dad[p] = NIL
    <2>1. Delete(t, p) = t
      BY <1>3 DEF Delete
    <2>2. p \notin InTrees(t)
      BY <1>3 DEF InTrees
    <2>3. QED
      BY <2>1, <2>2 DEF GoodWith
  <1>4. CASE t.dad[p] # NIL
    <2>1. p \in In(t.dad)
      BY <1>4 DEF In
    <2>2. /\ SonsOf(t.lson, t.rson, p) = {t.lson[p], t.rson[p]} \ {NIL}
          /\ t.lson[p] \in 0 .. N /\ t.rson[p] \in 0 .. N
      BY <1>1, SpotsAre DEF Trees, SonsOf
    <2>3. CASE t.rson[p] = NIL
      <3>1. Delete(t, p) = Replaced(t, p, t.lson[p])
        BY <1>4, <2>3 DEF Delete
      <3> DEFINE c == t.lson[p]
      <3>2. c \in 0 .. N /\ SonsOf(t.lson, t.rson, p) = {c} \ {NIL}
        BY <2>2, <2>3
      <3> HIDE DEF c
      <3>3. GoodWith(buf, Replaced(t, p, c), InTrees(t) \ {p})
        BY <1>1, <1>2, <2>1, <3>2, CutGood
      <3>4. QED
        BY <3>1, <3>3 DEF c
    <2>4. CASE t.rson[p] # NIL /\ t.lson[p] = NIL
      <3>1. Delete(t, p) = Replaced(t, p, t.rson[p])
        BY <1>4, <2>4 DEF Delete
      <3> DEFINE c == t.rson[p]
      <3>2. c \in 0 .. N /\ SonsOf(t.lson, t.rson, p) = {c} \ {NIL}
        BY <2>2, <2>4
      <3> HIDE DEF c
      <3>3. GoodWith(buf, Replaced(t, p, c), InTrees(t) \ {p})
        BY <1>1, <1>2, <2>1, <3>2, CutGood
      <3>4. QED
        BY <3>1, <3>3 DEF c
    <2>5. CASE t.rson[p] # NIL /\ t.lson[p] # NIL
      <3> DEFINE q == Greatest(t, t.lson[p])
      <3>1. Delete(t, p) = Replaced(Moved(t, p, q), p, q)
        BY <1>4, <2>5 DEF Delete, Moved
      <3>2. t.lson[p] \in In(t.dad)
        BY <1>2, <2>1, <2>5, Family
      <3>3. IsGreatest(buf, t, D, t.lson[p], q)
        BY <1>2, <3>2, GreatestIs
      <3> HIDE DEF q
      <3>4. QED
        BY <1>1, <1>2, <2>1, <2>5, <3>1, <3>3, TwoSons
    <2>6. QED
      BY <2>3, <2>4, <2>5
  <1>5. QED
    BY <1>3, <1>4

-------------------------------------------------------------------------------
(* InsertNode().                                                             *)
AsLeaf(t, q, e, right) ==
    LET leaf == [t EXCEPT !.lson[q] = NIL, !.rson[q] = NIL, !.dad[q] = e]
    IN  IF right THEN [leaf EXCEPT !.rson[e] = q] ELSE [leaf EXCEPT !.lson[e] = q]

(* What InsertNode()'s assignments make of the arrays, for a new leaf.       *)
LEMMA AsLeafIs ==
    ASSUME NEW t \in Trees, NEW q \in Place, NEW e \in Nodes, e # q, NEW right \in BOOLEAN,
           ~ right => e \in Place, NEW t2, t2 = AsLeaf(t, q, e, right)
    PROVE  t2 \in Trees /\ LeafSays(t.lson, t.rson, t.dad, q, e, right, t2.lson, t2.rson, t2.dad)
  <1> DEFINE t1 == [t EXCEPT !.lson[q] = NIL]
             t3 == [t1 EXCEPT !.rson[q] = NIL]
             t4 == [t3 EXCEPT !.dad[q] = e]
  <1>1. /\ q \in 0 .. N /\ q \in Nodes /\ NIL \in 0 .. N /\ Place \subseteq 0 .. N
        /\ Place \cup Roots \subseteq Nodes
    BY SpotsAre DEF Nodes
  <1>2. /\ IsSetLson(t, q, NIL, t1) /\ IsSetRson(t1, q, NIL, t3) /\ IsSetDad(t3, q, e, t4)
        /\ t2 = IF right THEN [t4 EXCEPT !.rson[e] = q] ELSE [t4 EXCEPT !.lson[e] = q]
    BY DEF IsSetRson, IsSetLson, IsSetDad, AsLeaf
  <1> HIDE DEF t1, t3, t4
  <1>3. /\ t1 \in Trees /\ t1.rson = t.rson /\ t1.dad = t.dad
        /\ \A u \in 0 .. N : t1.lson[u] = IF u = q THEN NIL ELSE t.lson[u]
    BY <1>1, <1>2, SetLson
  <1>4. /\ t3 \in Trees /\ t3.lson = t1.lson /\ t3.dad = t1.dad
        /\ \A u \in Nodes : t3.rson[u] = IF u = q THEN NIL ELSE t1.rson[u]
    BY <1>1, <1>2, <1>3, SetRson
  <1>5. /\ t4 \in Trees /\ t4.lson = t3.lson /\ t4.rson = t3.rson
        /\ \A u \in 0 .. N : t4.dad[u] = IF u = q THEN e ELSE t3.dad[u]
    BY <1>1, <1>2, <1>4, SetDad
  <1>6. CASE right
    <2>1. IsSetRson(t4, e, q, t2)
      BY <1>2, <1>6 DEF IsSetRson
    <2>2. /\ t2 \in Trees /\ t2.lson = t4.lson /\ t2.dad = t4.dad
          /\ \A u \in Nodes : t2.rson[u] = IF u = e THEN q ELSE t4.rson[u]
      BY <1>1, <1>5, <2>1, SetRson
    <2>3. Arrays(t2.lson, t2.rson, t2.dad)
      BY <2>2 DEF Trees, Arrays
    <2>4. \A x \in Place : t2.dad[x] = IF x = q THEN e ELSE t.dad[x]
      BY <1>1, <1>3, <1>4, <1>5, <2>2
    <2>5. \A u \in Place : t2.lson[u] = IF u = q THEN NIL ELSE t.lson[u]
      BY <1>1, <1>3, <1>4, <1>5, <2>2
    <2>6. \A u \in Nodes : t2.rson[u] = IF u = q THEN NIL ELSE IF u = e THEN q ELSE t.rson[u]
      BY <1>1, <1>3, <1>4, <1>5, <2>2
    <2>7. QED
      BY <1>1, <1>6, <2>2, <2>3, <2>4, <2>5, <2>6 DEF LeafSays
  <1>7. CASE ~ right
    <2>1. IsSetLson(t4, e, q, t2) /\ e \in 0 .. N
      BY <1>1, <1>2, <1>7 DEF IsSetLson
    <2>2. /\ t2 \in Trees /\ t2.rson = t4.rson /\ t2.dad = t4.dad
          /\ \A u \in 0 .. N : t2.lson[u] = IF u = e THEN q ELSE t4.lson[u]
      BY <1>1, <1>5, <2>1, SetLson
    <2>3. Arrays(t2.lson, t2.rson, t2.dad)
      BY <2>2 DEF Trees, Arrays
    <2>4. \A x \in Place : t2.dad[x] = IF x = q THEN e ELSE t.dad[x]
      BY <1>1, <1>3, <1>4, <1>5, <2>2
    <2>5. \A u \in Place : t2.lson[u] = IF u = q THEN NIL ELSE IF u = e THEN q ELSE t.lson[u]
      BY <1>1, <1>3, <1>4, <1>5, <2>2
    <2>6. \A u \in Nodes : t2.rson[u] = IF u = q THEN NIL ELSE t.rson[u]
      BY <1>1, <1>3, <1>4, <1>5, <2>2
    <2>7. QED
      BY <1>1, <1>7, <2>2, <2>3, <2>4, <2>5, <2>6 DEF LeafSays
  <1>8. QED
    BY <1>6, <1>7

(* q takes the place of e.                                                   *)
TakesPlace(t, q, e) ==
    LET up    == t.dad[e]
        moved == [t EXCEPT !.lson[q] = t.lson[e], !.rson[q] = t.rson[e],
                           !.dad[q] = up, !.dad[t.lson[e]] = q,
                           !.dad[t.rson[e]] = q, !.dad[e] = NIL]
    IN  IF moved.rson[up] = e THEN [moved EXCEPT !.rson[up] = q]
                              ELSE [moved EXCEPT !.lson[up] = q]

(* The same where q takes the place of e.                                    *)
LEMMA TakesPlaceIs ==
    ASSUME NEW t \in Trees, NEW q \in Place, NEW e \in Place, q # e,
           NEW up, up = t.dad[e], up # q, up \in Nodes, t.rson[up] # e => up \in Place,
           NEW t2, t2 = TakesPlace(t, q, e)
    PROVE  /\ t2 \in Trees
           /\ \A x \in 0 .. N :
                t2.dad[x] = IF x = e THEN NIL ELSE IF x \in {t.lson[e], t.rson[e]} THEN q
                            ELSE IF x = q THEN up ELSE t.dad[x]
           /\ \A u \in 0 .. N :
                t2.lson[u] = IF u = q THEN t.lson[e]
                             ELSE IF u = up /\ t.rson[up] # e THEN q ELSE t.lson[u]
           /\ \A u \in Nodes :
                t2.rson[u] = IF u = q THEN t.rson[e]
                             ELSE IF u = up /\ t.rson[up] = e THEN q ELSE t.rson[u]
  <1> DEFINE l == t.lson[e]
             m == t.rson[e]
  <1>1. /\ q \in 0 .. N /\ q \in Nodes /\ NIL \in 0 .. N /\ NIL \in Nodes /\ e \in 0 .. N
        /\ l \in 0 .. N /\ m \in 0 .. N
        /\ up \in Place => up \in 0 .. N
    BY SpotsAre DEF Trees
  <1> DEFINE t1 == [t EXCEPT !.lson[q] = l]
             t3 == [t1 EXCEPT !.rson[q] = m]
             t4 == [t3 EXCEPT !.dad[q] = up]
             t5 == [t4 EXCEPT !.dad[l] = q]
             t6 == [t5 EXCEPT !.dad[m] = q]
             t7 == [t6 EXCEPT !.dad[e] = NIL]
  <1>2. /\ IsSetLson(t, q, l, t1) /\ IsSetRson(t1, q, m, t3) /\ IsSetDad(t3, q, up, t4)
        /\ IsSetDad(t4, l, q, t5) /\ IsSetDad(t5, m, q, t6) /\ IsSetDad(t6, e, NIL, t7)
        /\ t2 = IF t7.rson[up] = e THEN [t7 EXCEPT !.rson[up] = q]
                                   ELSE [t7 EXCEPT !.lson[up] = q]
    <2>1. /\ IsSetLson(t, q, l, t1) /\ IsSetRson(t1, q, m, t3) /\ IsSetDad(t3, q, up, t4)
          /\ IsSetDad(t4, l, q, t5) /\ IsSetDad(t5, m, q, t6) /\ IsSetDad(t6, e, NIL, t7)
      BY DEF IsSetRson, IsSetLson, IsSetDad
    <2>2. QED
      BY <2>1, SMTT(60) DEF TakesPlace
  <1> HIDE DEF t1, t3, t4, t5, t6, t7, l, m
  <1>3. /\ t1 \in Trees /\ t1.rson = t.rson /\ t1.dad = t.dad
        /\ \A u \in 0 .. N : t1.lson[u] = IF u = q THEN l ELSE t.lson[u]
    BY <1>1, <1>2, SetLson
  <1>4. /\ t3 \in Trees /\ t3.lson = t1.lson /\ t3.dad = t1.dad
        /\ \A u \in Nodes : t3.rson[u] = IF u = q THEN m ELSE t1.rson[u]
    BY <1>1, <1>2, <1>3, SetRson
  <1>5. /\ t4 \in Trees /\ t4.lson = t3.lson /\ t4.rson = t3.rson
        /\ \A u \in 0 .. N : t4.dad[u] = IF u = q THEN up ELSE t3.dad[u]
    BY <1>1, <1>2, <1>4, SetDad
  <1>6. /\ t5 \in Trees /\ t5.lson = t4.lson /\ t5.rson = t4.rson
        /\ \A u \in 0 .. N : t5.dad[u] = IF u = l THEN q ELSE t4.dad[u]
    BY <1>1, <1>2, <1>5, SetDad
  <1>7. /\ t6 \in Trees /\ t6.lson = t5.lson /\ t6.rson = t5.rson
        /\ \A u \in 0 .. N : t6.dad[u] = IF u = m THEN q ELSE t5.dad[u]
    BY <1>1, <1>2, <1>6, SetDad
  <1>8. /\ t7 \in Trees /\ t7.lson = t6.lson /\ t7.rson = t6.rson
        /\ \A u \in 0 .. N : t7.dad[u] = IF u = e THEN NIL ELSE t6.dad[u]
    BY <1>1, <1>2, <1>7, SetDad
  <1>9. /\ \A x \in 0 .. N : t7.dad[x] = IF x = e THEN NIL ELSE IF x \in {l, m} THEN q
                                         ELSE IF x = q THEN up ELSE t.dad[x]
        /\ \A u \in 0 .. N : t7.lson[u] = IF u = q THEN l ELSE t.lson[u]
        /\ \A u \in Nodes : t7.rson[u] = IF u = q THEN m ELSE t.rson[u]
    <2>1. \A u \in 0 .. N : t7.lson[u] = IF u = q THEN l ELSE t.lson[u]
      BY <1>3, <1>4, <1>5, <1>6, <1>7, <1>8
    <2>2. \A u \in Nodes : t7.rson[u] = IF u = q THEN m ELSE t.rson[u]
      BY <1>3, <1>4, <1>5, <1>6, <1>7, <1>8
    <2>3. \A x \in 0 .. N : t7.dad[x] = IF x = e THEN NIL ELSE IF x \in {l, m} THEN q
                                        ELSE IF x = q THEN up ELSE t.dad[x]
      <3>1. \A x \in 0 .. N : t4.dad[x] = IF x = q THEN up ELSE t.dad[x]
        BY <1>3, <1>4, <1>5
      <3>2. \A x \in 0 .. N : t6.dad[x] = IF x = m \/ x = l THEN q ELSE t4.dad[x]
        BY <1>6, <1>7
      <3>3. QED
        BY <1>8, <3>1, <3>2
    <2>4. QED
      BY <2>1, <2>2, <2>3
  <1>10. t7.rson[up] = t.rson[up]
    BY <1>9
  <1>11. CASE t.rson[up] = e
    <2>1. IsSetRson(t7, up, q, t2)
      BY <1>2, <1>10, <1>11 DEF IsSetRson
    <2>2. /\ t2 \in Trees /\ t2.lson = t7.lson /\ t2.dad = t7.dad
          /\ \A u \in Nodes : t2.rson[u] = IF u = up THEN q ELSE t7.rson[u]
      <3>1. t7 \in Trees /\ q \in 0 .. N
        BY <1>1, <1>8
      <3>2. QED
        BY <2>1, <3>1, SetRson
    <2>3. QED
      BY <1>9, <1>11, <2>2 DEF l, m
  <1>12. CASE t.rson[up] # e
    <2>1. IsSetLson(t7, up, q, t2) /\ up \in 0 .. N
      BY <1>1, <1>2, <1>10, <1>12 DEF IsSetLson
    <2>2. /\ t2 \in Trees /\ t2.rson = t7.rson /\ t2.dad = t7.dad
          /\ \A u \in 0 .. N : t2.lson[u] = IF u = up THEN q ELSE t7.lson[u]
      <3>1. t7 \in Trees /\ q \in 0 .. N
        BY <1>1, <1>8
      <3>2. QED
        BY <2>1, <3>1, SetLson
    <2>3. QED
      BY <1>9, <1>12, <2>2 DEF l, m
  <1>13. QED
    BY <1>11, <1>12

(* An inserted place is in the trees, a place with the same bytes may have   *)
(* gone for it, and the trees are as good as before.                         *)
LEMMA TakesPlaceGood ==
    ASSUME NEW buf \in Buffer, NEW t \in Trees, NEW D, NEW h, NEW top,
           Shape(buf, t.lson, t.rson, t.dad, D, h, top),
           NEW q \in Place, q \notin In(t.dad),
           NEW e \in In(t.dad), Common(buf, e, q) = F, buf[e] = buf[q]
    PROVE  GoodWith(buf, TakesPlace(t, q, e), (InTrees(t) \ {e}) \cup {q})
  <1> DEFINE ls == t.lson
             rs == t.rson
             da == t.dad
             up == da[e]
             t2 == TakesPlace(t, q, e)
  <1>1. /\ e \in Place /\ e # NIL /\ e # q /\ up \in Spots(da) /\ up # e /\ q # NIL
        /\ \A u \in In(da) : u \in Place /\ u \in 0 .. N /\ u # q
        /\ \A u \in Spots(da) : u \in Nodes /\ u # q
        /\ Place \subseteq 0 .. N /\ q \in Nodes
    BY Family, SpotsAre
  <1>2. /\ \A u \in In(da) : ls[u] = e <=> u = up /\ rs[up] # e
        /\ \A u \in Spots(da) : rs[u] = e <=> u = up /\ rs[up] = e
        /\ rs[up] # e => up \in In(da)
    BY FatherIs
  <1>3. /\ t2 \in Trees
        /\ \A x \in 0 .. N :
             t2.dad[x] = IF x = e THEN NIL ELSE IF x \in {ls[e], rs[e]} THEN q
                         ELSE IF x = q THEN up ELSE da[x]
        /\ \A u \in 0 .. N :
             t2.lson[u] = IF u = q THEN ls[e] ELSE IF u = up /\ rs[up] # e THEN q ELSE ls[u]
        /\ \A u \in Nodes :
             t2.rson[u] = IF u = q THEN rs[e] ELSE IF u = up /\ rs[up] = e THEN q ELSE rs[u]
    <2>1. up \in Nodes /\ up # q /\ (rs[up] # e => up \in Place)
      BY <1>1, <1>2
    <2>2. QED
      BY <1>1, <2>1, TakesPlaceIs
  <1> HIDE DEF t2
  <1>4. /\ ls[e] # NIL => ls[e] \in In(da) /\ \A x \in D[ls[e]] : Less(buf, x, e)
        /\ rs[e] # NIL => rs[e] \in In(da) /\ \A x \in D[rs[e]] : Less(buf, e, x)
    BY Family
  <1>5. SwapSays(ls, rs, da, e, q, t2.lson, t2.rson, t2.dad)
    <2>1. Arrays(t2.lson, t2.rson, t2.dad)
      BY <1>3 DEF Trees, Arrays
    <2>2. q \notin {ls[e], rs[e]}
      BY <1>1, <1>4
    <2>3. \A x \in Place : t2.dad[x] = IF x = q THEN da[e] ELSE IF x = e THEN NIL
                                       ELSE IF x \in {ls[e], rs[e]} THEN q ELSE da[x]
      BY <1>1, <1>3, <2>2
    <2>4. t2.lson[q] = ls[e] /\ t2.rson[q] = rs[e]
      BY <1>1, <1>3
    <2>5. \A u \in In(da) \ {e} : t2.lson[u] = IF ls[u] = e THEN q ELSE ls[u]
      BY <1>1, <1>2, <1>3
    <2>6. \A u \in Spots(da) \ {e} : t2.rson[u] = IF rs[u] = e THEN q ELSE rs[u]
      BY <1>1, <1>2, <1>3
    <2>7. QED
      BY <2>1, <2>3, <2>4, <2>5, <2>6 DEF SwapSays
  <1>6. \A z \in Place : /\ Less(buf, e, z) <=> Less(buf, q, z)
                         /\ Less(buf, z, e) <=> Less(buf, z, q)
    BY <1>1, SameLess
  <1>7. \A u \in Spots(da) : D[u] \subseteq Place
    BY SpotsAre DEF Shape, Holds
  <1>8. Fits(buf, ls, rs, da, D, e, q)
    <2>1. ls[e] # NIL => \A x \in D[ls[e]] : Less(buf, x, q)
      <3>1. ls[e] # NIL => D[ls[e]] \subseteq Place
        BY <1>4, <1>7, SpotsAre
      <3>2. QED
        BY <1>4, <1>6, <3>1
    <2>2. rs[e] # NIL => \A x \in D[rs[e]] : Less(buf, q, x)
      <3>1. rs[e] # NIL => D[rs[e]] \subseteq Place
        BY <1>4, <1>7, SpotsAre
      <3>2. QED
        BY <1>4, <1>6, <3>1
    <2>3. \A u \in In(da) \ {e} :
             /\ ls[u] # NIL /\ e \in D[ls[u]] => Less(buf, q, u)
             /\ rs[u] # NIL /\ e \in D[rs[u]] => Less(buf, u, q)
      BY <1>1, <1>6 DEF Shape, Ordered
    <2>4. QED
      BY <2>1, <2>2, <2>3 DEF Fits
  <1>9. /\ In(t2.dad) = (In(da) \ {e}) \cup {q}
        /\ \E D2, h2 : Shape(buf, t2.lson, t2.rson, t2.dad, D2, h2, top)
    <2>1. \A x \in Place : ~ Less(buf, x, x)
      BY OneIsLess
    <2>2. QED
      BY <1>1, <1>5, <1>8, <2>1, SwapStep
  <1>10. QED
    BY <1>3, <1>9, InIs DEF Good, GoodWith, t2

(* What there is after InsertNode(q).                                        *)
Inserted(buf, t, q, t2) ==
    /\ Good(buf, t2) /\ q \in InTrees(t2) /\ InTrees(t2) \subseteq InTrees(t) \cup {q}

(* InsertNode() keeps the trees in order.                                    *)
LEMMA InsertGood ==
    ASSUME NEW buf \in Buffer, NEW t, Good(buf, t), NEW q \in Place, q \notin InTrees(t)
    PROVE  Inserted(buf, t, q, Insert(buf, t, q))
  <1>1. t \in Trees
    BY DEF Good
  <1>2. PICK D, h, top : Shape(buf, t.lson, t.rson, t.dad, D, h, top)
    BY DEF Good
  <1> DEFINE w == Path(buf, t, q)
             e == w[Len(w)]
             right == GoesRight(buf, q, e)
  <1>3. /\ \E A : Way(buf, t, q, A, e)
        /\ e \in Place => e \in D[Root(buf[q])]
    <2>1. w = Path(buf, t, q)
      OBVIOUS
    <2> HIDE DEF w
    <2>2. QED
      BY <1>2, <2>1, WayIs
  <1>4. q \notin In(t.dad)
    BY InIs
  <1>5. Insert(buf, t, q) = IF e > N \/ Common(buf, e, q) < F THEN AsLeaf(t, q, e, right)
                            ELSE TakesPlace(t, q, e)
    BY DEF Insert, AsLeaf, TakesPlace
  <1> HIDE DEF e, w
  <1>6. PICK A : Way(buf, t, q, A, e)
    BY <1>3
  <1>7. e \in A /\ e \in Spots(t.dad) /\ Stops(buf, t, q, e) /\ buf[q] \in Byte
    BY <1>6 DEF Way
  <1>8. /\ e \in Nodes /\ e # q /\ (e \in Place \/ e \in Roots)
        /\ e \in Place => e \in In(t.dad)
    BY <1>4, <1>7, SpotsAre
  <1>9. right \in BOOLEAN /\ (~ right => e \in Place)
    <2>1. right \in BOOLEAN
      BY DEF GoesRight
    <2>2. QED
      BY <1>8, <2>1, RootsGoRight
  <1>10. /\ e \in Place => e < N /\ ~ (e > N)
         /\ e \in Place => (Common(buf, e, q) < F <=> Common(buf, e, q) # F)
         /\ e \in Roots => e > N /\ ~ (e < N)
    <2>1. e \in Place => Common(buf, e, q) \in 1 .. F
      BY OneIsLess
    <2> DEFINE n == Common(buf, e, q)
    <2> HIDE DEF right, n
    <2>2. e \in Place => (n < F <=> n # F)
      BY <2>1, Sizes DEF n
    <2>3. QED
      BY <2>2, Sizes DEF n
  <1>11. CASE e > N \/ Common(buf, e, q) < F
    <2>1. e \in Place => Common(buf, e, q) # F
      <3> HIDE DEF right
      <3>1. QED
        BY <1>10, <1>11
    <2>2. Son(buf, t, q, e) = NIL
      BY <1>7, <1>8, <1>10, <2>1 DEF Stops
    <2> DEFINE t2 == AsLeaf(t, q, e, right)
    <2>3. t2 \in Trees /\ LeafSays(t.lson, t.rson, t.dad, q, e, right, t2.lson, t2.rson, t2.dad)
      <3> HIDE DEF right
      <3>1. QED
        BY <1>1, <1>8, <1>9, AsLeafIs
    <2> HIDE DEF t2
    <2>4. /\ In(t2.dad) = In(t.dad) \cup {q}
          /\ \E D2, h2, top2 : Shape(buf, t2.lson, t2.rson, t2.dad, D2, h2, top2)
      BY <1>2, <1>4, <1>6, <2>1, <2>2, <2>3, LeafStep
    <2>5. Inserted(buf, t, q, t2)
      BY <2>3, <2>4, InIs DEF Inserted, Good
    <2>6. QED
      BY <1>5, <1>11, <2>5 DEF t2
  <1>12. CASE ~ (e > N \/ Common(buf, e, q) < F)
    <2>1. e \in Place /\ e \in In(t.dad)
      <3> HIDE DEF right
      <3>1. QED
        BY <1>8, <1>10, <1>12
    <2>2. Common(buf, e, q) = F
      <3> HIDE DEF right
      <3>1. QED
        BY <1>10, <1>12, <2>1
    <2>3. buf[e] = buf[q]
      <3>1. e \in D[Root(buf[q])]
        BY <1>3, <2>1
      <3>2. QED
        BY <1>2, <1>7, <2>1, <3>1 DEF Shape, Rooted
    <2>4. GoodWith(buf, TakesPlace(t, q, e), (InTrees(t) \ {e}) \cup {q})
      BY <1>1, <1>2, <1>4, <2>1, <2>2, <2>3, TakesPlaceGood
    <2>5. Inserted(buf, t, q, TakesPlace(t, q, e))
      BY <2>4 DEF Inserted, GoodWith
    <2>6. QED
      BY <1>5, <1>12, <2>5
  <1>13. QED
    BY <1>11, <1>12

(* Trees of places whose bytes have not changed.                             *)
LEMMA SameTrees ==
    ASSUME NEW b1 \in Buffer, NEW b2 \in Buffer, NEW t, Good(b1, t),
           \A p \in InTrees(t) : \A k \in 0 .. F - 1 : b1[p + k] = b2[p + k]
    PROVE  Good(b2, t)
  <1>1. PICK D, h, top : Shape(b1, t.lson, t.rson, t.dad, D, h, top)
    BY DEF Good
  <1> DEFINE ls == t.lson
             rs == t.rson
             da == t.dad
  <1>2. \A x \in In(da) : \A y \in In(da) : Less(b1, x, y) <=> Less(b2, x, y)
    <2> TAKE x \in In(da)
    <2> TAKE y \in In(da)
    <2>1. \A k \in 0 .. F - 1 : b1[x + k] = b2[x + k] /\ b1[y + k] = b2[y + k]
      BY InIs
    <2>2. QED
      BY <2>1, SameBytes
  <1>3. \A u \in In(da) : /\ u \in Place
                          /\ ls[u] # NIL => D[ls[u]] \subseteq In(da)
                          /\ rs[u] # NIL => D[rs[u]] \subseteq In(da)
    <2> TAKE u \in In(da)
    <2>1. /\ u \in Place /\ D[u] \subseteq In(da)
          /\ ls[u] # NIL => D[ls[u]] \subseteq D[u]
          /\ rs[u] # NIL => D[rs[u]] \subseteq D[u]
      BY <1>1, Family
    <2>2. QED
      BY <2>1
  <1>4. Ordered(b2, ls, rs, da, D)
    <2>1. Ordered(b1, ls, rs, da, D)
      BY <1>1 DEF Shape
    <2>2. ASSUME NEW u \in In(da)
          PROVE  /\ ls[u] # NIL => \A x \in D[ls[u]] : Less(b2, x, u)
                 /\ rs[u] # NIL => \A x \in D[rs[u]] : Less(b2, u, x)
      BY <1>2, <1>3, <2>1 DEF Ordered
    <2>3. QED
      BY <2>2 DEF Ordered
  <1>5. Rooted(b2, da, D)
    <2>1. \A x \in In(da) : b1[x] = b2[x]
      <3> TAKE x \in In(da)
      <3>1. 0 \in 0 .. F - 1 /\ x + 0 = x
        BY Sizes, SpotsAre
      <3>2. b1[x + 0] = b2[x + 0]
        BY <3>1, InIs
      <3>3. QED
        BY <3>1, <3>2
    <2>2. Rooted(b1, da, D)
      BY <1>1 DEF Shape
    <2>3. ASSUME NEW b \in Byte, NEW x \in Place
          PROVE  x \in D[Root(b)] <=> x \in In(da) /\ b2[x] = b
      BY <2>1, <2>2 DEF Rooted
    <2>4. QED
      BY <2>3 DEF Rooted
  <1>6. Shape(b2, ls, rs, da, D, h, top)
    BY <1>1, <1>4, <1>5 DEF Shape
  <1>7. QED
    BY <1>6 DEF Good

-------------------------------------------------------------------------------
(* What InsertNode() reports.                                                *)
LEMMA MaxIs ==
    ASSUME NEW S \in SUBSET Nat, NEW top \in Nat, \A k \in S : k =< top, S # {}
    PROVE  Max(S) \in S /\ \A k \in S : k =< Max(S)
  <1> DEFINE T == {top - k : k \in S}
  <1>1. T \in SUBSET Nat /\ T # {}
    <2>1. \A k \in S : top - k \in Nat
      OBVIOUS
    <2>2. QED
      BY <2>1
  <1>2. PICK m \in T : \A k \in T : m =< k
    <2> HIDE DEF T
    <2>1. QED
      BY <1>1, Smallest
  <1>3. PICK n \in S : m = top - n
    BY <1>2
  <1>4. \A k \in S : n >= k
    <2> TAKE k \in S
    <2>1. top - k \in T
      OBVIOUS
    <2>2. m =< top - k
      BY <1>2, <2>1
    <2>3. n \in Nat /\ k \in Nat
      OBVIOUS
    <2>4. QED
      BY <1>3, <2>2, <2>3
  <1>5. Max(S) \in S /\ \A k \in S : Max(S) >= k
    BY <1>4 DEF Max
  <1>6. QED
    BY <1>5

(* What Min is.                                                              *)
LEMMA MinIs ==
    ASSUME NEW S \in SUBSET Nat, S # {}
    PROVE  Min(S) \in S /\ \A k \in S : Min(S) =< k
  <1>1. \E n \in S : \A k \in S : n =< k
    BY Smallest
  <1>2. QED
    BY <1>1 DEF Min

(* Of two numbers.                                                           *)
LEMMA OfTwo ==
    ASSUME NEW a \in Nat, NEW b \in Nat
    PROVE  /\ Max({a, b}) = IF a =< b THEN b ELSE a
           /\ Min({a, b}) = IF a =< b THEN a ELSE b
  <1>1. a + b \in Nat /\ {a, b} \in SUBSET Nat /\ {a, b} # {} /\ \A k \in {a, b} : k =< a + b
    OBVIOUS
  <1>2. Max({a, b}) \in {a, b} /\ \A k \in {a, b} : k =< Max({a, b})
    BY <1>1, MaxIs
  <1>3. Min({a, b}) \in {a, b} /\ \A k \in {a, b} : Min({a, b}) =< k
    BY <1>1, MinIs
  <1> DEFINE x == Max({a, b})
             y == Min({a, b})
  <1>4. x \in {a, b} /\ a =< x /\ b =< x /\ y \in {a, b} /\ y =< a /\ y =< b
    BY <1>2, <1>3
  <1> HIDE DEF x, y
  <1>5. QED
    BY <1>4 DEF x, y

(* The longest match n of q, and that of v.                                  *)
Best(buf, t, q, n) ==
    /\ n \in 0 .. F
    /\ \A x \in InTrees(t) : buf[x] = buf[q] => Common(buf, x, q) =< n

IsMatch(buf, t, q, n, d) ==
    \E v \in InTrees(t) : buf[v] = buf[q] /\ Common(buf, v, q) = n /\ d = Distance(v, q)

(* The places InsertNode() compares with have the best match, and the nearest. *)
LEMMA SearchReports ==
    ASSUME NEW buf \in Buffer, NEW t, Good(buf, t), NEW q \in Place,
           NEW n, n = Longest(Visited(buf, t, q), buf, q)
    PROVE  /\ Best(buf, t, q, n)
           /\ n > 0 => IsMatch(buf, t, q, n, Nearest(Visited(buf, t, q), buf, q, n))
  <1>1. PICK D, h, top : Shape(buf, t.lson, t.rson, t.dad, D, h, top)
    BY DEF Good
  <1> DEFINE w == Path(buf, t, q)
             V == Visited(buf, t, q)
  <1>2. /\ \A x \in In(t.dad) : buf[x] = buf[q] =>
             \E v \in V : Common(buf, x, q) =< Common(buf, v, q)
        /\ buf[q] \in Byte /\ V \subseteq Place /\ V \subseteq D[Root(buf[q])]
    <2>1. w = Path(buf, t, q)
      OBVIOUS
    <2> HIDE DEF w
    <2>2. QED
      BY <1>1, <2>1, WayIs
  <1> HIDE DEF w, V
  <1>3. buf[q] \in Byte /\ V \subseteq Place /\ V \subseteq D[Root(buf[q])]
    BY <1>2
  <1>4. \A v \in V : v \in In(t.dad) /\ buf[v] = buf[q]
    BY <1>1, <1>3 DEF Shape, Rooted
  <1>5. \A v \in V : Common(buf, v, q) \in 1 .. F
    BY <1>3, OneIsLess
  <1> DEFINE S == {0} \cup {Common(buf, v, q) : v \in V}
  <1>6. F \in Nat /\ S \in SUBSET Nat /\ S # {} /\ (\A k \in S : k =< F)
    BY <1>5, Sizes
  <1>7. n = Max(S)
    BY DEF Longest, V
  <1>8. n \in S /\ \A k \in S : k =< n
    <2> HIDE DEF S
    <2>1. QED
      BY <1>6, <1>7, MaxIs
  <1>9. n \in 0 .. F
    BY <1>6, <1>8
  <1>10. \A v \in V : Common(buf, v, q) =< n
    BY <1>8
  <1>11. Best(buf, t, q, n)
    <2>1. ASSUME NEW x \in InTrees(t), buf[x] = buf[q] PROVE Common(buf, x, q) =< n
      <3>1. x \in In(t.dad) /\ x \in Place
        BY InIs DEF InTrees
      <3>2. PICK v \in V : Common(buf, x, q) =< Common(buf, v, q)
        BY <1>2, <2>1, <3>1
      <3>3. Common(buf, x, q) \in 1 .. F /\ Common(buf, v, q) \in 1 .. F /\ Common(buf, v, q) =< n
        BY <1>5, <1>10, <3>1, OneIsLess
      <3>4. QED
        BY <1>9, <3>2, <3>3
    <2>2. QED
      BY <1>9, <2>1 DEF Best
  <1>12. ASSUME n > 0 PROVE IsMatch(buf, t, q, n, Nearest(V, buf, q, n))
    <2> DEFINE C == {p \in V : Common(buf, p, q) = n}
               T == {Distance(p, q) : p \in C}
    <2>1. C # {}
      BY <1>8, <1>12
    <2>2. T \in SUBSET Nat /\ T # {}
      <3>1. \A p \in C : Distance(p, q) \in Nat
        <4> TAKE p \in C
        <4>1. q - p \in Int /\ N \in Nat /\ N > 0
          BY <1>3, Sizes
        <4>2. QED
          BY <4>1 DEF Distance
      <3>2. QED
        BY <2>1, <3>1
    <2>3. Nearest(V, buf, q, n) = Min(T)
      BY DEF Nearest
    <2>4. Min(T) \in T
      <3> HIDE DEF T
      <3>1. QED
        BY <2>2, MinIs
    <2>5. PICK v \in C : Min(T) = Distance(v, q)
      BY <2>4
    <2>6. v \in InTrees(t) /\ buf[v] = buf[q] /\ Common(buf, v, q) = n
      BY <1>4, InIs
    <2> HIDE DEF C, T
    <2>7. QED
      BY <2>3, <2>5, <2>6 DEF IsMatch
  <1>13. QED
    BY <1>11, <1>12 DEF V

(* So what it leaves behind is                                               *)
Reported(buf, t, q, ml, mp) ==
    /\ ml \in 0 .. F
    /\ ml > 0 => ml > Threshold /\ IsMatch(buf, t, q, ml, mp + 1)
    /\ \A x \in InTrees(t) : buf[x] = buf[q] => Common(buf, x, q) =< Max({Threshold, ml})

(* The whole of InsertNode().                                                *)
LEMMA InsertNodeDoes ==
    ASSUME NEW buf \in Buffer, NEW t, Good(buf, t), NEW q \in Place, q \notin InTrees(t),
           match_position \in 0 .. N - 1, InsertNode(buf, t, q)
    PROVE  /\ Inserted(buf, t, q, tree')
           /\ Reported(buf, t, q, match_length', match_position')
           /\ match_position' \in 0 .. N - 1
  <1> DEFINE n == Longest(Visited(buf, t, q), buf, q)
             d == Nearest(Visited(buf, t, q), buf, q, n)
  <1>1. /\ tree' = Insert(buf, t, q)
        /\ IF n > Threshold THEN match_length' = n /\ match_position' = d - 1
           ELSE match_length' = 0 /\ match_position' = match_position
    BY DEF InsertNode
  <1>2. Inserted(buf, t, q, tree')
    BY <1>1, InsertGood
  <1>3. Best(buf, t, q, n) /\ (n > 0 => IsMatch(buf, t, q, n, d))
    BY SearchReports
  <1> HIDE DEF n, d
  <1>4. n \in 0 .. F /\ F \in Nat /\ Threshold \in Nat /\ Threshold >= 1 /\ N \in Nat /\ N > 0
    BY <1>3, Sizes DEF Best
  <1>5. \A x \in InTrees(t) : Common(buf, x, q) \in 1 .. F
    BY OneIsLess DEF InTrees
  <1>6. CASE n > Threshold
    <2>1. match_length' = n /\ match_position' = d - 1 /\ IsMatch(buf, t, q, n, d)
      BY <1>1, <1>3, <1>4, <1>6
    <2>2. PICK v \in InTrees(t) : d = Distance(v, q)
      BY <2>1 DEF IsMatch
    <2>3. v \in Place /\ v # q
      BY DEF InTrees
    <2>4. d \in 1 .. N - 1
      <3>1. v \in 0 .. N - 1 /\ q \in 0 .. N - 1
        BY <2>3, Sizes
      <3>2. d = (q - v) % N
        BY <2>2 DEF Distance
      <3>3. q > v => (q - v) % N = q - v
        BY <1>4, <3>1
      <3>4. q < v => (q - v) % N = q - v + N
        <4> SUFFICES ASSUME q < v PROVE (q - v) % N = q - v + N
          OBVIOUS
        <4>1. q - v + N \in 0 .. N - 1 /\ q - v = N * (-1) + (q - v + N)
          BY <1>4, <3>1
        <4> DEFINE x == q - v + N
        <4>2. x \in 0 .. N - 1 /\ q - v = N * (-1) + x
          BY <4>1
        <4> HIDE DEF x
        <4>3. (N * (-1) + x) % N = x
          BY <1>4, <4>2
        <4>4. QED
          BY <4>2, <4>3 DEF x
      <3>5. QED
        BY <1>4, <2>3, <3>1, <3>2, <3>3, <3>4
    <2>5. d - 1 + 1 = d
      BY <2>4
    <2>6. Max({Threshold, n}) = n
      BY <1>4, <1>6, OfTwo
    <2>7. Reported(buf, t, q, n, d - 1)
      BY <1>3, <1>4, <1>6, <2>1, <2>5, <2>6 DEF Reported, Best
    <2>8. d - 1 \in 0 .. N - 1
      BY <1>4, <2>4
    <2>9. QED
      BY <1>2, <2>1, <2>7, <2>8
  <1>7. CASE ~ (n > Threshold)
    <2>1. match_length' = 0 /\ match_position' = match_position
      BY <1>1, <1>7
    <2>2. Max({Threshold, 0}) = Threshold
      BY <1>4, OfTwo
    <2>3. \A x \in InTrees(t) : buf[x] = buf[q] => Common(buf, x, q) =< Threshold
      <3> TAKE x \in InTrees(t)
      <3>1. buf[x] = buf[q] => Common(buf, x, q) =< n
        BY <1>3 DEF Best
      <3>2. QED
        BY <1>4, <1>5, <1>7, <3>1
    <2>4. Reported(buf, t, q, 0, match_position)
      BY <1>4, <2>2, <2>3 DEF Reported
    <2>5. QED
      BY <1>2, <2>1, <2>4
  <1>8. QED
    BY <1>6, <1>7

-------------------------------------------------------------------------------
(* The ring: positions in what has been coded, and their places.             *)
LEMMA Quotient ==
    ASSUME NEW a \in Int
    PROVE  a % N \in Place /\ a % N \in Nat /\ \E k \in Int : a = N * k + (a % N)
  <1>1. N \in Nat /\ N > 0 /\ Place = 0 .. N - 1
    BY Sizes
  <1>2. a % N \in 0 .. N - 1 /\ a \div N \in Int
    BY <1>1
  <1>3. a = N * (a \div N) + (a % N)
    BY <1>1
  <1> DEFINE k == a \div N
             x == a % N
  <1>4. x \in 0 .. N - 1 /\ k \in Int /\ a = N * k + x
    BY <1>2, <1>3
  <1> HIDE DEF k, x
  <1>5. x \in Place /\ x \in Nat /\ \E m \in Int : a = N * m + x
    BY <1>1, <1>4
  <1>6. QED
    BY <1>5 DEF x

(* A place is its own remainder.                                             *)
LEMMA Remainder ==
    ASSUME NEW k \in Int, NEW x \in Place
    PROVE  (N * k + x) % N = x
  <1>1. N \in Nat /\ N > 0 /\ x \in 0 .. N - 1
    BY Sizes
  <1>2. QED
    BY <1>1

(* Whole rounds of the ring change nothing.                                  *)
LEMMA Shifted ==
    ASSUME NEW a \in Int, NEW k \in Int
    PROVE  (N * k + a) % N = a % N
  <1>1. PICK m \in Int : a = N * m + (a % N)
    BY Quotient
  <1> DEFINE x == a % N
  <1>2. x \in Place /\ a = N * m + x
    BY <1>1, Quotient
  <1> HIDE DEF x
  <1>3. N \in Nat /\ x \in Nat
    BY <1>2, Sizes
  <1>4. N * k + a = N * (k + m) + x
    BY <1>2, <1>3
  <1>5. (N * (k + m) + x) % N = x
    BY <1>2, Remainder
  <1>6. QED
    BY <1>4, <1>5 DEF x

(* A place is its own position.                                              *)
LEMMA PlaceIs ==
    ASSUME NEW a \in Place
    PROVE  a % N = a /\ a \in Nat /\ a < N
  BY Sizes

(* Positions can be added up before or after they are reduced to places.     *)
LEMMA PlusMod ==
    ASSUME NEW a \in Int, NEW b \in Int
    PROVE  ((a % N) + b) % N = (a + b) % N
  <1>1. PICK k \in Int : a = N * k + (a % N)
    BY Quotient
  <1> DEFINE x == a % N
  <1>2. x \in Nat /\ N \in Nat /\ a = N * k + x
    BY <1>1, Quotient, Sizes
  <1> HIDE DEF x
  <1>3. a + b = N * k + (x + b) /\ x + b \in Int
    BY <1>2
  <1>4. (a + b) % N = (x + b) % N
    BY <1>3, Shifted
  <1>5. QED
    BY <1>4 DEF x

(* Of fewer than N positions each has its own place.                         *)
LEMMA Apart ==
    ASSUME NEW a \in Int, NEW b \in Int, a < b, b - a < N
    PROVE  a % N # b % N
  <1> SUFFICES ASSUME a % N = b % N PROVE FALSE
    OBVIOUS
  <1> DEFINE x == a % N
  <1>1. PICK k \in Int : a = N * k + x
    BY Quotient
  <1>2. PICK m \in Int : b = N * m + x
    BY Quotient
  <1>3. x \in Nat /\ N \in Nat /\ N > 0
    BY Quotient, Sizes
  <1> HIDE DEF x
  <1>4. b - a = N * (m - k)
    BY <1>1, <1>2, <1>3
  <1> DEFINE j == m - k
  <1>5. j \in Int /\ b - a = N * j
    BY <1>4
  <1> HIDE DEF j
  <1>6. j >= 1 => N * j >= N
    BY <1>3, <1>5
  <1>7. j =< 0 => N * j =< 0
    BY <1>3, <1>5
  <1>8. QED
    BY <1>3, <1>5, <1>6, <1>7

(* The distance of two positions' places.                                    *)
LEMMA DistanceIs ==
    ASSUME NEW a \in Int, NEW b \in Int
    PROVE  Distance(a % N, b % N) = (b - a) % N
  <1> DEFINE x == a % N
             y == b % N
  <1>1. PICK k \in Int : a = N * k + x
    BY Quotient
  <1>2. PICK m \in Int : b = N * m + y
    BY Quotient
  <1>3. x \in Nat /\ y \in Nat /\ N \in Nat
    BY Quotient, Sizes
  <1> HIDE DEF x, y
  <1>4. b - a = N * (m - k) + (y - x) /\ m - k \in Int /\ y - x \in Int
    BY <1>1, <1>2, <1>3
  <1>5. (b - a) % N = (y - x) % N
    BY <1>4, Shifted
  <1>6. QED
    BY <1>5 DEF Distance, x, y

(* p is behind b by its distance.                                            *)
LEMMA Behind ==
    ASSUME NEW p \in Place, NEW b \in Int
    PROVE  /\ Distance(p, b % N) \in 0 .. N - 1
           /\ p = (b - Distance(p, b % N)) % N
  <1> DEFINE d == Distance(p, b % N)
  <1>1. p \in Int /\ p % N = p
    BY PlaceIs, Sizes
  <1>2. d = (b - p) % N
    BY <1>1, DistanceIs
  <1>3. PICK k \in Int : b - p = N * k + d
    BY <1>1, <1>2, Quotient
  <1>4. d \in 0 .. N - 1 /\ N \in Nat
    <2>1. N \in Nat /\ N > 0 /\ b - p \in Int
      BY <1>1, Sizes
    <2>2. QED
      BY <1>2, <2>1
  <1> HIDE DEF d
  <1>5. b - d = N * k + p
    BY <1>1, <1>3, <1>4
  <1>6. (b - d) % N = p
    BY <1>5, Remainder
  <1>7. QED
    BY <1>4, <1>6 DEF d

(* When the ring advances, so do the distances.                              *)
LEMMA Farther ==
    ASSUME NEW p \in Place, NEW b \in Int, Distance(p, b % N) < N - 1
    PROVE  Distance(p, (b + 1) % N) = Distance(p, b % N) + 1
  <1> DEFINE d == Distance(p, b % N)
  <1>1. d \in 0 .. N - 1 /\ p = (b - d) % N /\ N \in Nat
    BY Behind, Sizes
  <1> HIDE DEF d
  <1>2. b - d \in Int /\ b + 1 \in Int /\ (b + 1) - (b - d) = d + 1
    BY <1>1
  <1>3. Distance((b - d) % N, (b + 1) % N) = ((b + 1) - (b - d)) % N
    BY <1>2, DistanceIs
  <1>4. d + 1 \in Place
    BY <1>1, Sizes DEF d
  <1>5. (d + 1) % N = d + 1
    BY <1>4, PlaceIs
  <1>6. QED
    BY <1>1, <1>2, <1>3, <1>5 DEF d

(* Induction.                                                                *)
LEMMA NatSteps ==
    ASSUME NEW S, 0 \in S, \A n \in Nat : n \in S => n + 1 \in S
    PROVE  Nat \subseteq S
  <1> SUFFICES ASSUME NEW m \in Nat, m \notin S PROVE FALSE
    OBVIOUS
  <1> DEFINE B == {n \in Nat : n \notin S}
  <1>1. B \in SUBSET Nat /\ B # {}
    OBVIOUS
  <1> HIDE DEF B
  <1>2. PICK n \in B : \A k \in B : n =< k
    BY <1>1, Smallest
  <1>3. n \in Nat /\ n \notin S /\ n # 0
    BY <1>2 DEF B
  <1>4. n - 1 \in Nat /\ ~ (n =< n - 1) /\ (n - 1) + 1 = n
    BY <1>3
  <1>5. n - 1 \in S
    BY <1>2, <1>4 DEF B
  <1>6. QED
    BY <1>3, <1>4, <1>5

-------------------------------------------------------------------------------
(* What the rings hold.                                                      *)

(* The byte at the position a: blanks, and then the text.                    *)
Expect(txt, a) == IF a < N - F THEN 0 ELSE txt[a - (N - F) + 1]

(* A ring has the positions from .. to - 1; the encoder's also repeats those *)
(* at its beginning behind its end, once it has come round.                  *)
Has(f, txt, from, to) == \A a \in from .. to - 1 : f[a % N] = Expect(txt, a)

Kept(buf, txt, from, to) ==
    /\ Has(buf, txt, from, to)
    /\ \A a \in from .. to - 1 :
          a >= N /\ a % N < F - 1 => buf[(a % N) + N] = Expect(txt, a)

(* One byte more in the decoder's ring.                                      *)
LEMMA HasNext ==
    ASSUME NEW V, NEW f \in [Place -> V], NEW txt, NEW c \in Nat, NEW to \in Nat, to - c < N,
           Has(f, txt, c, to),
           NEW x, x = to % N, NEW b, b = Expect(txt, to), NEW g, g = [f EXCEPT ![x] = b]
    PROVE  Has(g, txt, c, to + 1)
  <1>1. SUFFICES ASSUME NEW a \in c .. (to + 1) - 1 PROVE g[a % N] = Expect(txt, a)
    BY DEF Has
  <1>2. a \in Int /\ to \in Int /\ a % N \in Place /\ to % N \in Place
    BY Quotient
  <1>3. CASE a = to
    BY <1>2, <1>3
  <1>4. CASE a # to
    <2>1. a < to /\ to - a < N /\ a \in c .. to - 1
      BY <1>4, Sizes
    <2>2. a % N # to % N
      BY <1>2, <2>1, Apart
    <2>3. f[a % N] = Expect(txt, a)
      BY <2>1 DEF Has
    <2>4. QED
      BY <1>2, <2>2, <2>3
  <1>5. QED
    BY <1>3, <1>4

(* F bytes can be compared from any place: j is where InsertNode() finds the *)
(* one at the position e, from that of a on.                                 *)
Reads(a, k, e, j) == a \in Nat /\ k \in 0 .. F - 1 /\ e = a + k /\ j = (a % N) + k

(* What InsertNode() compares are the bytes of the positions.                *)
LEMMA KeptAt ==
    ASSUME NEW buf, NEW txt, NEW c \in Nat, NEW to \in Int, Kept(buf, txt, c, to),
           NEW a, NEW k, NEW e, NEW j, Reads(a, k, e, j), c =< e, e < to
    PROVE  buf[j] = Expect(txt, e)
  <1> SUFFICES ASSUME a \in Nat, k \in 0 .. F - 1, e = a + k, NEW x, x = a % N, j = x + k
               PROVE  buf[j] = Expect(txt, e)
    BY DEF Reads
  <1>1. /\ x \in Nat /\ x < N /\ N \in Nat /\ F \in Nat /\ F < N /\ N > 0 /\ k \in Nat /\ k < F
        /\ k =< F - 1 /\ e \in c .. to - 1 /\ e \in Nat /\ e \in Int /\ a \in Int
    <2>1. N \in Nat /\ F \in Nat /\ F < N /\ N > 0 /\ Place = 0 .. N - 1
      BY Sizes
    <2>2. a \in Int /\ k \in Nat /\ k < F /\ k =< F - 1
      BY <2>1
    <2>3. x \in Place
      BY <2>2, Quotient
    <2>4. QED
      BY <2>1, <2>2, <2>3
  <1>2. PICK m \in Int : a = N * m + x
    BY Quotient
  <1>3. (x + k) % N = e % N
    <2>1. k \in Int
      BY <1>1
    <2>2. QED
      BY <1>1, <2>1, PlusMod
  <1>4. buf[e % N] = Expect(txt, e)
    BY <1>1 DEF Kept, Has
  <1>5. e >= N /\ e % N < F - 1 => buf[(e % N) + N] = Expect(txt, e)
    BY <1>1 DEF Kept
  <1>6. m >= 0
    <2>1. m =< 0 - 1 => N * m =< 0 - N
      BY <1>1
    <2>2. QED
      BY <1>1, <1>2, <2>1
  <1>7. CASE x + k < N
    <2>1. x + k \in Place
      BY <1>1, <1>7, Sizes
    <2>2. e % N = x + k
      BY <1>3, <2>1, PlaceIs
    <2>3. QED
      BY <1>4, <2>2
  <1>8. CASE x + k >= N
    <2> DEFINE y == x + k - N
    <2>1. y \in Place /\ x + k = N * 1 + y /\ y < F - 1
      BY <1>1, <1>8, Sizes
    <2>2. e % N = y
      BY <1>3, <2>1, Remainder
    <2>3. e >= N
      <3>1. N * m >= 0
        BY <1>1, <1>6
      <3> DEFINE z == N * m
      <3> HIDE DEF z
      <3>2. z \in Int /\ z >= 0 /\ a = z + x
        BY <1>1, <1>2, <3>1 DEF z
      <3>3. QED
        BY <1>1, <1>8, <3>2
    <2>4. buf[y + N] = Expect(txt, e)
      BY <1>5, <2>1, <2>2, <2>3
    <2>5. y + N = x + k
      BY <1>1
    <2>6. QED
      BY <2>4, <2>5
  <1>9. QED
    BY <1>1, <1>7, <1>8

(* The byte b is put in place of the oldest.                                 *)
Overwrites(buf, q, b, buf2) ==
    buf2 = [p \in DOMAIN buf |-> IF p = q \/ (q < F - 1 /\ p = q + N) THEN b ELSE buf[p]]

(* What ReadByte leaves in text_buf.                                         *)
LEMMA OverwritesIs ==
    ASSUME NEW buf \in Buffer, NEW q \in Place, NEW b \in Byte, NEW buf2, Overwrites(buf, q, b, buf2)
    PROVE  /\ buf2 \in Buffer
           /\ buf2[q] = b /\ (q < F - 1 => buf2[q + N] = b)
           /\ \A p \in Index : p # q /\ p # q + N => buf2[p] = buf[p]
  BY Sizes DEF Overwrites, Buffer, Index

(* The window has moved by one byte.                                         *)
LEMMA KeptNext ==
    ASSUME NEW buf \in Buffer, NEW txt, NEW c \in Nat, Kept(buf, txt, c, c + N),
           Expect(txt, c + N) \in Byte,
           NEW buf2, Overwrites(buf, c % N, Expect(txt, c + N), buf2)
    PROVE  buf2 \in Buffer /\ Kept(buf2, txt, c + 1, c + N + 1)
  <1> DEFINE q == c % N
             b == Expect(txt, c + N)
  <1>1. q \in Place /\ q \in Nat /\ c \in Int /\ N \in Nat /\ N > 0 /\ F \in Nat /\ F < N
    BY Quotient, Sizes
  <1> HIDE DEF b, q
  <1>2. /\ buf2 \in Buffer
        /\ buf2[q] = b /\ (q < F - 1 => buf2[q + N] = b)
        /\ \A p \in Index : p # q /\ p # q + N => buf2[p] = buf[p]
    BY <1>1, OverwritesIs DEF b, q
  <1>3. ASSUME NEW a \in c + 1 .. (c + N + 1) - 1
        PROVE  /\ buf2[a % N] = Expect(txt, a)
               /\ a >= N /\ a % N < F - 1 => buf2[(a % N) + N] = Expect(txt, a)
    <2> DEFINE x == a % N
    <2>1. a \in Int /\ x \in Place /\ x \in Nat /\ x < N
      BY <1>1, Quotient, Sizes
    <2>2. CASE a = c + N
      <3>1. a = N * 1 + c
        BY <1>1, <2>2
      <3>2. x = q
        <4>1. \A k \in Int : (N * k + c) % N = c % N
          BY <1>1, Shifted
        <4>2. QED
          BY <3>1, <4>1 DEF q
      <3> HIDE DEF x
      <3>3. QED
        BY <1>2, <2>2, <3>2 DEF x, b
    <2>3. CASE a # c + N
      <3>1. a \in c .. (c + N) - 1 /\ c < a /\ a - c < N
        BY <1>1, <2>3
      <3>2. x # q
        BY <1>1, <2>1, <3>1, Apart DEF q
      <3>3. buf[x] = Expect(txt, a) /\ (a >= N /\ x < F - 1 => buf[x + N] = Expect(txt, a))
        BY <3>1 DEF Kept, Has
      <3> HIDE DEF x
      <3>4. x # q + N /\ x \in Index /\ buf2[x] = buf[x]
        <4>1. x # q + N /\ x \in Index
          <5>1. x \in Nat /\ x < N
            BY <2>1 DEF x
          <5>2. 2 =< F
            BY Sizes
          <5>3. QED
            BY <1>1, <5>1, <5>2 DEF Index
        <4>2. QED
          BY <1>2, <3>2, <4>1
      <3>5. x < F - 1 => x + N # q + N /\ x + N # q /\ x + N \in Index /\ buf2[x + N] = buf[x + N]
        <4>1. x + N # q + N /\ x + N # q
          BY <1>1, <2>1, <3>2, PlaceIs
        <4>2. x < F - 1 => x + N \in Index
          BY <1>1, <2>1 DEF Index
        <4>3. QED
          BY <1>2, <4>1, <4>2
      <3>6. QED
        BY <3>3, <3>4, <3>5 DEF x
    <2>4. QED
      BY <2>2, <2>3
  <1>4. QED
    BY <1>2, <1>3 DEF Kept, Has

(* The places of the window less the oldest have none of their bytes there.  *)
LEMMA BytesStay ==
    ASSUME NEW buf \in Buffer, NEW c \in Nat, NEW b \in Byte,
           NEW buf2, Overwrites(buf, c % N, b, buf2),
           NEW d \in 0 .. N - F - 1, NEW k \in 0 .. F - 1,
           NEW p, p = ((c + (N - F)) - d) % N
    PROVE  buf[p + k] = buf2[p + k]
  <1> DEFINE q == c % N
             a == (c + (N - F)) - d
             e == a + k
  <1>1. /\ q \in Place /\ q \in Nat /\ q < N /\ c \in Int /\ N \in Nat /\ N > 0 /\ F \in Nat
        /\ F < N /\ k \in Nat /\ k =< F - 1
    <2>1. N \in Nat /\ F \in Nat /\ F < N /\ N > 0 /\ Place = 0 .. N - 1
      BY Sizes
    <2>2. c \in Int /\ k \in Nat /\ k =< F - 1
      BY <2>1
    <2>3. q \in Place
      BY <2>2, Quotient
    <2> HIDE DEF q
    <2>4. QED
      BY <2>1, <2>2, <2>3
  <1>2. a \in Int /\ e \in Int /\ c < e /\ e - c < N
    BY <1>1
  <1> HIDE DEF a
  <1>3. p \in Place /\ p \in Nat /\ p < N
    BY <1>1, <1>2, Quotient, Sizes DEF a
  <1>4. (p + k) % N = e % N
    BY <1>1, <1>2, PlusMod DEF a
  <1> HIDE DEF e
  <1>5. e % N # q
    BY <1>1, <1>2, Apart
  <1> HIDE DEF q
  <1>6. p + k # q /\ p + k # q + N
    <2>1. p + k # q
      <3>1. q % N = q
        BY <1>1, PlaceIs
      <3>2. QED
        BY <1>4, <1>5, <3>1
    <2>2. p + k # q + N
      <3>1. (N * 1 + q) % N = q
        BY <1>1, Remainder
      <3>2. N * 1 + q = q + N
        BY <1>1
      <3>3. QED
        BY <1>4, <1>5, <3>1, <3>2
    <2>3. QED
      BY <2>1, <2>2
  <1>7. p + k \in Index
    BY <1>1, <1>3 DEF Index
  <1>8. \A x \in Index : x # q /\ x # q + N => buf2[x] = buf[x]
    BY <1>1, OverwritesIs DEF q
  <1>9. QED
    BY <1>6, <1>7, <1>8

(* A byte of the text.                                                       *)
LEMMA TextAt ==
    ASSUME NEW txt \in Seq(Byte), NEW a \in Nat, a >= N - F, a - (N - F) < Len(txt)
    PROVE  /\ Expect(txt, a) = txt[(a - (N - F)) + 1]
           /\ Expect(txt, a) \in Byte
  <1> DEFINE k == (a - (N - F)) + 1
  <1>1. N \in Nat /\ F \in Nat /\ 2 * F =< N /\ Len(txt) \in Nat
    BY Sizes
  <1>2. k \in 1 .. Len(txt)
    BY <1>1
  <1>3. ~ (a < N - F)
    BY <1>1
  <1>4. Expect(txt, a) = txt[k]
    BY <1>3 DEF Expect
  <1> HIDE DEF k
  <1>5. txt[k] \in Byte
    BY <1>1, <1>2
  <1>6. QED
    BY <1>4, <1>5 DEF k

(* Before the first byte: blanks.                                            *)
LEMMA FirstBlanks ==
    ASSUME NEW f, NEW txt, \A p \in 0 .. N - F - 1 : f[p] = 0
    PROVE  Has(f, txt, 0, (N - F) + 0)
  <1>1. N \in Nat /\ F \in Nat /\ 2 * F =< N
    BY Sizes
  <1>2. ASSUME NEW a \in 0 .. N - F - 1 PROVE f[a % N] = Expect(txt, a)
    <2>1. a \in Place /\ a < N - F
      BY <1>1, Sizes
    <2>2. a % N = a
      BY <2>1, PlaceIs
    <2>3. QED
      BY <2>1, <2>2 DEF Expect
  <1>3. (N - F) + 0 = N - F
    BY <1>1
  <1>4. QED
    BY <1>2, <1>3 DEF Has

(* The first n bytes are read.                                               *)
LEMMA FirstBytes ==
    ASSUME NEW txt \in Seq(Byte), NEW n \in Nat, n =< F, n =< Len(txt),
           NEW buf \in Buffer, \A p \in 0 .. N - F - 1 : buf[p] = 0,
           NEW buf2, buf2 = [p \in Index |->
                               IF p \in (N - F) .. (N - F) + n - 1 THEN txt[(p - (N - F)) + 1]
                               ELSE buf[p]]
    PROVE  buf2 \in Buffer /\ Kept(buf2, txt, 0, n + (N - F))
  <1>1. N \in Nat /\ F \in Nat /\ 2 =< F /\ 2 * F =< N /\ Len(txt) \in Nat
    BY Sizes
  <1>2. ASSUME NEW p \in Index
        PROVE  /\ p < N - F => buf2[p] = buf[p] /\ buf2[p] \in Byte
               /\ ~ (p < N - F) /\ p < n + (N - F) =>
                     buf2[p] = Expect(txt, p) /\ buf2[p] \in Byte
               /\ ~ (p < n + (N - F)) => buf2[p] = buf[p] /\ buf2[p] \in Byte
    <2>1. p \in Nat /\ buf[p] \in Byte
      BY <1>1 DEF Index, Buffer
    <2>2. p < N - F => p \notin (N - F) .. (N - F) + n - 1
      BY <1>1, <2>1
    <2>3. ~ (p < n + (N - F)) => p \notin (N - F) .. (N - F) + n - 1
      BY <1>1, <2>1
    <2>4. ASSUME ~ (p < N - F), p < n + (N - F)
          PROVE  buf2[p] = Expect(txt, p) /\ buf2[p] \in Byte
      <3>1. p \in (N - F) .. (N - F) + n - 1 /\ p >= N - F /\ p - (N - F) < Len(txt)
        BY <1>1, <2>1, <2>4
      <3>2. buf2[p] = txt[(p - (N - F)) + 1]
        BY <3>1
      <3>3. Expect(txt, p) = txt[(p - (N - F)) + 1] /\ Expect(txt, p) \in Byte
        BY <2>1, <3>1, TextAt
      <3>4. QED
        BY <3>2, <3>3
    <2>5. QED
      BY <2>1, <2>2, <2>3, <2>4
  <1>3. buf2 \in Buffer
    <2>1. \A p \in Index : buf2[p] \in Byte
      BY <1>2
    <2>2. buf2 = [p \in Index |-> buf2[p]]
      OBVIOUS
    <2>3. QED
      BY <2>1, <2>2 DEF Buffer
  <1>4. ASSUME NEW a \in 0 .. (n + (N - F)) - 1
        PROVE  buf2[a % N] = Expect(txt, a) /\ ~ (a >= N)
    <2>1. a \in Index /\ a \in Nat /\ a < n + (N - F) /\ a < N /\ a \in Place
      BY <1>1, Sizes DEF Index
    <2>2. a % N = a
      BY <2>1, PlaceIs
    <2>3. CASE a < N - F
      <3>1. buf2[a] = buf[a] /\ a \in 0 .. N - F - 1
        BY <1>1, <1>2, <2>1, <2>3
      <3>2. QED
        BY <1>1, <2>1, <2>2, <2>3, <3>1 DEF Expect
    <2>4. CASE ~ (a < N - F)
      <3>1. buf2[a] = Expect(txt, a)
        BY <1>2, <2>1, <2>4
      <3>2. QED
        BY <1>1, <2>1, <2>2, <3>1
    <2>5. QED
      BY <2>3, <2>4
  <1>5. QED
    BY <1>3, <1>4 DEF Kept, Has

(* What Decode() copies for a match, one byte after the other.               *)
Copying(f, ring0, to, from, n) ==
    f = [k \in 0 .. n |->
            IF k = 0 THEN ring0
            ELSE [f[k - 1] EXCEPT ![(to + k - 1) % N] = f[k - 1][(from + k - 1) % N]]]

(* Decode()'s copy exists for any number of bytes.                           *)
LEMMA CopyingExists ==
    ASSUME NEW ring0, NEW to \in Int, NEW from \in Int, NEW n \in Nat
    PROVE  \E f : Copying(f, ring0, to, from, n)
  <1> DEFINE S == {m \in Nat : \E f : Copying(f, ring0, to, from, m)}
             Next1(g, k) == [g EXCEPT ![(to + k - 1) % N] = g[(from + k - 1) % N]]
  <1>1. 0 \in S
    <2> DEFINE f == [k \in 0 .. 0 |-> ring0]
    <2>1. f = [k \in 0 .. 0 |-> IF k = 0 THEN ring0 ELSE Next1(f[k - 1], k)]
      OBVIOUS
    <2>2. Copying(f, ring0, to, from, 0)
      BY <2>1 DEF Copying
    <2>3. QED
      BY <2>2
  <1>2. ASSUME NEW m \in Nat, m \in S PROVE m + 1 \in S
    <2> HIDE DEF Next1
    <2>1. PICK f : Copying(f, ring0, to, from, m)
      BY <1>2
    <2>2. f = [k \in 0 .. m |-> IF k = 0 THEN ring0 ELSE Next1(f[k - 1], k)]
      BY <2>1 DEF Copying, Next1
    <2> DEFINE g == [k \in 0 .. m + 1 |-> IF k =< m THEN f[k] ELSE Next1(f[m], k)]
    <2>3. /\ \A k \in 0 .. m : g[k] = f[k]
          /\ g[m + 1] = Next1(f[m], m + 1)
      OBVIOUS
    <2>4. \A k \in 0 .. m : f[k] = IF k = 0 THEN ring0 ELSE Next1(f[k - 1], k)
      BY <2>2
    <2>5. \A k \in 0 .. m + 1 : g[k] = IF k = 0 THEN ring0 ELSE Next1(g[k - 1], k)
      <3> SUFFICES ASSUME NEW k \in 0 .. m + 1
                   PROVE  g[k] = IF k = 0 THEN ring0 ELSE Next1(g[k - 1], k)
        OBVIOUS
      <3> HIDE DEF g
      <3>1. CASE k = m + 1
        <4>1. k - 1 = m /\ k # 0 /\ m \in 0 .. m
          BY <3>1
        <4>2. QED
          BY <2>3, <3>1, <4>1
      <3>2. CASE k # m + 1
        <4>1. k \in 0 .. m /\ (k # 0 => k - 1 \in 0 .. m)
          BY <3>2
        <4>2. QED
          BY <2>3, <2>4, <4>1
      <3>3. QED
        BY <3>1, <3>2
    <2>6. g = [k \in 0 .. m + 1 |-> g[k]]
      OBVIOUS
    <2> HIDE DEF g
    <2>7. g = [k \in 0 .. m + 1 |-> IF k = 0 THEN ring0 ELSE Next1(g[k - 1], k)]
      BY <2>5, <2>6
    <2>8. Copying(g, ring0, to, from, m + 1)
      BY <2>7 DEF Copying, Next1
    <2>9. QED
      BY <2>8
  <1> HIDE DEF S
  <1>3. Nat \subseteq S
    BY <1>1, <1>2, NatSteps
  <1>4. QED
    BY <1>3 DEF S

(* One byte of it.                                                           *)
LEMMA CopyingAt ==
    ASSUME NEW f, NEW ring0, NEW to, NEW from, NEW n, Copying(f, ring0, to, from, n),
           NEW m \in Nat, m + 1 \in 0 .. n
    PROVE  f[m + 1] = [f[m] EXCEPT ![(to + (m + 1) - 1) % N] = f[m][(from + (m + 1) - 1) % N]]
  <1>1. m + 1 # 0 /\ (m + 1) - 1 = m
    OBVIOUS
  <1>2. QED
    BY <1>1 DEF Copying

(* The n bytes from front on are those d positions before.                   *)
Repeats(txt, front, d, n, V) ==
    \A k \in 0 .. n - 1 : /\ Expect(txt, (front + k) - d) = Expect(txt, front + k)
                          /\ Expect(txt, front + k) \in V

(* Where the text goes on d positions after it has gone on so before, the    *)
(* copy is the text.                                                         *)
LEMMA CopyDoes ==
    ASSUME NEW V, NEW ring0 \in [Place -> V], NEW txt, NEW c \in Nat, NEW front \in Nat,
           front = c + (N - F), Has(ring0, txt, c, front),
           NEW d \in 1 .. N - F, NEW n \in 0 .. F, Repeats(txt, front, d, n, V),
           NEW x, x = front % N, NEW from, from = x - d,
           NEW f, Copying(f, ring0, x, from, n), NEW to2, to2 = front + n
    PROVE  f[n] \in [Place -> V] /\ Has(f[n], txt, c, to2)
  <1> DEFINE S == {m \in Nat : m =< n => f[m] \in [Place -> V] /\ Has(f[m], txt, c, front + m)}
  <1>1. /\ N \in Nat /\ F \in Nat /\ F < N /\ n \in Nat /\ n =< F /\ d \in Nat /\ 1 =< d /\ d =< N - F
        /\ front \in Int
    BY Sizes
  <1>2. x \in Nat
    BY <1>1, Quotient
  <1>3. 0 \in S
    <2>1. f[0] = ring0
      BY <1>1 DEF Copying
    <2>2. front + 0 = front
      OBVIOUS
    <2>3. QED
      BY <2>1, <2>2
  <1>4. ASSUME NEW m \in Nat, m \in S PROVE m + 1 \in S
    <2>1. SUFFICES ASSUME m + 1 =< n
                   PROVE  f[m + 1] \in [Place -> V] /\ Has(f[m + 1], txt, c, front + (m + 1))
      OBVIOUS
    <2> DEFINE g == f[m]
               to == front + m
    <2>2. m =< n /\ m \in 0 .. n - 1 /\ m + 1 \in 0 .. n /\ (m + 1) - 1 = m /\ m + 1 # 0
      BY <1>1, <2>1
    <2>3. g \in [Place -> V] /\ Has(g, txt, c, to)
      BY <1>4, <2>2
    <2>4. f[m + 1] = [g EXCEPT ![(x + (m + 1) - 1) % N] = g[(from + (m + 1) - 1) % N]]
      BY <2>2, CopyingAt
    <2> HIDE DEF g
    <2>5. x + (m + 1) - 1 = x + m /\ from + (m + 1) - 1 = x + (m - d)
      BY <1>1, <1>2
    <2>6. to \in Nat /\ to - c < N /\ to \in Int /\ to - d \in c .. to - 1
          /\ m \in Int /\ m - d \in Int /\ front + (m - d) = to - d
      BY <1>1, <2>2
    <2>7. (x + m) % N = to % N /\ (x + (m - d)) % N = (to - d) % N
      <3>1. (x + m) % N = (front + m) % N
        BY <1>1, <2>6, PlusMod
      <3>2. (x + (m - d)) % N = (front + (m - d)) % N
        BY <1>1, <2>6, PlusMod
      <3>3. QED
        BY <2>6, <3>1, <3>2
    <2>8. Expect(txt, to - d) = Expect(txt, to) /\ Expect(txt, to) \in V
      BY <2>2 DEF Repeats
    <2> DEFINE u1 == (x + (m + 1) - 1) % N
               u2 == (from + (m + 1) - 1) % N
               v1 == to % N
               v2 == (to - d) % N
    <2>9. u1 = v1 /\ u2 = v2
      BY <2>5, <2>7
    <2>10. f[m + 1] = [g EXCEPT ![u1] = g[u2]]
      BY <2>4
    <2> HIDE DEF to, u1, u2, v1, v2
    <2>11. g[(to - d) % N] = Expect(txt, to)
      BY <2>3, <2>6, <2>8 DEF Has
    <2> DEFINE b == g[v2]
               h == f[m + 1]
    <2>12. h = [g EXCEPT ![v1] = b]
      BY <2>9, <2>10
    <2>13. b = Expect(txt, to) /\ b \in V
      BY <2>8, <2>11 DEF v2
    <2> HIDE DEF b, h
    <2>14. Has(h, txt, c, to + 1)
      BY <2>3, <2>6, <2>12, <2>13, HasNext DEF v1
    <2>15. h \in [Place -> V]
      BY <2>3, <2>12, <2>13
    <2>16. to + 1 = front + (m + 1)
      BY <1>1 DEF to
    <2>17. QED
      BY <2>14, <2>15, <2>16 DEF h
  <1> HIDE DEF S
  <1>5. Nat \subseteq S
    BY <1>3, <1>4, NatSteps
  <1>6. n \in S /\ n \in Nat /\ n =< n
    BY <1>1, <1>5
  <1>7. QED
    BY <1>6 DEF S

(* What has been put out goes on.                                            *)
LEMMA TextOn ==
    ASSUME NEW V, NEW txt \in Seq(V), NEW c \in Nat, NEW n \in Nat, c + n =< Len(txt), NEW out,
           out \in Seq(V), Len(out) = n, \A k \in 1 .. n : out[k] = txt[c + k]
    PROVE  SubSeq(txt, 1, c) \o out = SubSeq(txt, 1, c + n)
  <1> DEFINE a == SubSeq(txt, 1, c)
             b == SubSeq(txt, 1, c + n)
  <1>1. a \in Seq(V) /\ Len(a) = c /\ (\A k \in 1 .. c : a[k] = txt[k])
    OBVIOUS
  <1>2. b \in Seq(V) /\ Len(b) = c + n /\ (\A k \in 1 .. c + n : b[k] = txt[k])
    OBVIOUS
  <1>3. out \in Seq(V) /\ Len(out) = n /\ (\A k \in 1 .. n : out[k] = txt[c + k])
    OBVIOUS
  <1> HIDE DEF a, b
  <1>4. /\ a \o out \in Seq(V) /\ Len(a \o out) = c + n
        /\ \A k \in 1 .. c + n : (a \o out)[k] = IF k =< c THEN a[k] ELSE out[k - c]
    <2>1. /\ a \o out \in Seq(V) /\ Len(a \o out) = Len(a) + Len(out)
          /\ \A k \in 1 .. Len(a) + Len(out) :
                (a \o out)[k] = IF k <= Len(a) THEN a[k] ELSE out[k - Len(a)]
      BY <1>1, <1>3, ConcatProperties
    <2>2. QED
      BY <1>1, <1>3, <2>1
  <1> DEFINE z == a \o out
  <1> HIDE DEF z
  <1>5. \A k \in 1 .. c + n : z[k] = b[k]
    <2> TAKE k \in 1 .. c + n
    <2>1. CASE k =< c
      <3>1. z[k] = a[k]
        BY <1>4, <2>1 DEF z
      <3>2. QED
        BY <1>1, <1>2, <2>1, <3>1
    <2>2. CASE ~ (k =< c)
      <3>1. k - c \in 1 .. n /\ c + (k - c) = k
        BY <2>2
      <3>2. QED
        <4>1. z[k] = out[k - c]
          BY <1>4, <2>2 DEF z
        <4>2. QED
          BY <1>2, <1>3, <3>1, <4>1
    <2>3. QED
      BY <2>1, <2>2
  <1>6. z \in Seq(V) /\ Len(z) = Len(b)
    BY <1>2, <1>4 DEF z
  <1>7. z = b
    BY <1>2, <1>5, <1>6
  <1>8. QED
    BY <1>7 DEF a, b, z

-------------------------------------------------------------------------------
(* The trees and the window.                                                 *)

(* What InsertNode(q) has found is in the window, and nothing longer is in   *)
(* the trees.                                                                *)
Found(buf, t, q, ml, mp) ==
    /\ ml > 0 => /\ ml > Threshold
                 /\ \E v \in Place : /\ Distance(v, q) \in 1 .. N - F /\ mp + 1 = Distance(v, q)
                                     /\ buf[v] = buf[q] /\ Common(buf, v, q) = ml
    /\ \A p \in InTrees(t) \ {q} : buf[p] = buf[q] => Common(buf, p, q) =< Max({Threshold, ml})

(* A place is not behind itself.                                             *)
LEMMA DistanceZero ==
    ASSUME NEW q \in Place
    PROVE  Distance(q, q) = 0
  <1>1. q \in Int /\ N \in Nat /\ N > 0 /\ q - q = 0
    BY Sizes
  <1>2. 0 \in Place
    BY Sizes
  <1>3. 0 % N = 0
    BY <1>2, PlaceIs
  <1>4. QED
    BY <1>1, <1>3 DEF Distance

(* InsertNode() where the trees hold places of the window only.              *)
LEMMA InsertStep ==
    ASSUME NEW buf \in Buffer, NEW t, Good(buf, t), NEW q \in Place,
           NEW m \in 0 .. N - F, \A p \in InTrees(t) : Distance(p, q) \in 1 .. m,
           match_position \in 0 .. N - 1, InsertNode(buf, t, q)
    PROVE  /\ Good(buf, tree') /\ Found(buf, tree', q, match_length', match_position')
           /\ match_length' \in 0 .. F /\ match_position' \in 0 .. N - 1
           /\ \A p \in InTrees(tree') : p = q \/ Distance(p, q) \in 1 .. m
           /\ \A p \in InTrees(tree') : Distance(p, q) =< N - F
  <1> DEFINE t2 == tree'
             ml == match_length'
             mp == match_position'
  <1>1. m \in Nat /\ m =< N - F /\ N \in Nat /\ F \in Nat /\ N - F >= 0
    BY Sizes
  <1>2. q \notin InTrees(t) /\ Distance(q, q) = 0
    <2>1. Distance(q, q) \notin 1 .. m /\ Distance(q, q) = 0
      BY DistanceZero
    <2>2. QED
      BY <2>1
  <1>3. Inserted(buf, t, q, t2) /\ Reported(buf, t, q, ml, mp) /\ mp \in 0 .. N - 1
    BY <1>2, InsertNodeDoes
  <1> HIDE DEF t2, ml, mp
  <1>4. Good(buf, t2) /\ InTrees(t2) \subseteq InTrees(t) \cup {q}
    BY <1>3 DEF Inserted
  <1>5. \A p \in InTrees(t2) : p = q \/ Distance(p, q) \in 1 .. m
    BY <1>4
  <1>6. \A p \in InTrees(t2) : Distance(p, q) =< N - F
    <2> TAKE p \in InTrees(t2)
    <2> DEFINE d == Distance(p, q)
    <2>1. d = 0 \/ d \in 1 .. m
      BY <1>2, <1>5
    <2> HIDE DEF d
    <2>2. d =< N - F
      BY <1>1, <2>1
    <2>3. QED
      BY <2>2 DEF d
  <1>7. ml > 0 => /\ ml > Threshold
                  /\ \E v \in Place : /\ Distance(v, q) \in 1 .. N - F /\ mp + 1 = Distance(v, q)
                                      /\ buf[v] = buf[q] /\ Common(buf, v, q) = ml
    <2> SUFFICES ASSUME ml > 0
                 PROVE  /\ ml > Threshold
                        /\ \E v \in Place : /\ Distance(v, q) \in 1 .. N - F
                                            /\ mp + 1 = Distance(v, q)
                                            /\ buf[v] = buf[q] /\ Common(buf, v, q) = ml
      OBVIOUS
    <2>1. ml > Threshold /\ IsMatch(buf, t, q, ml, mp + 1)
      BY <1>3 DEF Reported
    <2>2. PICK v \in InTrees(t) : /\ buf[v] = buf[q] /\ Common(buf, v, q) = ml
                                  /\ mp + 1 = Distance(v, q)
      BY <2>1 DEF IsMatch
    <2> DEFINE d == Distance(v, q)
    <2>3. v \in Place /\ d \in 1 .. m
      BY <2>2 DEF InTrees
    <2> HIDE DEF d
    <2>4. d \in 1 .. N - F
      BY <1>1, <2>3
    <2>5. QED
      BY <2>1, <2>2, <2>3, <2>4 DEF d
  <1>8. \A p \in InTrees(t2) \ {q} : buf[p] = buf[q] => Common(buf, p, q) =< Max({Threshold, ml})
    BY <1>3, <1>4 DEF Reported
  <1>9. Found(buf, t2, q, ml, mp)
    BY <1>7, <1>8 DEF Found
  <1>10. ml \in 0 .. F
    BY <1>3 DEF Reported
  <1>11. QED
    BY <1>3, <1>4, <1>5, <1>6, <1>9, <1>10 DEF t2, ml, mp

(* The places of a tree lie less than N - F positions behind front.          *)
Inside(t, front) == \A p \in InTrees(t) : \E d \in 0 .. N - F - 1 : p = (front - d) % N

Near(t, q) == \A p \in InTrees(t) : Distance(p, q) \in 1 .. N - F

(* The oldest place is deleted, and the ring advances.                       *)
LEMMA WindowStep ==
    ASSUME NEW buf \in Buffer, NEW t, Good(buf, t), NEW c \in Nat, NEW front, front = c + (N - F),
           NEW q, q = c % N, NEW r1, r1 = front % N, NEW r2, r2 = (front + 1) % N,
           \A p \in InTrees(t) : Distance(p, r1) =< N - F,
           NEW t2, t2 = Delete(t, q)
    PROVE  Good(buf, t2) /\ Inside(t2, front) /\ Near(t2, r2)
  <1>1. /\ N \in Nat /\ F \in Nat /\ 2 =< F /\ F < N /\ c \in Int /\ front \in Int /\ q \in Place
        /\ front - (N - F) = c
    <2>1. N \in Nat /\ F \in Nat /\ 2 =< F /\ F < N /\ c \in Int
      BY Sizes
    <2>2. q \in Place
      BY <2>1, Quotient
    <2>3. QED
      BY <2>1, <2>2
  <1>2. GoodWith(buf, t2, InTrees(t) \ {q})
    BY <1>1, DeleteGood
  <1>3. Good(buf, t2) /\ InTrees(t2) = InTrees(t) \ {q}
    BY <1>2 DEF GoodWith
  <1>4. ASSUME NEW p \in InTrees(t2)
        PROVE  /\ \E d \in 0 .. N - F - 1 : p = (front - d) % N
               /\ Distance(p, r2) \in 1 .. N - F
    <2> DEFINE d == Distance(p, r1)
    <2>1. p \in Place /\ p # q /\ d =< N - F
      BY <1>3 DEF InTrees
    <2>2. d \in 0 .. N - 1 /\ p = (front - d) % N
      BY <1>1, <2>1, Behind
    <2>3. d # N - F
      BY <1>1, <2>1, <2>2
    <2>4. d < N - 1 => Distance(p, r2) = d + 1
      BY <1>1, <2>1, Farther
    <2> DEFINE e == Distance(p, r2)
    <2> HIDE DEF d, e
    <2>5. d \in 0 .. N - F - 1 /\ d < N - 1
      BY <1>1, <2>1, <2>2, <2>3
    <2>6. e = d + 1
      BY <2>4, <2>5 DEF e
    <2>7. e \in 1 .. N - F
      BY <1>1, <2>5, <2>6
    <2>8. QED
      BY <2>2, <2>5, <2>7 DEF e
  <1>5. QED
    BY <1>3, <1>4 DEF Inside, Near

(* The bytes that are overwritten are in no place of the trees any more.     *)
LEMMA OverwriteStep ==
    ASSUME NEW buf \in Buffer, NEW t, Good(buf, t), NEW c \in Nat,
           NEW front, front = c + (N - F), Inside(t, front),
           NEW b \in Byte, NEW buf2, Overwrites(buf, c % N, b, buf2)
    PROVE  Good(buf2, t)
  <1>1. c % N \in Place
    <2>1. c \in Int
      OBVIOUS
    <2>2. QED
      BY <2>1, Quotient
  <1>2. buf2 \in Buffer
    BY <1>1, OverwritesIs
  <1>3. ASSUME NEW p \in InTrees(t), NEW k \in 0 .. F - 1 PROVE buf[p + k] = buf2[p + k]
    <2>1. PICK d \in 0 .. N - F - 1 : p = ((c + (N - F)) - d) % N
      BY DEF Inside
    <2>2. QED
      BY <2>1, BytesStay
  <1>4. QED
    BY <1>2, <1>3, SameTrees

(* InitTree().                                                               *)
LEMMA EmptyTrees ==
    ASSUME NEW buf
    PROVE  Good(buf, NoTree) /\ InTrees(NoTree) = {}
  <1> DEFINE ls == NoTree.lson
             rs == NoTree.rson
             da == NoTree.dad
             D == [u \in Nodes |-> {}]
             h == [u \in Nodes |-> 0]
  <1>1. /\ ls = [p \in 0 .. N |-> NIL] /\ rs = [p \in 0 .. N \cup Roots |-> NIL]
        /\ da = [p \in 0 .. N |-> NIL]
    BY DEF NoTree
  <1>2. /\ Place \subseteq 0 .. N /\ NIL \in 0 .. N /\ NIL \in Nodes /\ Nodes = 0 .. N \cup Roots
        /\ Place \subseteq Nodes /\ Roots \subseteq Nodes
    BY Sizes DEF Nodes
  <1>3. Arrays(ls, rs, da) /\ NoTree \in Trees
    <2>1. NoTree \in Trees
      BY <1>2 DEF NoTree, Trees
    <2>2. QED
      BY <2>1 DEF Trees, Arrays
  <1>4. In(da) = {} /\ Spots(da) = Roots
    BY <1>1, <1>2 DEF In, Spots
  <1>5. \A u \in Roots : SonsOf(ls, rs, u) = {}
    <2> TAKE u \in Roots
    <2>1. u \notin Place /\ rs[u] = NIL
      BY <1>1, <1>2, SpotsAre
    <2>2. QED
      BY <2>1 DEF SonsOf
  <1> HIDE DEF ls, rs, da
  <1>6. Linked(ls, rs, da)
    BY <1>4, <1>5 DEF Linked
  <1>7. Falls(ls, rs, da, h, 0)
    BY <1>4, <1>5 DEF Falls
  <1>8. Holds(ls, rs, da, D)
    <2>1. \A u \in Roots : u \in Nodes /\ u \notin Place
      BY <1>2, SpotsAre
    <2>2. QED
      BY <1>4, <1>5, <2>1 DEF Holds
  <1>9. Ordered(buf, ls, rs, da, D)
    BY <1>4 DEF Ordered
  <1>10. Rooted(buf, da, D)
    <2>1. \A b \in Byte : Root(b) \in Nodes
      BY <1>2 DEF Roots
    <2>2. QED
      BY <1>4, <2>1 DEF Rooted
  <1>11. Shape(buf, ls, rs, da, D, h, 0)
    BY <1>3, <1>6, <1>7, <1>8, <1>9, <1>10 DEF Shape
  <1>12. QED
    BY <1>3, <1>4, <1>11, InIs DEF Good, ls, rs, da

-------------------------------------------------------------------------------
(* The inductive invariant.                                                  *)

(* How much has been coded, or is being; the position that r stands for; and *)
(* how far the decoder is ahead of the encoder, which still has to advance.  *)
Coded   == read - len
Front   == Coded + (N - F)
Ahead   == IF pc = "advance" THEN last - i ELSE 0
Running == pc \in {"blanks", "code", "advance"}

Kinds ==
    /\ text \in Seq(Byte) /\ pc \in {"start", "blanks", "code", "advance", "done"}
    /\ read \in 0 .. Len(text) /\ len \in 0 .. F /\ len =< read
    /\ match_length \in 0 .. F /\ match_position \in 0 .. N - 1
    /\ last \in 0 .. F /\ i \in 0 .. F + 1
    /\ s \in Place /\ r \in Place /\ at \in Place
    /\ ring \in [Place -> Byte \cup {-1}]

(* The trees are in order.                                                   *)
Sound == text_buf \in Buffer /\ Good(text_buf, tree)

Begins == pc = "start" =>
    /\ read = 0 /\ len = 0 /\ tree = NoTree
    /\ s = 0 /\ r = N - F /\ at = N - F
    /\ \A p \in 0 .. N - F - 1 : text_buf[p] = 0 /\ ring[p] = 0

(* The encoder's two places and the decoder's.                               *)
Places == Running => s = Coded % N /\ r = Front % N /\ at = (Front + Ahead) % N

Amounts ==
    /\ Running => len >= 1 /\ (read < Len(text) => len = F)
    /\ pc = "blanks" => Coded = 0 /\ i >= 1
    /\ pc = "advance" => i < last /\ last - i =< len
    /\ pc = "done" => read = Len(text) /\ len = 0

PutOut == decoded = SubSeq(text, 1, Coded + Ahead)

(* The encoder's ring holds the window and the bytes that have been read, the *)
(* decoder's the window and what it is ahead.                                *)
Holding == Running => /\ Kept(text_buf, text, Coded, read + (N - F))
                      /\ Has(ring, text, Coded, Front + Ahead)

(* The trees have no place outside the window.                               *)
Within ==
    /\ pc \in {"code", "advance"} => \A p \in InTrees(tree) : Distance(p, r) =< N - F
    /\ pc = "blanks" => \A p \in InTrees(tree) : Distance(p, r) \in 1 .. i - 1

Matched == pc = "code" => Found(text_buf, tree, r, match_length, match_position)

IInv == Kinds /\ Sound /\ Begins /\ Places /\ Amounts /\ PutOut /\ Holding /\ Within /\ Matched

-------------------------------------------------------------------------------
(* The numbers of the state.                                                 *)
LEMMA NumbersAre ==
    ASSUME Kinds
    PROVE  /\ N \in Nat /\ F \in Nat /\ 2 =< F /\ 2 * F =< N /\ Len(text) \in Nat
           /\ read \in Nat /\ read =< Len(text) /\ len \in Nat /\ len =< F /\ len =< read
           /\ Coded \in Nat /\ Coded \in Int /\ Front \in Nat /\ Front \in Int
           /\ Front = Coded + (N - F) /\ read = Coded + len
           /\ last \in Nat /\ last =< F /\ i \in Nat
           /\ match_length \in Nat /\ match_length =< F
  <1>1. N \in Nat /\ F \in Nat /\ 2 =< F /\ 2 * F =< N
    BY Sizes
  <1>2. text \in Seq(Byte) /\ Len(text) \in Nat
    BY DEF Kinds
  <1>3. /\ read \in Nat /\ read =< Len(text) /\ len \in Nat /\ len =< F /\ len =< read
        /\ last \in Nat /\ last =< F /\ i \in Nat
        /\ match_length \in Nat /\ match_length =< F
    BY <1>1, <1>2 DEF Kinds
  <1>4. /\ Coded \in Nat /\ Coded \in Int /\ read = Coded + len
    BY <1>3 DEF Coded
  <1>5. Front \in Nat /\ Front \in Int /\ Front = Coded + (N - F)
    BY <1>1, <1>4 DEF Front
  <1>6. QED
    BY <1>1, <1>2, <1>3, <1>4, <1>5

(* The invariant holds at first.                                             *)
LEMMA InitHolds ==
    Init => IInv
  <1> SUFFICES ASSUME Init PROVE IInv
    OBVIOUS
  <1> USE DEF Init
  <1>1. /\ N \in Nat /\ F \in Nat /\ 2 =< F /\ 2 * F =< N /\ 0 \in Place /\ N - F \in Place
        /\ 0 \in Byte
    BY Sizes
  <1>2. text \in Seq(Byte) /\ Len(text) \in Nat
    <2>1. PICK n \in 0 .. MaxText : text \in [1 .. n -> Byte]
      OBVIOUS
    <2>2. n \in Nat
      BY RingAssumption
    <2>3. text \in Seq(Byte)
      BY <2>1, <2>2
    <2>4. QED
      BY <2>3
  <1>3. ring \in [Place -> Byte \cup {-1}] /\ \A p \in 0 .. N - F - 1 : ring[p] = 0
    <2>1. \A p \in 0 .. N - F - 1 : p \in Place /\ p < N - F
      BY <1>1, Sizes
    <2>2. QED
      BY <1>1, <2>1
  <1>4. text_buf \in Buffer /\ \A p \in 0 .. N - F - 1 : text_buf[p] = 0
    <2>1. \A p \in 0 .. N - F - 1 : p \in Index /\ p < N - F
      BY <1>1 DEF Index
    <2>2. PICK old \in Byte : text_buf = [p \in Index |-> IF p < N - F THEN 0 ELSE old]
      BY DEF Index
    <2>3. QED
      BY <1>1, <2>1, <2>2 DEF Buffer
  <1>5. Kinds
    BY <1>1, <1>2, <1>3 DEF Kinds
  <1>6. Sound
    BY <1>4, EmptyTrees DEF Sound
  <1>7. Begins
    BY <1>3, <1>4 DEF Begins
  <1>8. PutOut
    <2>1. Coded + Ahead = 0
      BY DEF Coded, Ahead
    <2>2. SubSeq(text, 1, 0) = <<>>
      BY <1>2
    <2>3. QED
      BY <2>1, <2>2 DEF PutOut
  <1>9. Places /\ Amounts /\ Holding /\ Within /\ Matched
    BY DEF Places, Amounts, Holding, Within, Matched, Running
  <1>10. QED
    BY <1>5, <1>6, <1>7, <1>8, <1>9 DEF IInv

(* A step that changes nothing keeps it.                                     *)
LEMMA StutterHolds ==
    ASSUME IInv, UNCHANGED vars
    PROVE  IInv'
  BY DEF IInv, vars, decoder, Kinds, Sound, Begins, Places, Amounts, PutOut, Holding, Within,
         Matched, Running, Coded, Front, Ahead

(* The empty input.                                                          *)
LEMMA EmptyHolds ==
    ASSUME IInv, Empty
    PROVE  IInv'
  <1> USE DEF Empty
  <1>1. Kinds' /\ Sound' /\ Begins' /\ Places' /\ Holding' /\ Within' /\ Matched'
    BY DEF IInv, Kinds, Sound, Begins, Places, Holding, Within, Matched, Running, decoder
  <1>2. read = 0 /\ len = 0 /\ Len(text) = 0
    BY DEF IInv, Begins
  <1>3. Amounts'
    BY <1>2 DEF Amounts, Running
  <1>4. PutOut'
    BY DEF IInv, PutOut, Coded, Ahead, decoder
  <1>5. QED
    BY <1>1, <1>3, <1>4 DEF IInv

(* Encode() up to its loop.                                                  *)
LEMMA StartHolds ==
    ASSUME IInv, Start
    PROVE  IInv'
  <1>1. /\ Kinds /\ Sound /\ PutOut /\ read = 0 /\ len = 0 /\ tree = NoTree
        /\ s = 0 /\ r = N - F /\ at = N - F
        /\ \A p \in 0 .. N - F - 1 : text_buf[p] = 0 /\ ring[p] = 0
    BY DEF IInv, Begins, Start
  <1>2. /\ read' = Min({F, Len(text)}) /\ len' = read' /\ pc' = "blanks" /\ i' = 1
        /\ UNCHANGED <<text, tree, s, r, match_length, match_position, last, ring, at, decoded>>
        /\ text # <<>> /\ pc = "start"
    BY DEF Start, decoder
  <1>3. text_buf' = [p \in Index |->
                       IF p \in (N - F) .. (N - F) + read' - 1 THEN text[(p - (N - F)) + 1]
                       ELSE text_buf[p]]
    <2>1. DOMAIN text_buf = Index
      BY <1>1 DEF Sound, Buffer
    <2>2. text_buf' = [p \in Index |->
                       IF p \in r .. r + len' - 1 THEN text[p - r + 1] ELSE text_buf[p]]
      BY <2>1 DEF Start
    <2>3. QED
      BY <1>1, <1>2, <2>2
  <1>4. /\ N \in Nat /\ F \in Nat /\ 2 =< F /\ 2 * F =< N /\ Len(text) \in Nat /\ Len(text) >= 1
    BY <1>1, <1>2, NumbersAre DEF Kinds
  <1>5. /\ read' \in Nat /\ 1 =< read' /\ read' =< F /\ read' =< Len(text)
        /\ read' < Len(text) => read' = F
    <2> DEFINE L == Len(text)
    <2>1. L \in Nat /\ L >= 1 /\ read' = Min({F, L})
      BY <1>2, <1>4
    <2> HIDE DEF L
    <2>2. read' = IF F =< L THEN F ELSE L
      BY <1>4, <2>1, OfTwo
    <2>3. /\ read' \in Nat /\ 1 =< read' /\ read' =< F /\ read' =< L
          /\ read' < L => read' = F
      BY <1>4, <2>1, <2>2
    <2>4. QED
      BY <2>3 DEF L
  <1>6. text_buf' \in Buffer /\ Kept(text_buf', text, 0, read' + (N - F))
    <2> DEFINE n == read'
    <2>1. n \in Nat /\ n =< F /\ n =< Len(text)
      BY <1>5
    <2>2. text \in Seq(Byte) /\ text_buf \in Buffer /\ \A p \in 0 .. N - F - 1 : text_buf[p] = 0
      BY <1>1 DEF Kinds, Sound
    <2> HIDE DEF n
    <2>3. QED
      BY <1>3, <2>1, <2>2, FirstBytes DEF n
  <1>7. Kinds'
    BY <1>1, <1>2, <1>4, <1>5 DEF Kinds
  <1>8. Sound'
    BY <1>1, <1>2, <1>6, EmptyTrees DEF Sound
  <1>9. Coded' = 0 /\ Front' = N - F /\ Ahead' = 0
    BY <1>2, <1>4, <1>5 DEF Coded, Front, Ahead
  <1>10. 0 % N = 0 /\ (N - F) % N = N - F /\ ((N - F) + 0) % N = N - F
    BY <1>4
  <1>11. Places' /\ Amounts'
    BY <1>1, <1>2, <1>5, <1>9, <1>10 DEF Places, Amounts, Running
  <1>12. PutOut'
    <2>1. Coded + Ahead = 0
      BY <1>1, <1>2 DEF Coded, Ahead
    <2>2. Coded' + Ahead' = 0
      BY <1>9
    <2>3. QED
      BY <1>1, <1>2, <2>1, <2>2 DEF PutOut
  <1>13. Has(ring, text, 0, (N - F) + 0)
    BY <1>1, FirstBlanks
  <1>14. Holding'
    BY <1>2, <1>6, <1>9, <1>13 DEF Holding
  <1>15. Within' /\ Matched' /\ Begins'
    BY <1>1, <1>2, EmptyTrees DEF Within, Matched, Begins
  <1>16. QED
    BY <1>7, <1>8, <1>11, <1>12, <1>14, <1>15 DEF IInv

-------------------------------------------------------------------------------
(* Every step preserves the invariant.                                       *)

(* The blanks before the text are inserted.                                  *)
LEMMA InsertBlankHolds ==
    ASSUME IInv, InsertBlank
    PROVE  IInv'
  <1> DEFINE q == r - i
             m == i - 1
  <1>1. /\ Kinds /\ text_buf \in Buffer /\ Good(text_buf, tree) /\ PutOut
        /\ Coded = 0 /\ i >= 1 /\ len >= 1 /\ s = Coded % N /\ r = Front % N
        /\ \A p \in InTrees(tree) : Distance(p, r) \in 1 .. m
    BY DEF IInv, InsertBlank, Running, Sound, Places, Amounts, Within
  <1>2. /\ pc = "blanks" /\ i =< F /\ InsertNode(text_buf, tree, q) /\ i' = i + 1
        /\ UNCHANGED <<text, pc, read, text_buf, s, r, len, last, ring, at, decoded>>
    BY DEF InsertBlank, decoder
  <1>3. /\ N \in Nat /\ F \in Nat /\ 2 =< F /\ 2 * F =< N /\ i \in Nat
        /\ Front = N - F /\ match_position \in 0 .. N - 1
    BY <1>1, NumbersAre, SMTT(60) DEF Kinds
  <1>4. r = N - F /\ q \in Place /\ q = (N - F) - i
    <2>1. N - F \in Place
      BY <1>3, Sizes
    <2>2. r = N - F
      BY <1>1, <1>3, <2>1, PlaceIs
    <2>3. QED
      BY <1>1, <1>2, <1>3, <2>2, Sizes
  <1> HIDE DEF q
  <1>5. Distance(q, r) = i
    <2>1. r - q = i
      BY <1>3, <1>4
    <2>2. i \in Place
      BY <1>2, <1>3, Sizes
    <2>3. i % N = i
      BY <2>2, PlaceIs
    <2>4. QED
      BY <2>1, <2>3 DEF Distance
  <1>6. q \notin InTrees(tree)
    <2>1. i \notin 1 .. m
      BY <1>3
    <2>2. QED
      BY <1>1, <1>5, <2>1
  <1>7. /\ Inserted(text_buf, tree, q, tree')
        /\ Reported(text_buf, tree, q, match_length', match_position')
        /\ match_position' \in 0 .. N - 1
    BY <1>1, <1>2, <1>3, <1>4, <1>6, InsertNodeDoes
  <1>8. match_length' \in 0 .. F
    BY <1>7 DEF Reported
  <1>9. Good(text_buf, tree') /\ InTrees(tree') \subseteq InTrees(tree) \cup {q}
    BY <1>7 DEF Inserted
  <1>10. \A p \in InTrees(tree') : Distance(p, r) \in 1 .. i' - 1
    <2> DEFINE k == i'
    <2>1. k = i + 1 /\ i \in 1 .. k - 1 /\ \A d \in 1 .. m : d \in 1 .. k - 1
      BY <1>1, <1>2, <1>3
    <2> HIDE DEF k
    <2>2. \A p \in InTrees(tree') : Distance(p, r) \in 1 .. k - 1
      BY <1>1, <1>5, <1>9, <2>1
    <2>3. QED
      BY <2>2 DEF k
  <1>11. i' \in 0 .. F + 1 /\ i' >= 1
    BY <1>2, <1>3
  <1>12. Kinds' /\ Sound'
    BY <1>1, <1>2, <1>7, <1>8, <1>9, <1>11 DEF Kinds, Sound
  <1>13. Places' /\ Amounts' /\ PutOut' /\ Holding' /\ Begins'
    BY <1>2, <1>11
       DEF IInv, Places, Amounts, PutOut, Holding, Begins, Running, Coded, Front, Ahead
  <1>14. Within' /\ Matched'
    BY <1>2, <1>10 DEF Within, Matched
  <1>15. QED
    BY <1>12, <1>13, <1>14 DEF IInv

(* The first place of the text is inserted.                                  *)
LEMMA InsertFirstHolds ==
    ASSUME IInv, InsertFirst
    PROVE  IInv'
  <1>1. /\ Kinds /\ text_buf \in Buffer /\ Good(text_buf, tree)
        /\ \A p \in InTrees(tree) : Distance(p, r) \in 1 .. i - 1
    BY DEF IInv, InsertFirst, Running, Sound, Within
  <1>2. /\ pc = "blanks" /\ i = F + 1 /\ InsertNode(text_buf, tree, r) /\ pc' = "code"
        /\ UNCHANGED <<text, read, text_buf, s, r, len, last, i, ring, at, decoded>>
    BY DEF InsertFirst, decoder
  <1>3. /\ N \in Nat /\ F \in Nat /\ 2 =< F /\ 2 * F =< N
        /\ r \in Place /\ match_position \in 0 .. N - 1
    BY <1>1, NumbersAre DEF Kinds
  <1>4. F \in 0 .. N - F /\ i - 1 = F
    BY <1>2, <1>3
  <1>5. \A p \in InTrees(tree) : Distance(p, r) \in 1 .. F
    BY <1>1, <1>4
  <1>6. /\ Good(text_buf, tree')
        /\ Found(text_buf, tree', r, match_length', match_position')
        /\ match_length' \in 0 .. F /\ match_position' \in 0 .. N - 1
        /\ \A p \in InTrees(tree') : Distance(p, r) =< N - F
    BY <1>1, <1>2, <1>3, <1>4, <1>5, InsertStep
  <1>7. Kinds' /\ Sound'
    BY <1>1, <1>2, <1>6 DEF Kinds, Sound
  <1>8. Places' /\ Amounts' /\ PutOut' /\ Holding' /\ Begins'
    BY <1>2 DEF IInv, Places, Amounts, PutOut, Holding, Begins, Running, Coded, Front, Ahead
  <1>9. Within' /\ Matched'
    BY <1>2, <1>6 DEF Within, Matched
  <1>10. QED
    BY <1>7, <1>8, <1>9 DEF IInv

(* What is known where something is coded.                                   *)
LEMMA CodeSays ==
    ASSUME IInv, pc = "code"
    PROVE  /\ Kinds /\ text_buf \in Buffer /\ Good(text_buf, tree)
           /\ decoded = SubSeq(text, 1, Coded) /\ len >= 1
           /\ r = Front % N /\ at = Front % N /\ s = Coded % N
           /\ Kept(text_buf, text, Coded, read + (N - F)) /\ Has(ring, text, Coded, Front)
           /\ \A p \in InTrees(tree) : Distance(p, r) =< N - F
           /\ Found(text_buf, tree, r, match_length, match_position)
  <1>1. /\ Kinds /\ text_buf \in Buffer /\ Good(text_buf, tree) /\ len >= 1
        /\ decoded = SubSeq(text, 1, Coded + Ahead)
        /\ r = Front % N /\ at = (Front + Ahead) % N /\ s = Coded % N
        /\ Kept(text_buf, text, Coded, read + (N - F)) /\ Has(ring, text, Coded, Front + Ahead)
        /\ \A p \in InTrees(tree) : Distance(p, r) =< N - F
        /\ Found(text_buf, tree, r, match_length, match_position)
    BY DEF IInv, Sound, PutOut, Places, Holding, Within, Matched, Amounts, Running
  <1>2. Coded + Ahead = Coded /\ Front + Ahead = Front
    BY <1>1, NumbersAre DEF Ahead
  <1>3. QED
    BY <1>1, <1>2

(* n bytes have been coded, and decoded.                                     *)
LEMMA CodedHolds ==
    ASSUME IInv, pc = "code", NEW n \in Nat, 1 =< n, n =< len,
           last' = n, i' = 0, pc' = "advance",
           UNCHANGED <<text, read, text_buf, tree, s, r, len, match_length, match_position>>,
           decoded' = SubSeq(text, 1, Coded + n), at' = (at + n) % N,
           ring' \in [Place -> Byte \cup {-1}], Has(ring', text, Coded, Front + n)
    PROVE  IInv'
  <1>1. /\ Kinds /\ len >= 1 /\ at = Front % N
        /\ \A p \in InTrees(tree) : Distance(p, r) =< N - F
    BY CodeSays
  <1>2. /\ N \in Nat /\ N > 0 /\ F \in Nat /\ len \in Nat /\ len =< F
        /\ Coded \in Nat /\ Front \in Int /\ n \in Int
    <2>1. N \in Nat /\ N > 0
      BY Sizes
    <2>2. QED
      BY <1>1, <2>1, NumbersAre
  <1>3. n \in 0 .. F /\ 0 \in 0 .. F + 1
    BY <1>2
  <1>4. Coded' = Coded /\ Front' = Front /\ Ahead' = n
    <2>1. n - 0 = n
      OBVIOUS
    <2>2. QED
      BY <2>1 DEF Coded, Front, Ahead
  <1>5. at' = (Front + n) % N
    BY <1>1, <1>2, PlusMod
  <1>6. at' \in Place
    <2>1. Front + n \in Int
      BY <1>2
    <2>2. QED
      BY <1>5, <2>1, Quotient
  <1>7. Kinds'
    BY <1>1, <1>3, <1>6 DEF Kinds
  <1>8. Sound' /\ Begins' /\ Within' /\ Matched'
    BY <1>1 DEF IInv, Sound, Begins, Within, Matched
  <1>9. Places'
    BY <1>4, <1>5 DEF IInv, Places, Running
  <1>10. Amounts'
    <2>1. 0 < n /\ n - 0 =< len
      OBVIOUS
    <2>2. QED
      BY <2>1 DEF IInv, Amounts, Running
  <1>11. PutOut'
    BY <1>4 DEF PutOut
  <1>12. Holding'
    BY <1>4 DEF IInv, Holding, Running
  <1>13. QED
    BY <1>7, <1>8, <1>9, <1>10, <1>11, <1>12 DEF IInv

(* A literal.                                                                *)
LEMMA LiteralHolds ==
    ASSUME IInv, Literal
    PROVE  IInv'
  <1> DEFINE b == text_buf[r]
             front == Front
             c == Coded
             n == 1
  <1>1. /\ pc = "code" /\ last' = n /\ i' = 0 /\ pc' = "advance"
        /\ UNCHANGED <<text, read, text_buf, tree, s, r, len, match_length, match_position>>
        /\ decoded' = Append(decoded, b) /\ at' = (at + n) % N
        /\ ring' = [ring EXCEPT ![at] = b]
    BY DEF Literal
  <1>2. /\ Kinds /\ text_buf \in Buffer /\ decoded = SubSeq(text, 1, c) /\ len >= 1
        /\ r = front % N /\ at = front % N
        /\ Kept(text_buf, text, c, read + (N - F)) /\ Has(ring, text, c, front)
    BY <1>1, CodeSays
  <1>3. /\ N \in Nat /\ F \in Nat /\ 2 =< F /\ 2 * F =< N
        /\ read \in Nat /\ read =< Len(text) /\ Len(text) \in Nat /\ len \in Nat
        /\ c \in Nat /\ front \in Nat /\ front \in Int
        /\ front = c + (N - F) /\ read = c + len
    BY <1>2, NumbersAre
  <1>4. n \in Nat /\ 1 =< n /\ n =< len /\ n = 1
    BY <1>2, <1>3
  <1> HIDE DEF c, front, b, n
  <1>5. text \in Seq(Byte) /\ ring \in [Place -> Byte \cup {-1}]
    BY <1>2 DEF Kinds
  <1>6. b = Expect(text, front)
    <2>1. front \in c .. (read + (N - F)) - 1
      BY <1>2, <1>3
    <2>2. text_buf[front % N] = Expect(text, front)
      BY <1>2, <2>1 DEF Kept, Has
    <2>3. QED
      BY <1>2, <2>2 DEF b
  <1>7. b = text[c + 1] /\ b \in Byte
    <2>1. front >= N - F /\ front - (N - F) = c /\ c < Len(text)
      BY <1>2, <1>3
    <2>2. QED
      BY <1>3, <1>5, <1>6, <2>1, TextAt
  <1>8. decoded' = SubSeq(text, 1, c + n)
    <2> DEFINE out == <<b>>
    <2>1. out \in Seq(Byte) /\ Len(out) = n /\ \A k \in 1 .. n : out[k] = text[c + k]
      BY <1>4, <1>7
    <2>2. SubSeq(text, 1, c) \in Seq(Byte)
      BY <1>2, <1>3, <1>5
    <2>3. decoded' = decoded \o out
      BY <1>1, <1>2, <1>7, <2>2, AppendIsConcat
    <2>4. n \in Nat /\ c \in Nat /\ c + n =< Len(text)
      BY <1>3, <1>4
    <2> HIDE DEF out
    <2>5. SubSeq(text, 1, c) \o out = SubSeq(text, 1, c + n)
      BY <1>5, <2>1, <2>4, TextOn
    <2>6. QED
      BY <1>2, <2>3, <2>5
  <1>9. Has(ring', text, c, front + n) /\ ring' \in [Place -> Byte \cup {-1}]
    <2>1. front - c < N
      BY <1>3
    <2>2. Has(ring', text, c, front + 1)
      BY <1>1, <1>2, <1>3, <1>5, <1>6, <2>1, HasNext
    <2>3. QED
      BY <1>1, <1>4, <1>5, <1>7, <2>2
  <1>10. QED
    BY <1>1, <1>4, <1>8, <1>9, CodedHolds DEF c, front

Copies(ring0, to, from, n) ==
    LET Copied[k \in 0 .. n] ==
          IF k = 0 THEN ring0
          ELSE [Copied[k - 1] EXCEPT ![(to + k - 1) % N] = Copied[k - 1][(from + k - 1) % N]]
    IN  Copied

(* Decode()'s copy is what its recursion says.                               *)
LEMMA CopiesIs ==
    ASSUME NEW ring0, NEW to \in Int, NEW from \in Int, NEW n \in Nat
    PROVE  Copying(Copies(ring0, to, from, n), ring0, to, from, n)
  <1>1. PICK f : Copying(f, ring0, to, from, n)
    BY CopyingExists
  <1>2. QED
    BY <1>1 DEF Copies, Copying

(* The bytes of a match are those d positions before.                        *)
LEMMA MatchSays ==
    ASSUME NEW buf \in Buffer, NEW txt, NEW c \in Nat, NEW front, front = c + (N - F),
           NEW to \in Int, Kept(buf, txt, c, to),
           NEW v \in Place, NEW d \in 1 .. N - F, d = Distance(v, front % N),
           buf[v] = buf[front % N], NEW ml, Common(buf, v, front % N) = ml,
           NEW n \in Nat, n =< ml, front + n =< to, NEW k \in 0 .. n - 1
    PROVE  Expect(txt, (front + k) - d) = Expect(txt, front + k)
  <1> DEFINE r0 == front % N
             a == front - d
  <1>1. /\ N \in Nat /\ F \in Nat /\ 2 =< F /\ 2 * F =< N /\ d \in Nat /\ 1 =< d /\ d =< N - F
        /\ k \in Nat /\ k < n
    BY Sizes
  <1>2. front \in Nat /\ front \in Int /\ a \in Nat /\ a >= c /\ front >= c /\ a < front
    BY <1>1
  <1>3. v = a % N
    BY <1>2, Behind
  <1>4. ml \in 1 .. F /\ \A j \in 1 .. ml - 1 : buf[v + j] = buf[r0 + j]
    BY CommonIs DEF Agrees
  <1>5. r0 \in Nat /\ v \in Nat
    BY <1>2, Quotient, Sizes
  <1>6. buf[v + k] = buf[r0 + k]
    <2> HIDE DEF r0
    <2>1. CASE k = 0
      <3>1. v + k = v /\ r0 + k = r0
        BY <1>5, <2>1
      <3>2. QED
        BY <3>1 DEF r0
    <2>2. CASE k # 0
      <3>1. k \in 1 .. ml - 1
        BY <1>1, <1>4, <2>2
      <3>2. QED
        BY <1>4, <3>1
    <2>3. QED
      BY <2>1, <2>2
  <1>7. k \in 0 .. F - 1
    BY <1>1, <1>4
  <1> DEFINE e == a + k
             g == front + k
  <1>8. c =< e /\ e < to /\ c =< g /\ g < to
    BY <1>1, <1>2
  <1>9. e = (front + k) - d
    BY <1>1, <1>2
  <1> HIDE DEF a, r0
  <1>10. buf[r0 + k] = Expect(txt, g)
    <2> DEFINE j == r0 + k
    <2>1. front \in Nat /\ r0 = front % N /\ g = front + k
      BY <1>2 DEF r0
    <2>2. Reads(front, k, g, j)
      BY <1>7, <2>1 DEF Reads
    <2> HIDE DEF g, j
    <2>3. buf[j] = Expect(txt, g)
      BY <1>8, <2>2, KeptAt
    <2>4. QED
      BY <2>3 DEF j
  <1>11. buf[v + k] = Expect(txt, e)
    <2>1. a \in Nat /\ c =< e /\ e < to /\ e = a + k
      BY <1>2, <1>8
    <2> DEFINE j == v + k
    <2>2. Reads(a, k, e, j)
      BY <1>3, <1>7, <2>1 DEF Reads
    <2> HIDE DEF e, j
    <2>3. buf[j] = Expect(txt, e)
      BY <2>1, <2>2, KeptAt
    <2>4. QED
      BY <2>3 DEF j
  <1>12. QED
    BY <1>6, <1>9, <1>10, <1>11

(* A match, which Decode() copies.                                           *)
LEMMA MatchHolds ==
    ASSUME IInv, Match
    PROVE  IInv'
  <1> DEFINE front == Front
             c == Coded
             V == Byte \cup {-1}
             ml == match_length
             n == Min({match_length, len})
             from == at - match_position - 1
             f == Copies(ring, at, from, n)
             out == [k \in 1 .. n |-> f[n][(at + k - 1) % N]]
  <1>1. /\ pc = "code" /\ last' = n /\ i' = 0 /\ pc' = "advance" /\ n > Threshold
        /\ UNCHANGED <<text, read, text_buf, tree, s, r, len, match_length, match_position>>
        /\ decoded' = decoded \o out /\ at' = (at + n) % N
        /\ ring' = f[n]
    BY DEF Match, Copies
  <1>2. /\ Kinds /\ text_buf \in Buffer /\ decoded = SubSeq(text, 1, c) /\ len >= 1
        /\ r = front % N /\ at = front % N
        /\ Kept(text_buf, text, c, read + (N - F)) /\ Has(ring, text, c, front)
        /\ Found(text_buf, tree, r, ml, match_position)
    BY <1>1, CodeSays
  <1>3. /\ N \in Nat /\ F \in Nat /\ 2 =< F /\ 2 * F =< N
        /\ read \in Nat /\ read =< Len(text) /\ Len(text) \in Nat /\ len \in Nat /\ len =< F
        /\ c \in Nat /\ front \in Nat /\ front \in Int
        /\ front = c + (N - F) /\ read = c + len /\ ml \in Nat /\ ml =< F
    BY <1>2, NumbersAre
  <1> HIDE DEF c, front
  <1>4. text \in Seq(Byte) /\ ring \in [Place -> V] /\ at \in Place /\ match_position \in 0 .. N - 1
    BY <1>2 DEF Kinds
  <1>5. n \in Nat /\ n =< ml /\ n =< len /\ n >= 1 /\ ml > 0 /\ n \in 0 .. F
    <2>1. n = IF ml =< len THEN ml ELSE len
      BY <1>3, OfTwo
    <2> HIDE DEF n, ml
    <2>2. n \in Nat /\ n =< ml /\ n =< len
      BY <1>3, <2>1
    <2>3. Threshold \in Nat /\ 1 =< Threshold
      BY Sizes
    <2>4. QED
      BY <1>1, <1>3, <2>2, <2>3
  <1> HIDE DEF n, ml, V
  <1>6. PICK v \in Place : /\ Distance(v, r) \in 1 .. N - F /\ match_position + 1 = Distance(v, r)
                           /\ text_buf[v] = text_buf[r] /\ Common(text_buf, v, r) = ml
    BY <1>2, <1>5 DEF Found
  <1> DEFINE d == Distance(v, r)
  <1>7. d \in 1 .. N - F /\ d = Distance(v, front % N)
    BY <1>2, <1>6
  <1>8. at \in Int /\ from \in Int /\ from = at - d
    <2> HIDE DEF d
    <2>1. match_position \in Int /\ at \in Int /\ d \in Int
      BY <1>3, <1>4, <1>7, Sizes
    <2>2. match_position + 1 = d
      BY <1>6 DEF d
    <2>3. QED
      BY <2>1, <2>2
  <1> HIDE DEF d, from
  <1>9. front + n =< read + (N - F) /\ read + (N - F) \in Int
    BY <1>3, <1>5
  <1>10. ASSUME NEW k \in 0 .. n - 1
         PROVE  /\ Expect(text, (front + k) - d) = Expect(text, front + k)
                /\ Expect(text, front + k) = text[(c + k) + 1]
                /\ Expect(text, front + k) \in V
    <2>1. Expect(text, (front + k) - d) = Expect(text, front + k)
      <3>1. text_buf[v] = text_buf[front % N] /\ Common(text_buf, v, front % N) = ml
        BY <1>2, <1>6
      <3>2. n \in Nat /\ n =< ml /\ c \in Nat /\ front = c + (N - F)
        BY <1>3, <1>5
      <3>3. QED
        BY <1>2, <1>7, <1>9, <3>1, <3>2, MatchSays
    <2>2. /\ front + k \in Nat /\ front + k >= N - F /\ (front + k) - (N - F) = c + k
          /\ c + k < Len(text)
      BY <1>3, <1>5
    <2>3. /\ Expect(text, front + k) = text[(c + k) + 1]
          /\ Expect(text, front + k) \in Byte
      BY <1>4, <2>2, TextAt
    <2>4. QED
      BY <2>1, <2>3 DEF V
  <1>11. Copying(f, ring, at, from, n)
    BY <1>5, <1>8, CopiesIs
  <1> DEFINE g == f[n]
  <1>12. g \in [Place -> V] /\ Has(g, text, c, front + n)
    <2> HIDE DEF f
    <2>1. Repeats(text, front, d, n, V)
      BY <1>10 DEF Repeats
    <2>2. c \in Nat /\ front \in Nat /\ front = c + (N - F) /\ n \in 0 .. F /\ d \in 1 .. N - F
      BY <1>3, <1>5, <1>7
    <2>3. ring \in [Place -> V] /\ Has(ring, text, c, front) /\ at = front % N
      BY <1>2, <1>4
    <2>4. QED
      BY <1>8, <1>11, <2>1, <2>2, <2>3, CopyDoes
  <1>13. out = [k \in 1 .. n |-> g[(at + k - 1) % N]]
    OBVIOUS
  <1> HIDE DEF g, f
  <1>14. ASSUME NEW k \in 1 .. n PROVE g[(at + k - 1) % N] = text[c + k] /\ text[c + k] \in Byte
    <2> DEFINE j == k - 1
    <2>1. j \in 0 .. n - 1 /\ j \in Int /\ at + k - 1 = at + j /\ (c + j) + 1 = c + k
          /\ front + j \in c .. (front + n) - 1 /\ c + k \in 1 .. Len(text)
      BY <1>3, <1>5, <1>8
    <2> HIDE DEF j
    <2>2. (at + j) % N = (front + j) % N
      BY <1>2, <1>3, <2>1, PlusMod
    <2>3. g[(front + j) % N] = Expect(text, front + j)
      BY <1>12, <2>1 DEF Has
    <2>4. Expect(text, front + j) = text[(c + j) + 1]
      BY <1>10, <2>1
    <2>5. text[c + k] \in Byte
      BY <1>4, <2>1
    <2>6. QED
      BY <2>1, <2>2, <2>3, <2>4, <2>5
  <1>15. out \in Seq(Byte) /\ Len(out) = n /\ \A k \in 1 .. n : out[k] = text[c + k]
    <2>1. out \in [1 .. n -> Byte]
      BY <1>13, <1>14
    <2>2. \A k \in 1 .. n : out[k] = text[c + k]
      BY <1>13, <1>14
    <2> HIDE DEF out
    <2>3. QED
      BY <1>5, <2>1, <2>2
  <1> HIDE DEF out
  <1>16. decoded' = SubSeq(text, 1, c + n)
    <2>1. c + n =< Len(text)
      BY <1>3, <1>5
    <2>2. SubSeq(text, 1, c) \o out = SubSeq(text, 1, c + n)
      BY <1>3, <1>4, <1>5, <1>15, <2>1, TextOn
    <2>3. QED
      BY <1>1, <1>2, <2>2
  <1>17. ring' = g
    BY <1>1 DEF g
  <1>18. QED
    BY <1>1, <1>5, <1>12, <1>16, <1>17, CodedHolds DEF c, front, V

(* The ring advances past a byte that has been coded.                        *)
LEMMA AdvanceSays ==
    ASSUME IInv, Advance,
           \/ read' = read + 1 /\ len' = len /\ read < Len(text)
           \/ read' = read /\ len' = len - 1 /\ read = Len(text)
    PROVE  /\ Coded' = Coded + 1 /\ Front' = Front + 1
           /\ s = Coded % N /\ text_buf \in Buffer /\ Kept(text_buf, text, Coded, read + (N - F))
           /\ s' \in Place /\ r' \in Place /\ r' = (Front + 1) % N
           /\ Places' /\ PutOut' /\ Begins' /\ Has(ring', text', Coded', Front' + Ahead')
           /\ Good(text_buf, Delete(tree, s))
           /\ Inside(Delete(tree, s), Front) /\ Near(Delete(tree, s), r')
           /\ i' \in 0 .. F + 1 /\ len' \in 0 .. F /\ read' \in 0 .. Len(text) /\ len' =< read'
           /\ pc' \in {"code", "advance", "done"} /\ (len' = 0 <=> pc' = "done")
           /\ pc' = "advance" => i' < last' /\ last' - i' =< len'
           /\ len >= 1 /\ (read < Len(text) => len = F)
  <1> DEFINE c == Coded
             front == Front
             n == Ahead
             to == front + n
  <1>1. /\ pc = "advance" /\ s' = (s + 1) % N /\ r' = (r + 1) % N /\ i' = i + 1
        /\ pc' = IF i' < last THEN "advance" ELSE IF len' > 0 THEN "code" ELSE "done"
        /\ UNCHANGED <<text, last, ring, at, decoded>>
    BY DEF Advance, decoder
  <1>2. /\ Kinds /\ text_buf \in Buffer /\ Good(text_buf, tree) /\ decoded = SubSeq(text, 1, c + n)
        /\ s = c % N /\ r = front % N /\ at = to % N
        /\ len >= 1 /\ (read < Len(text) => len = F) /\ i < last /\ last - i =< len
        /\ Kept(text_buf, text, c, read + (N - F)) /\ Has(ring, text, c, to)
        /\ \A p \in InTrees(tree) : Distance(p, r) =< N - F
    BY <1>1 DEF IInv, Sound, PutOut, Places, Amounts, Holding, Within, Running
  <1>3. /\ N \in Nat /\ F \in Nat /\ 2 =< F /\ 2 * F =< N
        /\ read \in Nat /\ read =< Len(text) /\ Len(text) \in Nat /\ len \in Nat /\ len =< F
        /\ c \in Nat /\ c \in Int /\ front \in Nat /\ front \in Int
        /\ front = c + (N - F) /\ read = c + len /\ last \in Nat /\ last =< F /\ i \in Nat
    BY <1>2, NumbersAre
  <1>4. n = last - i /\ n \in Nat /\ n >= 1
    BY <1>1, <1>2, <1>3 DEF Ahead
  <1>5. Coded' = c + 1
    BY <1>3 DEF Coded
  <1>6. Front' = front + 1
    <2>1. Front' = Coded' + (N - F)
      BY DEF Front
    <2>2. QED
      BY <1>3, <1>5, <2>1
  <1>7. Ahead' = n - 1 /\ (pc' = "advance" => i' < last' /\ last' - i' =< len')
    <2>1. CASE i + 1 < last
      BY <1>1, <1>2, <1>3, <1>4, <2>1 DEF Ahead
    <2>2. CASE ~ (i + 1 < last)
      <3>1. n = 1
        BY <1>2, <1>3, <1>4, <2>2
      <3>2. pc' # "advance"
        BY <1>1, <2>2
      <3>3. QED
        BY <3>1, <3>2 DEF Ahead
    <2>3. QED
      BY <2>1, <2>2
  <1> HIDE DEF c, front, n
  <1>8. Coded' + Ahead' = c + n /\ Front' + Ahead' = to
    BY <1>3, <1>4, <1>5, <1>6, <1>7
  <1>9. s' = (c + 1) % N /\ r' = (front + 1) % N
    <2>1. 1 \in Int /\ (s + 1) % N = (c + 1) % N /\ (r + 1) % N = (front + 1) % N
      BY <1>2, <1>3, PlusMod
    <2>2. QED
      BY <1>1, <2>1
  <1>10. s' \in Place /\ r' \in Place
    <2>1. c + 1 \in Int /\ front + 1 \in Int
      BY <1>3
    <2>2. QED
      BY <1>9, <2>1, Quotient
  <1> HIDE DEF to
  <1>11. Places' /\ PutOut' /\ Begins'
    <2>1. pc' # "start"
      BY <1>1
    <2>2. QED
      BY <1>1, <1>2, <1>5, <1>6, <1>8, <1>9, <2>1 DEF Places, PutOut, Begins
  <1>12. Has(ring', text', Coded', Front' + Ahead')
    <2>1. Has(ring, text, c + 1, to)
      <3>1. \A a \in c + 1 .. to - 1 : a \in c .. to - 1
        <4>1. to \in Int
          BY <1>3, <1>4 DEF to
        <4>2. QED
          BY <1>3, <4>1
      <3>2. QED
        BY <1>2, <3>1 DEF Has
    <2>2. QED
      BY <1>1, <1>5, <1>8, <2>1
  <1> DEFINE r2 == r'
             t2 == Delete(tree, s)
  <1>13. r2 = (front + 1) % N
    BY <1>9
  <1> HIDE DEF r2
  <1>14. Good(text_buf, t2) /\ Inside(t2, front) /\ Near(t2, r2)
    <2>1. t2 = Delete(tree, s)
      OBVIOUS
    <2> HIDE DEF t2
    <2>2. QED
      BY <1>2, <1>3, <1>13, <2>1, WindowStep
  <1>15. i' \in 0 .. F + 1 /\ len' \in 0 .. F /\ read' \in 0 .. Len(text) /\ len' =< read'
    BY <1>1, <1>2, <1>3
  <1>16. pc' \in {"code", "advance", "done"} /\ (len' = 0 <=> pc' = "done")
    <2>1. i' < last => len' # 0
      BY <1>1, <1>2, <1>3
    <2>2. len' > 0 <=> len' # 0
      BY <1>15
    <2>3. QED
      BY <1>1, <2>1, <2>2
  <1>17. QED
    BY <1>2, <1>5, <1>6, <1>7, <1>9, <1>10, <1>11, <1>12, <1>14, <1>15, <1>16 DEF c, front, r2

(* A byte is read in place of the oldest.                                    *)
LEMMA ReadByteHolds ==
    ASSUME IInv, ReadByte
    PROVE  IInv'
  <1> DEFINE c == Coded
             b == text[read + 1]
             t == Delete(tree, s)
             buf == text_buf'
             to == read + (N - F)
  <1>1. /\ read < Len(text) /\ read' = read + 1 /\ len' = len /\ Advance /\ pc = "advance"
        /\ InsertNode(text_buf', t, r')
        /\ UNCHANGED <<text, last, ring, at, decoded>>
    BY DEF ReadByte, Advance, decoder
  <1>2. /\ Coded' = c + 1 /\ Front' = Front + 1
        /\ s = c % N /\ text_buf \in Buffer /\ Kept(text_buf, text, c, to)
        /\ s' \in Place /\ r' \in Place
        /\ Places' /\ PutOut' /\ Begins' /\ Has(ring', text', Coded', Front' + Ahead')
        /\ Good(text_buf, t)
        /\ Inside(t, Front) /\ Near(t, r')
        /\ i' \in 0 .. F + 1 /\ len' \in 0 .. F /\ read' \in 0 .. Len(text) /\ len' =< read'
        /\ pc' \in {"code", "advance", "done"} /\ (len' = 0 <=> pc' = "done")
        /\ pc' = "advance" => i' < last' /\ last' - i' =< len'
        /\ len >= 1 /\ (read < Len(text) => len = F)
    BY <1>1, AdvanceSays
  <1>3. Kinds
    BY DEF IInv
  <1>4. /\ N \in Nat /\ F \in Nat /\ 2 =< F /\ 2 * F =< N
        /\ read \in Nat /\ Len(text) \in Nat
        /\ c \in Nat /\ Front = c + (N - F) /\ read = c + len
    BY <1>3, NumbersAre
  <1>5. text \in Seq(Byte) /\ match_position \in 0 .. N - 1
    BY <1>3 DEF Kinds
  <1>6. Overwrites(text_buf, s, b, buf)
    BY DEF ReadByte, Overwrites
  <1> HIDE DEF t, buf
  <1>7. to = c + N /\ read' + (N - F) = c + N + 1
    BY <1>1, <1>2, <1>4
  <1>8. b = Expect(text, c + N) /\ b \in Byte
    <2>1. to \in Nat /\ to >= N - F /\ to - (N - F) < Len(text) /\ (to - (N - F)) + 1 = read + 1
      BY <1>1, <1>4
    <2> HIDE DEF to
    <2>2. Expect(text, to) = text[(to - (N - F)) + 1] /\ Expect(text, to) \in Byte
      BY <1>5, <2>1, TextAt
    <2>3. QED
      BY <1>7, <2>1, <2>2
  <1>9. Kept(text_buf, text, c, c + N)
    BY <1>2, <1>7
  <1> HIDE DEF to, c, b
  <1>10. buf \in Buffer /\ Kept(buf, text, c + 1, c + N + 1)
    <2>1. Expect(text, c + N) \in Byte /\ Overwrites(text_buf, c % N, Expect(text, c + N), buf)
      BY <1>2, <1>6, <1>8
    <2>2. QED
      BY <1>2, <1>4, <1>9, <2>1, KeptNext
  <1>11. Good(buf, t)
    <2>1. Overwrites(text_buf, c % N, b, buf)
      BY <1>2, <1>6
    <2>2. QED
      BY <1>2, <1>4, <1>8, <2>1, OverwriteStep
  <1>12. /\ Good(buf, tree')
         /\ Found(buf, tree', r', match_length', match_position')
         /\ match_length' \in 0 .. F /\ match_position' \in 0 .. N - 1
         /\ \A p \in InTrees(tree') : Distance(p, r') =< N - F
    <2> DEFINE q == r'
    <2>1. N - F \in 0 .. N - F /\ q \in Place /\ InsertNode(buf, t, q)
          /\ \A p \in InTrees(t) : Distance(p, q) \in 1 .. N - F
      BY <1>1, <1>2, <1>4 DEF buf, Near
    <2> HIDE DEF q
    <2>2. /\ Good(buf, tree')
          /\ Found(buf, tree', q, match_length', match_position')
          /\ match_length' \in 0 .. F /\ match_position' \in 0 .. N - 1
          /\ \A p \in InTrees(tree') : Distance(p, q) =< N - F
      BY <1>5, <1>10, <1>11, <2>1, InsertStep
    <2>3. QED
      BY <2>2 DEF q
  <1>13. Kinds'
    BY <1>1, <1>2, <1>3, <1>12 DEF Kinds
  <1>14. Sound'
    BY <1>10, <1>12 DEF Sound, buf
  <1>15. Amounts'
    <2>1. len' >= 1 /\ len' = F
      BY <1>1, <1>2
    <2>2. QED
      BY <1>2, <2>1, <1>4 DEF Amounts, Running
  <1>16. Holding'
    BY <1>1, <1>2, <1>7, <1>10 DEF Holding, buf
  <1>17. Within' /\ Matched'
    BY <1>2, <1>12 DEF Within, Matched, buf
  <1>18. QED
    BY <1>2, <1>13, <1>14, <1>15, <1>16, <1>17 DEF IInv

(* Nothing is left to read.                                                  *)
LEMMA DrainHolds ==
    ASSUME IInv, Drain
    PROVE  IInv'
  <1> DEFINE t == Delete(tree, s)
  <1>1. /\ read = Len(text) /\ read' = read /\ len' = len - 1 /\ text_buf' = text_buf
        /\ Advance /\ pc = "advance"
        /\ len' > 0 => InsertNode(text_buf, t, r')
        /\ ~ (len' > 0) => tree' = t /\ UNCHANGED <<match_length, match_position>>
        /\ UNCHANGED <<text, last, ring, at, decoded>>
    BY DEF Drain, Advance, decoder
  <1>2. /\ Coded' = Coded + 1 /\ Front' = Front + 1
        /\ text_buf \in Buffer /\ Kept(text_buf, text, Coded, read + (N - F))
        /\ s' \in Place /\ r' \in Place
        /\ Places' /\ PutOut' /\ Begins' /\ Has(ring', text', Coded', Front' + Ahead')
        /\ Good(text_buf, t)
        /\ Near(t, r')
        /\ i' \in 0 .. F + 1 /\ len' \in 0 .. F /\ read' \in 0 .. Len(text) /\ len' =< read'
        /\ pc' \in {"code", "advance", "done"} /\ (len' = 0 <=> pc' = "done")
        /\ pc' = "advance" => i' < last' /\ last' - i' =< len'
    BY <1>1, AdvanceSays
  <1>3. Kinds
    BY DEF IInv
  <1>4. /\ N \in Nat /\ F \in Nat /\ 2 =< F /\ 2 * F =< N /\ read \in Nat /\ Coded \in Nat
        /\ Len(text) \in Nat
    BY <1>3, NumbersAre
  <1>5. match_length \in 0 .. F /\ match_position \in 0 .. N - 1
    BY <1>3 DEF Kinds
  <1> HIDE DEF t
  <1>6. /\ Good(text_buf, tree')
        /\ match_length' \in 0 .. F /\ match_position' \in 0 .. N - 1
        /\ len' > 0 => /\ Found(text_buf, tree', r', match_length', match_position')
                       /\ \A p \in InTrees(tree') : Distance(p, r') =< N - F
    <2>1. CASE len' > 0
      <3> DEFINE q == r'
      <3>1. N - F \in 0 .. N - F /\ q \in Place /\ InsertNode(text_buf, t, q)
            /\ \A p \in InTrees(t) : Distance(p, q) \in 1 .. N - F
        BY <1>1, <1>2, <1>4, <2>1 DEF Near
      <3> HIDE DEF q
      <3>2. /\ Good(text_buf, tree')
            /\ Found(text_buf, tree', q, match_length', match_position')
            /\ match_length' \in 0 .. F /\ match_position' \in 0 .. N - 1
            /\ \A p \in InTrees(tree') : Distance(p, q) =< N - F
        BY <1>2, <1>5, <3>1, InsertStep
      <3>3. QED
        BY <3>2 DEF q
    <2>2. CASE ~ (len' > 0)
      BY <1>1, <1>2, <1>5, <2>2
    <2>3. QED
      BY <2>1, <2>2
  <1>7. Kinds'
    BY <1>1, <1>2, <1>3, <1>6 DEF Kinds
  <1>8. Sound'
    BY <1>1, <1>2, <1>6 DEF Sound
  <1>9. len' > 0 <=> pc' # "done"
    BY <1>2
  <1>10. Amounts'
    <2>1. pc' # "done" => len' >= 1
      BY <1>2, <1>9
    <2>2. ~ (read' < Len(text)) /\ text' = text /\ read' = Len(text)
      BY <1>1, <1>4
    <2>3. QED
      BY <1>2, <2>1, <2>2 DEF Amounts, Running
  <1>11. Kept(text_buf, text, Coded + 1, read + (N - F))
    <2> DEFINE to == read + (N - F)
               c == Coded
    <2>1. \A a \in c + 1 .. to - 1 : a \in c .. to - 1
      BY <1>4
    <2> HIDE DEF to, c
    <2>2. Kept(text_buf, text, c, to) => Kept(text_buf, text, c + 1, to)
      BY <2>1 DEF Kept, Has
    <2>3. QED
      BY <1>2, <2>2 DEF to, c
  <1>12. Holding'
    BY <1>1, <1>2, <1>11 DEF Holding
  <1>13. Within' /\ Matched'
    BY <1>1, <1>2, <1>6, <1>9 DEF Within, Matched
  <1>14. QED
    BY <1>2, <1>7, <1>8, <1>10, <1>12, <1>13 DEF IInv

(* Every step keeps the invariant.                                           *)
LEMMA NextHolds ==
    ASSUME IInv, [Next]_vars
    PROVE  IInv'
  BY EmptyHolds, StartHolds, InsertBlankHolds, InsertFirstHolds, LiteralHolds, MatchHolds,
     ReadByteHolds, DrainHolds, StutterHolds DEF Next

(* Encode() and Decode() keep the invariant, whatever the text, the ring and *)
(* the longest match.                                                        *)
THEOREM Invariance == Spec => []IInv
  <1>1. Init => IInv
    BY InitHolds
  <1>2. IInv /\ [Next]_vars => IInv'
    BY NextHolds
  <1>3. QED
    BY <1>1, <1>2, PTL DEF Spec

-------------------------------------------------------------------------------
(* No counter of Encode() and Decode() leaves the ring or the input, no son  *)
(* or father the arrays.                                                     *)
THEOREM TypeCorrect == Spec => []TypeOK
  <1>1. ASSUME IInv PROVE TypeOK
    <2>1. Kinds /\ Sound
      BY <1>1 DEF IInv
    <2>2. text_buf \in [0 .. N + F - 2 -> Byte]
      BY <2>1 DEF Sound, Buffer, Index
    <2>3. tree \in [lson : [0 .. N -> 0 .. N], rson : [0 .. N \cup Roots -> 0 .. N],
                    dad : [0 .. N -> 0 .. N \cup Roots]]
      BY <2>1 DEF Sound, Good, Trees, Nodes
    <2>4. QED
      BY <2>1, <2>2, <2>3 DEF Kinds, TypeOK
  <1>2. QED
    BY <1>1, Invariance, PTL

(* Encode() deletes a place before it overwrites its bytes: the trees hold   *)
(* none outside the window of N - F.                                         *)
THEOREM WindowKept == Spec => []InWindow
  <1>1. ASSUME IInv PROVE InWindow
    BY <1>1 DEF IInv, Within, InWindow, Registered
  <1>2. QED
    BY <1>1, Invariance, PTL

(* InsertNode()'s way through the tree leads to every place DeleteNode() has *)
(* not removed.                                                              *)
THEOREM SearchFinds == Spec => []Findable
  <1>1. ASSUME IInv PROVE Findable
    <2>1. text_buf \in Buffer /\ Good(text_buf, tree)
      BY <1>1 DEF IInv, Sound
    <2>2. PICK D, h, top : Shape(text_buf, tree.lson, tree.rson, tree.dad, D, h, top)
      BY <2>1 DEF Good
    <2>3. ASSUME NEW p \in Registered, NEW path, path = Path(text_buf, tree, p)
          PROVE  path[Len(path)] = p
      <3>1. p \in Place /\ p \in In(tree.dad)
        BY DEF Registered, InTrees, In
      <3>2. QED
        BY <2>1, <2>2, <2>3, <3>1, WayIs
    <2>4. QED
      BY <2>3 DEF Findable
  <1>2. QED
    BY <1>1, Invariance, PTL

(* What InsertNode() reports is a match at that distance, and no place in    *)
(* the trees has a longer one.                                               *)
THEOREM MatchIsLongest == Spec => []LongestMatch
  <1>1. ASSUME IInv PROVE LongestMatch
    <2> SUFFICES ASSUME pc = "code" PROVE LongestMatch
      BY DEF LongestMatch
    <2>1. Found(text_buf, tree, r, match_length, match_position) /\ r \in Place
          /\ match_position \in 0 .. N - 1
      BY <1>1, CodeSays DEF Kinds
    <2>2. ASSUME match_length > 0
          PROVE  Common(text_buf, (r - match_position - 1) % N, r) = match_length
      <3>1. PICK v \in Place : /\ match_position + 1 = Distance(v, r)
                               /\ Common(text_buf, v, r) = match_length
        BY <2>1, <2>2 DEF Found
      <3>2. r \in Int /\ r % N = r
        BY <2>1, PlaceIs
      <3>3. v = (r - Distance(v, r)) % N
        BY <3>2, Behind
      <3>4. r - Distance(v, r) = r - match_position - 1
        <4> DEFINE d == Distance(v, r)
        <4>1. N \in Nat
          BY Sizes
        <4>2. match_position \in Int /\ d = match_position + 1
          BY <2>1, <3>1, <4>1
        <4> HIDE DEF d
        <4>3. r - d = r - match_position - 1
          BY <3>2, <4>2
        <4>4. QED
          BY <4>3 DEF d
      <3>5. QED
        BY <3>1, <3>3, <3>4
    <2>3. \A p \in Registered \ {r} : text_buf[p] = text_buf[r] =>
             Common(text_buf, p, r) <= Max({Threshold, match_length})
      BY <2>1 DEF Found, Registered
    <2>4. QED
      BY <2>2, <2>3 DEF LongestMatch
  <1>2. QED
    BY <1>1, Invariance, PTL

(* Decode() gives back what Encode() has read, and at the end all of it.     *)
THEOREM GivenBack == Spec => []RoundTrip
  <1>1. ASSUME IInv PROVE RoundTrip
    <2> DEFINE m == Coded + Ahead
    <2>1. Kinds /\ Amounts /\ decoded = SubSeq(text, 1, m) /\ text \in Seq(Byte)
      BY <1>1 DEF IInv, PutOut, Kinds
    <2>2. /\ read \in Nat /\ read =< Len(text) /\ len \in Nat /\ Coded \in Nat
          /\ read = Coded + len /\ last \in Nat /\ i \in Nat /\ Len(text) \in Nat
      BY <2>1, NumbersAre
    <2>3. m \in Nat /\ m =< Len(text) /\ (pc # "advance" => m = Coded)
      BY <2>1, <2>2 DEF Amounts, Ahead
    <2>4. pc = "done" => m = Len(text)
      BY <2>1, <2>2, <2>3 DEF Amounts
    <2>5. Coded = read - len
      BY DEF Coded
    <2> HIDE DEF m
    <2>6. Len(decoded) = m
      BY <2>1, <2>2, <2>3
    <2>7. decoded = SubSeq(text, 1, Len(decoded))
      BY <2>1, <2>6
    <2>8. pc = "code" => Len(decoded) = read - len
      BY <2>3, <2>5, <2>6
    <2>9. pc = "done" => decoded = text
      <3>1. SubSeq(text, 1, Len(text)) = text
        BY <2>1
      <3>2. QED
        BY <2>1, <2>4, <3>1
    <2>10. QED
      BY <2>7, <2>8, <2>9 DEF RoundTrip
  <1>2. QED
    BY <1>1, Invariance, PTL
===============================================================================
