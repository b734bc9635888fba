----------------------------- MODULE HuffmanProofs -----------------------------
(***************************************************************************)
(* update() and reconst() of lzhuf_1.c keep a Huffman tree of the counts,    *)
(* with every code in it, for any number of codes and any MAX_FREQ below the *)
(* sentinel; no count goes beyond MAX_FREQ, which is tested with == only.    *)
(* A code is as short as the counts allow, a code that fits in EncodeChar()'s *)
(* register is decoded as it was encoded, and so is every position.          *)
(***************************************************************************)
EXTENDS Huffman, WellFoundedInduction, TLAPS

(* The indices of prnt: the nodes, and a place for each leaf.                *)
Links == 0 .. T + NChar - 1

(* The parts of SiblingProperty, of arrays f (freq), s (son) and p (prnt).   *)
Sorted(f, a, b) == \A m, n \in a .. b : m =< n => f[m] =< f[n]

SumsUp(f, s, n) == s[n] < T => f[n] = f[s[n]] + f[s[n] + 1]

LinkedIn(s, p) ==
    /\ \A n \in Node : p[s[n]] = n /\ p[Right(s[n])] = n /\ (s[n] < T => s[n] + 1 < n)
    /\ \A x \in Links \ {R} : x \in {s[p[x]], Right(s[p[x]])}

(* Running sums over the nodes a .. b-1: of all frequencies, of those of the *)
(* leaves, and of the number of leaves.                                      *)
Weight(f, s, k) == IF s[k] >= T THEN f[k] ELSE 0
One(s, k)       == IF s[k] >= T THEN 1 ELSE 0

Adds(f, q, a, b)      == q \in [0 .. T -> Int] /\ \A k \in a .. b - 1 : q[k + 1] = q[k] + f[k]
Weighs(f, s, g, a, b) ==
    g \in [0 .. T -> Int] /\ \A k \in a .. b - 1 : g[k + 1] = g[k] + Weight(f, s, k)
Leaves(s, m, a, b)    ==
    m \in [0 .. T -> Int] /\ \A k \in a .. b - 1 : m[k + 1] = m[k] + One(s, k)

(* What SizesAssumption says of the sizes.                                   *)
LEMMA Sizes ==
    /\ NChar \in Nat /\ NChar >= 2 /\ MaxFreq \in Nat /\ NChar < MaxFreq /\ MaxFreq < 65535
    /\ T \in Nat /\ R \in Nat /\ R = T - 1 /\ T = 2 * NChar - 1 /\ NChar < T
    /\ Node = 0 .. R /\ Code = 0 .. NChar - 1
  BY SizesAssumption DEF T, R, Node, Code

(* A set of numbers has a smallest one: what induction comes down to here.   *)
LEMMA Smallest ==
    ASSUME NEW S \in SUBSET Nat, S # {}
    PROVE  \E n \in S : \A k \in S : n =< k
  <1>1. PICK n \in S : \A k \in S : ~(<<k, n>> \in OpToRel(<, Nat))
    BY NatLessThanWellFounded, WFMin
  <1>2. \A k \in S : ~ (k < n)
    BY <1>1 DEF OpToRel
  <1>3. QED
    BY <1>2

-------------------------------------------------------------------------------
(* update().  The node that is counted has overtaken those up to l, all as   *)
(* frequent as it is; it changes places with l.                              *)
Overtaken(f, n, l) ==
    /\ l \in n .. R /\ f[n] < f[l + 1]
    /\ \A m \in n + 1 .. l : f[m] =< f[n]

(* There is such a place: the sentinel is above every frequency.             *)
LEMMA LastIs ==
    ASSUME NEW t, NEW n \in Node, t.freq \in [0 .. T -> Nat],
           t.freq[T] = 65535, t.freq[n] < 65535
    PROVE  Overtaken(t.freq, n, Last(t, n))
  <1> DEFINE f == t.freq
             S == {l \in n .. R : f[n] < f[l + 1]}
  <1>1. R \in Nat /\ R + 1 = T /\ n \in 0 .. R
    BY Sizes
  <1>2. S \in SUBSET Nat /\ R \in S
    BY <1>1
  <1> HIDE DEF S
  <1>3. PICK l \in S : \A k \in S : l =< k
    <2>1. S \in SUBSET Nat /\ S # {}
      BY <1>2
    <2>2. \E l \in S : \A k \in S : l =< k
      BY <2>1, Smallest
    <2>3. QED
      BY <2>2
  <1>4. \A m \in n + 1 .. l : f[m] =< f[n]
    <2> TAKE m \in n + 1 .. l
    <2>1. l \in n .. R /\ m \in Int
      BY <1>1, <1>3 DEF S
    <2>2. m - 1 \in n .. R /\ ~ (l =< m - 1) /\ m \in 0 .. T
      BY <1>1, <2>1
    <2>3. m - 1 \notin S
      BY <1>3, <2>2
    <2>4. ~ (f[n] < f[m])
      BY <1>1, <2>1, <2>2, <2>3 DEF S
    <2>5. f[n] \in Nat /\ f[m] \in Nat
      BY <1>1, <2>2
    <2>6. QED
      BY <2>4, <2>5
  <1>5. \E k \in n .. R : /\ \A m \in n + 1 .. k : t.freq[m] =< t.freq[n]
                          /\ t.freq[n] < t.freq[k + 1]
    BY <1>3, <1>4 DEF S
  <1>6. QED
    BY <1>5 DEF Last, Overtaken

(* What is at n and l afterwards.                                            *)
Swapped(f, s, p, n, l, f2, s2, p2) ==
    /\ f2 = [f EXCEPT ![n] = f[l], ![l] = f[n] + 1]
    /\ s2 = [s EXCEPT ![n] = s[l], ![l] = s[n]]
    /\ p2 = [p EXCEPT ![s[n]] = l, ![Right(s[n])] = l, ![s[l]] = n, ![Right(s[l])] = n]

(* What update()'s loop starts a pass from, and what it makes of it.          *)
Passing(f, s, p, n, l, f2, s2, p2) ==
    /\ Overtaken(f, n, l) /\ Sorted(f, 0, R) /\ LinkedIn(s, p)
    /\ \A k \in Node : f[k] >= 1
    /\ \A k \in Node \ {n} : SumsUp(f, s, k)
    /\ Swapped(f, s, p, n, l, f2, s2, p2)

(* The sons of a node, and nobody else's, point to it.                       *)
LEMMA OneParent ==
    ASSUME NEW s \in [Node -> Links], NEW p, LinkedIn(s, p),
           NEW m \in Node, NEW n \in Node, NEW x \in {s[m], Right(s[m])},
           x \in {s[n], Right(s[n])}
    PROVE  m = n
  BY DEF LinkedIn

(* The two that changed places: l is counted, each has the sons of the other,*)
(* and all their sons were to the left of n.                                 *)
FreqSays(f, n, l, f2) ==
    /\ f2 \in [0 .. T -> Nat]
    /\ \A k \in 0 .. T : f2[k] = IF k = l THEN f[n] + 1 ELSE f[k]

SonSays(s, n, l, s2) ==
    /\ s2 \in [Node -> Links]
    /\ \A k \in Node : s2[k] = IF k = n THEN s[l] ELSE IF k = l THEN s[n] ELSE s[k]

PrntSays(s, p, n, l, p2) ==
    /\ p2 \in [Links -> Node]
    /\ \A x \in Links : p2[x] = IF x \in {s[l], Right(s[l])} THEN n
                                ELSE IF x \in {s[n], Right(s[n])} THEN l ELSE p[x]

LeftOf(x, n) == x < T => x + 1 < n

Says(f, s, p, n, l, f2, s2, p2) ==
    /\ l \in Node /\ n =< l /\ f[l] = f[n]
    /\ FreqSays(f, n, l, f2) /\ SonSays(s, n, l, s2) /\ PrntSays(s, p, n, l, p2)
    /\ LeftOf(s[n], n) /\ LeftOf(s[l], n)

(* A node is a number.                                                       *)
LEMMA NodesAre ==
    /\ R \in Nat /\ T \in Nat /\ R + 1 = T /\ Node = 0 .. R
    /\ \A k \in Node : k \in 0 .. R /\ k \in 0 .. T /\ k \in Nat
  <1>1. R \in Nat /\ T \in Nat /\ R + 1 = T /\ Node = 0 .. R
    BY Sizes
  <1>2. QED
    BY <1>1

(* Sons are nodes, or leaves.                                                *)
LEMMA SonsAre ==
    ASSUME NEW n \in Node, NEW x \in Links, LeftOf(x, n)
    PROVE  /\ x \in Int /\ n \in Int /\ Right(x) \in Links
           /\ x < T => x \in Node /\ x + 1 \in Node /\ Right(x) = x + 1
           /\ ~ (x < T) => Right(x) = x
  BY Sizes DEF LeftOf, Links, Right

(* What is to the left of a node is to the left of those behind it.          *)
LEMMA LeftMore ==
    ASSUME NEW n \in Node, NEW l \in Node, NEW x \in Links, n =< l, LeftOf(x, n)
    PROVE  LeftOf(x, l)
  <1>1. x \in Int /\ n \in Int /\ l \in Int
    BY SonsAre, NodesAre
  <1>2. QED
    BY <1>1 DEF LeftOf

(* Each node is to the right of its sons.                                    *)
LEMMA LinkedLeft ==
    ASSUME NEW s, NEW p, LinkedIn(s, p), NEW n \in Node
    PROVE  LeftOf(s[n], n)
  BY DEF LinkedIn, LeftOf

(* The last node overtaken is as frequent as the first.                      *)
LEMMA SameFreq ==
    ASSUME NEW f \in [0 .. T -> Nat], NEW n \in Node, NEW l, Overtaken(f, n, l),
           Sorted(f, 0, R)
    PROVE  l \in Node /\ n =< l /\ f[l] = f[n]
  <1>0. R \in Nat /\ R + 1 = T /\ n \in 0 .. R /\ Node = 0 .. R
    BY Sizes
  <1>1. l \in n .. R /\ l \in 0 .. R /\ l \in 0 .. T /\ n \in 0 .. T /\ n =< l
    BY <1>0 DEF Overtaken
  <1>2. f[n] =< f[l] /\ f[n] \in Nat /\ f[l] \in Nat
    BY <1>0, <1>1 DEF Sorted
  <1>3. l = n \/ l \in n + 1 .. l
    BY <1>0, <1>1
  <1>4. f[l] =< f[n]
    BY <1>2, <1>3 DEF Overtaken
  <1>5. QED
    BY <1>0, <1>1, <1>2, <1>4

(* One pass of update()'s loop, node by node: a node that stands among the   *)
(* overtaken cannot be a son of l, which would be more frequent.             *)
LEMMA SwapSays ==
    ASSUME NEW f \in [0 .. T -> Nat], NEW s \in [Node -> Links], NEW p \in [Links -> Node],
           NEW n \in Node, NEW l, NEW f2, NEW s2, NEW p2,
           Passing(f, s, p, n, l, f2, s2, p2)
    PROVE  Says(f, s, p, n, l, f2, s2, p2)
  <1>0. /\ Overtaken(f, n, l) /\ Sorted(f, 0, R) /\ LinkedIn(s, p)
        /\ \A k \in Node : f[k] >= 1
        /\ \A k \in Node \ {n} : SumsUp(f, s, k)
        /\ Swapped(f, s, p, n, l, f2, s2, p2)
    BY DEF Passing
  <1>1. l \in Node /\ n =< l /\ f[l] = f[n]
    BY <1>0, SameFreq
  <1>2. /\ R \in Nat /\ T \in Nat /\ R + 1 = T /\ n \in 0 .. R /\ l \in 0 .. R /\ Node = 0 .. R
        /\ n \in 0 .. T /\ l \in 0 .. T
    BY <1>1, NodesAre
  <1>3. LeftOf(s[n], n) /\ LeftOf(s[l], l) /\ s[n] \in Links /\ s[l] \in Links
    BY <1>0, <1>1, LinkedLeft
  <1>4. LeftOf(s[l], n)
    <2>1. CASE l = n
      BY <1>3, <2>1
    <2>2. CASE ~ (s[l] < T)
      BY <2>2 DEF LeftOf
    <2>3. CASE l # n /\ s[l] < T
      <3> DEFINE x == s[l]
      <3>1. f[l] = f[x] + f[x + 1]
        BY <1>0, <1>1, <2>3 DEF SumsUp
      <3>2. x \in Node /\ x + 1 \in Node /\ x \in Int /\ n \in Int
        BY <1>1, <1>3, <2>3, SonsAre
      <3>3. /\ f[x] >= 1 /\ x + 1 \in 0 .. R
            /\ f[x] \in Nat /\ f[x + 1] \in Nat /\ f[n] \in Nat
        <4>1. f[x] >= 1
          BY <1>0, <3>2
        <4>2. x + 1 \in 0 .. R /\ x + 1 \in 0 .. T /\ x \in 0 .. T
          BY <3>2, NodesAre
        <4>3. QED
          BY <1>2, <4>1, <4>2
      <3> HIDE DEF x
      <3>4. n =< x + 1 => f[n] =< f[x + 1]
        BY <1>0, <1>2, <3>3 DEF Sorted
      <3>5. ~ (n =< x + 1)
        BY <1>1, <3>1, <3>3, <3>4
      <3>6. QED
        BY <3>2, <3>5 DEF LeftOf, x
    <2>4. QED
      BY <2>1, <2>2, <2>3
  <1>5. FreqSays(f, n, l, f2)
    <2>1. f[n] \in Nat /\ f[l] \in Nat
      BY <1>2
    <2>2. f2 = [f EXCEPT ![n] = f[n], ![l] = f[n] + 1]
      BY <1>0, <1>1 DEF Swapped
    <2>3. [f EXCEPT ![n] = f[n]] = f
      OBVIOUS
    <2>4. f2 = [f EXCEPT ![l] = f[n] + 1]
      BY <2>2, <2>3
    <2>5. f2 \in [0 .. T -> Nat] /\ \A k \in 0 .. T : f2[k] = IF k = l THEN f[n] + 1 ELSE f[k]
      <3> DEFINE v == f[n] + 1
      <3>1. v \in Nat
        BY <2>1
      <3>2. f2 = [f EXCEPT ![l] = v]
        BY <2>4
      <3> HIDE DEF v
      <3>3. f2 \in [0 .. T -> Nat] /\ \A k \in 0 .. T : f2[k] = IF k = l THEN v ELSE f[k]
        BY <3>1, <3>2
      <3>4. QED
        BY <3>3 DEF v
    <2>6. QED
      BY <2>5 DEF FreqSays
  <1>6. SonSays(s, n, l, s2)
    BY <1>0, <1>1 DEF Swapped, SonSays
  <1>7. Right(s[n]) \in Links /\ Right(s[l]) \in Links
    BY <1>1, <1>3, SonsAre
  <1>8. PrntSays(s, p, n, l, p2)
    BY <1>0, <1>1, <1>3, <1>7 DEF Swapped, PrntSays
  <1>9. QED
    BY <1>1, <1>3, <1>4, <1>5, <1>6, <1>8 DEF Says

(* Sons and parents still agree: each of the two gets the sons of the other. *)
LEMMA SwapLinks ==
    ASSUME NEW f \in [0 .. T -> Nat], NEW s \in [Node -> Links], NEW p \in [Links -> Node],
           NEW n \in Node, NEW l, NEW f2, NEW s2, NEW p2,
           Passing(f, s, p, n, l, f2, s2, p2)
    PROVE  LinkedIn(s2, p2)
  <1>0. Says(f, s, p, n, l, f2, s2, p2) /\ LinkedIn(s, p)
    BY SwapSays DEF Passing
  <1>1. /\ l \in Node /\ n =< l /\ f[l] = f[n]
        /\ FreqSays(f, n, l, f2) /\ SonSays(s, n, l, s2) /\ PrntSays(s, p, n, l, p2)
        /\ LeftOf(s[n], n) /\ LeftOf(s[l], n)
    BY <1>0 DEF Says
  <1>2. \A k \in Node : s[k] \in Links /\ Right(s[k]) \in Links
    BY <1>0, LinkedLeft, SonsAre
  <1>3. /\ s2 \in [Node -> Links] /\ s2[n] = s[l] /\ s2[l] = s[n]
        /\ \A k \in Node : k \notin {l, n} => s2[k] = s[k]
    BY <1>1 DEF SonSays
  <1>4. /\ p2 \in [Links -> Node]
        /\ \A x \in Links : x \in {s[l], Right(s[l])} => p2[x] = n
        /\ \A x \in Links : x \notin {s[l], Right(s[l])} =>
               p2[x] = IF x \in {s[n], Right(s[n])} THEN l ELSE p[x]
    <2>1. p2 \in [Links -> Node]
      BY <1>1 DEF PrntSays
    <2>2. ASSUME NEW x \in Links
          PROVE  /\ x \in {s[l], Right(s[l])} => p2[x] = n
                 /\ x \notin {s[l], Right(s[l])} =>
                        p2[x] = IF x \in {s[n], Right(s[n])} THEN l ELSE p[x]
      <3>1. p2[x] = IF x \in {s[l], Right(s[l])} THEN n
                    ELSE IF x \in {s[n], Right(s[n])} THEN l ELSE p[x]
        BY <1>1 DEF PrntSays
      <3>2. QED
        BY <3>1
    <2>3. QED
      BY <2>1, <2>2
  <1>5. ASSUME NEW k \in Node
        PROVE  p2[s2[k]] = k /\ p2[Right(s2[k])] = k /\ LeftOf(s2[k], k)
    <2>1. CASE k = n
      <3>1. p2[s[l]] = n /\ p2[Right(s[l])] = n
        BY <1>1, <1>2, <1>4
      <3>2. QED
        BY <1>1, <1>3, <2>1, <3>1
    <2>2. CASE k = l /\ k # n
      <3>1. s[n] \notin {s[l], Right(s[l])} /\ Right(s[n]) \notin {s[l], Right(s[l])}
        BY <1>0, <1>1, <2>2, OneParent
      <3>2. LeftOf(s[n], l)
        BY <1>1, <1>2, LeftMore
      <3>3. QED
        BY <1>1, <1>2, <1>3, <1>4, <2>2, <3>1, <3>2
    <2>3. CASE k \notin {l, n}
      <3>1. s2[k] = s[k]
        BY <1>3, <2>3
      <3>2. \A x \in {s[k], Right(s[k])} : x \notin {s[l], Right(s[l])} /\ x \notin {s[n], Right(s[n])}
        BY <1>0, <1>1, <2>3, OneParent
      <3>3. p2[s[k]] = p[s[k]] /\ p2[Right(s[k])] = p[Right(s[k])]
        BY <1>2, <1>4, <3>2
      <3>4. p[s[k]] = k /\ p[Right(s[k])] = k /\ LeftOf(s[k], k)
        BY <1>0, LinkedLeft DEF LinkedIn
      <3>5. QED
        BY <3>1, <3>3, <3>4
    <2>4. QED
      BY <2>1, <2>2, <2>3
  <1>6. ASSUME NEW x \in Links \ {R}
        PROVE  x \in {s2[p2[x]], Right(s2[p2[x]])}
    <2>1. CASE x \in {s[l], Right(s[l])}
      BY <1>1, <1>3, <1>4, <2>1
    <2>2. CASE x \notin {s[l], Right(s[l])} /\ x \in {s[n], Right(s[n])}
      BY <1>1, <1>3, <1>4, <2>2
    <2>3. CASE x \notin {s[l], Right(s[l])} /\ x \notin {s[n], Right(s[n])}
      <3>1. p2[x] = p[x] /\ p[x] \in Node /\ x \in {s[p[x]], Right(s[p[x]])}
        BY <1>0, <1>4, <2>3 DEF LinkedIn
      <3>2. p[x] # n /\ p[x] # l
        BY <2>3, <3>1
      <3>3. QED
        BY <1>3, <3>1, <3>2
    <2>4. QED
      BY <2>1, <2>2, <2>3
  <1>7. QED
    BY <1>5, <1>6 DEF LinkedIn, LeftOf


(* The order is kept: what stands behind l is more frequent.                 *)
LEMMA SwapSorted ==
    ASSUME NEW f \in [0 .. T -> Nat], NEW s \in [Node -> Links], NEW p \in [Links -> Node],
           NEW n \in Node, NEW l, NEW f2, NEW s2, NEW p2,
           Passing(f, s, p, n, l, f2, s2, p2)
    PROVE  Sorted(f2, 0, R)
  <1>0. /\ l \in 0 .. R /\ n \in 0 .. R /\ n =< l /\ f[l] = f[n] /\ R \in Nat /\ T = R + 1
        /\ \A k \in 0 .. T : f2[k] = IF k = l THEN f[n] + 1 ELSE f[k]
        /\ \A k \in 0 .. T : f[k] \in Nat
        /\ f[n] < f[l + 1] /\ Sorted(f, 0, R)
    <2>1. Overtaken(f, n, l) /\ Sorted(f, 0, R)
      BY DEF Passing
    <2>2. Says(f, s, p, n, l, f2, s2, p2)
      BY SwapSays
    <2>3. /\ l \in Node /\ n =< l /\ f[l] = f[n]
          /\ \A k \in 0 .. T : f2[k] = IF k = l THEN f[n] + 1 ELSE f[k]
      BY <2>2 DEF Says, FreqSays
    <2>4. f[n] < f[l + 1]
      BY <2>1 DEF Overtaken
    <2>5. QED
      BY <2>1, <2>3, <2>4, NodesAre
  <1>1. ASSUME NEW a \in 0 .. R, NEW b \in 0 .. R, a =< b
        PROVE  f2[a] =< f2[b]
    <2>1. a \in 0 .. T /\ b \in 0 .. T /\ f[a] =< f[b]
      BY <1>0, <1>1 DEF Sorted
    <2>2. CASE a = l /\ b # l
      <3>1. l + 1 \in 0 .. R /\ l + 1 \in 0 .. T /\ l + 1 =< b
        BY <1>0, <1>1, <2>2
      <3>2. f[l + 1] =< f[b]
        BY <1>0, <3>1 DEF Sorted
      <3>3. QED
        <4>1. f[n] \in Nat /\ f[l + 1] \in Nat /\ f[b] \in Nat /\ n \in 0 .. T
          BY <1>0, <2>1, <3>1
        <4>2. f2[a] = f[n] + 1 /\ f2[b] = f[b] /\ f[n] < f[l + 1]
          BY <1>0, <2>1, <2>2
        <4>3. QED
          BY <3>2, <4>1, <4>2
    <2>3. CASE a # l \/ b = l
      <3>1. f2[a] = f[a] \/ f2[a] = f2[b]
        BY <1>0, <2>1, <2>3
      <3>2. f2[b] \in {f[b], f[n] + 1} /\ (b = l => f[b] = f[n])
        BY <1>0, <2>1
      <3>3. f[a] \in Nat /\ f[b] \in Nat /\ f[n] \in Nat /\ n \in 0 .. T
        BY <1>0, <2>1
      <3>4. f2[b] = f[n] + 1 => b = l \/ f2[b] = f[b]
        BY <1>0, <2>1
      <3>5. QED
        BY <2>1, <3>1, <3>2, <3>3, <3>4
    <2>4. QED
      BY <2>2, <2>3
  <1>2. QED
    BY <1>1 DEF Sorted

(* A node is not a son of one that stands before it.                         *)
LEMMA NotSon ==
    ASSUME NEW n \in Node, NEW x \in Node, n =< x, NEW y \in Links, LeftOf(y, n)
    PROVE  x \notin {y, Right(y)} /\ (y < T => x \notin {y, y + 1})
  <1>1. /\ y \in Int /\ n \in Int /\ x \in Int /\ T \in Int /\ x < T
        /\ y < T => Right(y) = y + 1
        /\ ~ (y < T) => Right(y) = y
    BY SonsAre, NodesAre
  <1>2. CASE y < T
    BY <1>1, <1>2 DEF LeftOf
  <1>3. CASE ~ (y < T)
    BY <1>1, <1>3
  <1>4. QED
    BY <1>2, <1>3

(* Node l, with the sons of n, is counted now; the one above it is not yet.  *)
CountedUpTo(f2, s2, p, l, p2) ==
    /\ \A k \in Node \ {p2[l]} : SumsUp(f2, s2, k)
    /\ l # R => /\ p2[l] # 0 /\ s2[p2[l]] < T
                /\ f2[p2[l]] + 1 = f2[s2[p2[l]]] + f2[s2[p2[l]] + 1]
    /\ l = R => \A k \in Node : SumsUp(f2, s2, k)
    /\ p2[R] = p[R]

(* The sums are those of the sons again, but for the parent of l.            *)
LEMMA SwapSums ==
    ASSUME NEW f \in [0 .. T -> Nat], NEW s \in [Node -> Links], NEW p \in [Links -> Node],
           NEW n \in Node, NEW l, NEW f2, NEW s2, NEW p2,
           Passing(f, s, p, n, l, f2, s2, p2),
           s[n] < T => f[n] + 1 = f[s[n]] + f[s[n] + 1]
    PROVE  CountedUpTo(f2, s2, p, l, p2)
  <1>0. Says(f, s, p, n, l, f2, s2, p2)
    BY SwapSays
  <1>1. /\ l \in Node /\ n =< l /\ f[l] = f[n]
        /\ FreqSays(f, n, l, f2) /\ SonSays(s, n, l, s2) /\ PrntSays(s, p, n, l, p2)
        /\ LeftOf(s[n], n) /\ LeftOf(s[l], n)
    BY <1>0 DEF Says
  <1>2. LinkedIn(s, p) /\ \A k \in Node \ {n} : SumsUp(f, s, k)
    BY DEF Passing
  <1>3. \A k \in Node : s[k] \in Links /\ LeftOf(s[k], k)
    BY <1>2, LinkedLeft
  <1>4. /\ f2[l] = f[n] + 1
        /\ \A k \in Node : k # l => f2[k] = f[k]
        /\ \A k \in Node : f[k] \in Nat
    BY <1>1, NodesAre DEF FreqSays
  <1>5. /\ s2[n] = s[l] /\ s2[l] = s[n]
        /\ \A k \in Node : k \notin {l, n} => s2[k] = s[k]
    BY <1>1 DEF SonSays
  <1>6. ASSUME NEW x \in Links, LeftOf(x, n), x < T
        PROVE  f2[x] = f[x] /\ f2[x + 1] = f[x + 1]
    <2>1. x \in Node /\ x + 1 \in Node /\ l \notin {x, x + 1}
      BY <1>1, <1>6, SonsAre, NotSon
    <2>2. QED
      BY <1>4, <2>1
  <1>7. SumsUp(f2, s2, l)
    <2>1. s[n] < T => f2[s[n]] = f[s[n]] /\ f2[s[n] + 1] = f[s[n] + 1]
      BY <1>1, <1>3, <1>6
    <2>2. QED
      BY <1>4, <1>5, <2>1 DEF SumsUp
  <1>8. n # l => SumsUp(f2, s2, n)
    <2>1. s[l] < T => f2[s[l]] = f[s[l]] /\ f2[s[l] + 1] = f[s[l] + 1]
      BY <1>1, <1>3, <1>6
    <2>2. n # l => SumsUp(f, s, l) /\ f2[n] = f[l]
      BY <1>1, <1>2, <1>4
    <2>3. QED
      BY <1>5, <2>1, <2>2 DEF SumsUp
  <1>9. ASSUME NEW k \in Node, k \notin {l, n}, s[k] < T => l \notin {s[k], s[k] + 1}
        PROVE  SumsUp(f2, s2, k)
    <2>1. s2[k] = s[k] /\ f2[k] = f[k] /\ SumsUp(f, s, k)
      BY <1>2, <1>4, <1>5, <1>9
    <2>2. s[k] < T => f2[s[k]] = f[s[k]] /\ f2[s[k] + 1] = f[s[k] + 1]
      BY <1>3, <1>4, <1>9, SonsAre
    <2>3. QED
      BY <2>1, <2>2 DEF SumsUp
  <1>10. ASSUME NEW x \in Node, l =< x
         PROVE  p2[x] = p[x] /\ x \in Links
    <2>1. n =< x /\ x \in Links
      <3>1. x \in Int /\ n \in Int /\ l \in Int /\ x \in 0 .. R /\ T = R + 1 /\ R \in Nat
        BY <1>1, NodesAre
      <3>2. NChar \in Nat /\ NChar >= 2
        BY Sizes
      <3>3. QED
        BY <1>1, <1>10, <3>1, <3>2 DEF Links
    <2>2. x \notin {s[l], Right(s[l])} /\ x \notin {s[n], Right(s[n])}
      BY <1>1, <1>3, <2>1, NotSon
    <2>3. p2[x] = IF x \in {s[l], Right(s[l])} THEN n
                  ELSE IF x \in {s[n], Right(s[n])} THEN l ELSE p[x]
      BY <1>1, <2>1 DEF PrntSays
    <2>4. QED
      BY <2>1, <2>2, <2>3
  <1>11. l =< l /\ l =< R /\ R \in Node /\ l \in Int /\ 0 \in Node
    BY <1>1, NodesAre
  <1>12. ASSUME NEW k \in Node, s[k] < T, l \in {s[k], s[k] + 1}
         PROVE  p2[l] = k /\ l # R
    <2>1. Right(s[k]) = s[k] + 1
      BY <1>3, <1>12, SonsAre
    <2>2. p[l] = k
      BY <1>2, <1>12, <2>1 DEF LinkedIn
    <2>3. p2[l] = p[l]
      BY <1>1, <1>10, <1>11
    <2>4. l # R
      <3>1. s[k] + 1 < k /\ k \in 0 .. R /\ s[k] \in Int /\ R \in Int
        BY <1>3, <1>12, NodesAre, SonsAre DEF LeftOf
      <3>2. QED
        BY <1>12, <3>1
    <2>5. QED
      BY <2>2, <2>3, <2>4
  <1>13. \A k \in Node : SumsUp(f2, s2, k) \/ (k = p2[l] /\ l # R)
    BY <1>7, <1>8, <1>9, <1>12
  <1>14. ASSUME l # R
         PROVE  /\ p2[l] # 0 /\ s2[p2[l]] < T
                /\ f2[p2[l]] + 1 = f2[s2[p2[l]]] + f2[s2[p2[l]] + 1]
    <2> DEFINE k == p[l]
    <2>1. k \in Node /\ l \in {s[k], Right(s[k])} /\ p2[l] = k
      BY <1>1, <1>2, <1>10, <1>11, <1>14 DEF LinkedIn
    <2> HIDE DEF k
    <2>2. s[k] < T
      <3>1. l < T
        BY <1>1, NodesAre
      <3>2. ~ (s[k] < T) => Right(s[k]) = s[k]
        BY <1>3, <2>1, SonsAre
      <3>3. QED
        BY <2>1, <3>1, <3>2
    <2>3. /\ s[k] \in Node /\ s[k] + 1 \in Node /\ s[k] \in Int /\ k \in Int
          /\ l \in {s[k], s[k] + 1} /\ s[k] + 1 < k
      <3>1. s[k] \in Links /\ LeftOf(s[k], k)
        BY <1>3, <2>1
      <3>2. /\ s[k] \in Node /\ s[k] + 1 \in Node /\ s[k] \in Int /\ k \in Int
            /\ Right(s[k]) = s[k] + 1
        BY <2>1, <2>2, <3>1, SonsAre
      <3>3. s[k] + 1 < k
        BY <2>2, <3>1 DEF LeftOf
      <3>4. QED
        BY <2>1, <3>2, <3>3
    <2>4. k # l /\ k # n /\ k # 0
      BY <1>1, <1>11, <2>3, NodesAre, SMTT(60)
    <2>5. f[k] = f[s[k]] + f[s[k] + 1] /\ s2[k] = s[k] /\ f2[k] = f[k]
      BY <1>2, <1>4, <1>5, <2>1, <2>2, <2>4 DEF SumsUp
    <2>6. f[k] \in Nat /\ f[s[k]] \in Nat /\ f[s[k] + 1] \in Nat
      BY <1>4, <2>1, <2>3
    <2>7. f2[s[k]] + f2[s[k] + 1] = f[k] + 1
      <3>1. s[k] # s[k] + 1
        BY <2>3
      <3>2. CASE l = s[k]
        <4>1. f2[s[k]] = f[s[k]] + 1 /\ f2[s[k] + 1] = f[s[k] + 1]
          BY <1>1, <1>4, <2>3, <3>1, <3>2
        <4>2. QED
          BY <2>5, <2>6, <4>1
      <3>3. CASE l = s[k] + 1
        <4>1. f2[s[k]] = f[s[k]] /\ f2[s[k] + 1] = f[s[k] + 1] + 1
          BY <1>1, <1>4, <2>3, <3>1, <3>3
        <4>2. QED
          BY <2>5, <2>6, <4>1
      <3>4. QED
        BY <2>3, <3>2, <3>3
    <2>8. QED
      BY <2>1, <2>2, <2>4, <2>5, <2>7
  <1>15. p2[R] = p[R]
    BY <1>10, <1>11
  <1>16. QED
    BY <1>13, <1>14, <1>15 DEF CountedUpTo

(* Running sums of which two summands change places, one of them u more.     *)
Shifted(k, y, n, l, a, b, u) ==
    IF k =< n THEN y ELSE IF k =< l THEN (y - a) + b ELSE y + u

(* One more summand keeps them in step.                                      *)
LEMMA ShiftedSum ==
    ASSUME NEW k \in Int, NEW n \in Int, NEW l \in Int, n =< l,
           NEW y \in Int, NEW a \in Int, NEW b \in Int, NEW u \in Int, NEW v \in Int, NEW w \in Int,
           n = l => a = b, k = n => v = a, k = l => v = b /\ w = a + u,
           k = n /\ n # l => w = b, k \notin {n, l} => w = v
    PROVE  Shifted(k + 1, y + v, n, l, a, b, u) = Shifted(k, y, n, l, a, b, u) + w
  BY DEF Shifted

(* Summands d, and d2 in which those at n and l have changed places.         *)
Exchanges(d, d2, n, l, u) ==
    /\ d \in [Node -> Int] /\ d2 \in [Node -> Int]
    /\ n \in Node /\ l \in Node /\ n =< l /\ u \in Int
    /\ d2[l] = d[n] + u
    /\ n # l => d2[n] = d[l]
    /\ \A k \in Node : k \notin {l, n} => d2[k] = d[k]

Resummed(h, d2, u) == \E h2 : Adds(d2, h2, 0, T) /\ h2[0] = h[0] /\ h2[T] = h[T] + u

(* Their sums begin alike and differ by u in the end.                        *)
LEMMA SumSwapped ==
    ASSUME NEW h, NEW d, NEW d2, NEW n, NEW l, NEW u, Adds(d, h, 0, T), Exchanges(d, d2, n, l, u)
    PROVE  Resummed(h, d2, u)
  <1>a. /\ d \in [Node -> Int] /\ d2 \in [Node -> Int]
        /\ n \in Node /\ l \in Node /\ n =< l /\ u \in Int
        /\ d2[l] = d[n] + u
        /\ n # l => d2[n] = d[l]
        /\ \A k \in Node : k \notin {l, n} => d2[k] = d[k]
    BY DEF Exchanges
  <1>0. /\ R \in Nat /\ T = R + 1 /\ n \in 0 .. R /\ l \in 0 .. R
        /\ d[n] \in Int /\ d[l] \in Int /\ n \in Int /\ l \in Int
    BY <1>a, NodesAre
  <1>1. h \in [0 .. T -> Int]
    BY DEF Adds
  <1> DEFINE h2 == [k \in 0 .. T |-> Shifted(k, h[k], n, l, d[n], d[l], u)]
  <1>2. h2 \in [0 .. T -> Int]
    BY <1>0, <1>1, <1>a, SMTT(60) DEF Shifted
  <1>3. h2[0] = h[0] /\ h2[T] = h[T] + u
    <2>1. 0 \in 0 .. T /\ T \in 0 .. T /\ 0 =< n /\ ~ (T =< n) /\ ~ (T =< l)
      BY <1>0
    <2>2. QED
      BY <2>1 DEF Shifted
  <1>4. ASSUME NEW k \in 0 .. T - 1
        PROVE  h2[k + 1] = h2[k] + d2[k]
    <2>1. k \in Node /\ k \in 0 .. T /\ k + 1 \in 0 .. T /\ k \in Int
      BY <1>0, NodesAre
    <2>2. /\ h2[k] = Shifted(k, h[k], n, l, d[n], d[l], u)
          /\ h2[k + 1] = Shifted(k + 1, h[k + 1], n, l, d[n], d[l], u)
      BY <2>1
    <2>3. h[k + 1] = h[k] + d[k]
      BY DEF Adds
    <2>4. h[k] \in Int /\ d[k] \in Int /\ d2[k] \in Int
      BY <1>1, <1>a, <2>1
    <2> HIDE DEF h2
    <2>5. Shifted(k + 1, h[k] + d[k], n, l, d[n], d[l], u)
            = Shifted(k, h[k], n, l, d[n], d[l], u) + d2[k]
      <3>1. n = l => d[n] = d[l]
        OBVIOUS
      <3>2. k = n => d[k] = d[n]
        OBVIOUS
      <3>3. k = l => d[k] = d[l] /\ d2[k] = d[n] + u
        BY <1>a
      <3>4. k = n /\ n # l => d2[k] = d[l]
        BY <1>a
      <3>5. k \notin {n, l} => d2[k] = d[k]
        BY <1>a, <2>1
      <3>6. QED
        BY <1>0, <1>a, <2>1, <2>4, <3>1, <3>2, <3>3, <3>4, <3>5, ShiftedSum, SMTT(60)
    <2>6. QED
      BY <2>2, <2>3, <2>5
  <1> HIDE DEF h2
  <1>5. Adds(d2, h2, 0, T)
    BY <1>2, <1>4 DEF Adds
  <1>6. QED
    BY <1>3, <1>5 DEF Resummed

(* The leaves together weigh one more if it was a leaf that was counted, and *)
(* are as many as before.                                                    *)
WeighsMore(f2, s2, g, u) == \E h : Weighs(f2, s2, h, 0, T) /\ h[0] = g[0] /\ h[T] = g[T] + u
AsMany(s2, m) == \E h : Leaves(s2, h, 0, T) /\ h[0] = m[0] /\ h[T] = m[T]

(* One pass of update()'s loop counts a leaf once, and only a leaf.          *)
LEMMA SwapWeights ==
    ASSUME NEW f \in [0 .. T -> Nat], NEW s \in [Node -> Links], NEW p \in [Links -> Node],
           NEW n \in Node, NEW l, NEW f2, NEW s2, NEW p2,
           Passing(f, s, p, n, l, f2, s2, p2),
           NEW g, Weighs(f, s, g, 0, T), NEW m, Leaves(s, m, 0, T)
    PROVE  WeighsMore(f2, s2, g, One(s, n)) /\ AsMany(s2, m)
  <1>0. Says(f, s, p, n, l, f2, s2, p2)
    BY SwapSays
  <1>1. /\ l \in Node /\ n =< l /\ f[l] = f[n]
        /\ FreqSays(f, n, l, f2) /\ SonSays(s, n, l, s2)
    BY <1>0 DEF Says
  <1>2. /\ f2[l] = f[n] + 1
        /\ \A k \in Node : k # l => f2[k] = f[k]
        /\ \A k \in Node : f[k] \in Nat /\ f2[k] \in Nat
    BY <1>1, NodesAre DEF FreqSays
  <1>3. /\ s2[n] = s[l] /\ s2[l] = s[n]
        /\ \A k \in Node : k \notin {l, n} => s2[k] = s[k]
    BY <1>1 DEF SonSays
  <1> DEFINE a  == [k \in Node |-> Weight(f, s, k)]
             a2 == [k \in Node |-> Weight(f2, s2, k)]
             b  == [k \in Node |-> One(s, k)]
             b2 == [k \in Node |-> One(s2, k)]
  <1>5. /\ a \in [Node -> Int] /\ a2 \in [Node -> Int]
        /\ b \in [Node -> Int] /\ b2 \in [Node -> Int] /\ One(s, n) \in Int
    BY <1>2 DEF Weight, One
  <1>6. a2[l] = a[n] + One(s, n) /\ b2[l] = b[n] + 0
    BY <1>1, <1>2, <1>3 DEF Weight, One
  <1>7. n # l => a2[n] = a[l] /\ b2[n] = b[l]
    BY <1>1, <1>2, <1>3 DEF Weight, One
  <1>8. \A k \in Node : k \notin {l, n} => a2[k] = a[k] /\ b2[k] = b[k]
    BY <1>2, <1>3 DEF Weight, One
  <1>4. /\ \A k \in 0 .. T - 1 : a[k] = Weight(f, s, k) /\ a2[k] = Weight(f2, s2, k)
        /\ \A k \in 0 .. T - 1 : b[k] = One(s, k) /\ b2[k] = One(s2, k)
    <2>1. 0 .. T - 1 = Node
      BY NodesAre
    <2>2. QED
      BY <2>1
  <1> HIDE DEF a, a2, b, b2
  <1>9. Adds(a, g, 0, T) /\ Adds(b, m, 0, T)
    BY <1>4 DEF Weighs, Leaves, Adds
  <1>10. ASSUME NEW h
         PROVE  /\ Adds(a2, h, 0, T) => Weighs(f2, s2, h, 0, T)
                /\ Adds(b2, h, 0, T) => Leaves(s2, h, 0, T)
    BY <1>4 DEF Weighs, Leaves, Adds
  <1>a. l \in Node /\ n =< l /\ n \in Node
    BY <1>1
  <1>11. \E h : Adds(a2, h, 0, T) /\ h[0] = g[0] /\ h[T] = g[T] + One(s, n)
    <2>1. n # l => a2[n] = a[l]
      BY <1>7
    <2>2. \A k \in Node : k \notin {l, n} => a2[k] = a[k]
      BY <1>8
    <2>3. a2[l] = a[n] + One(s, n)
      BY <1>6
    <2>4. Exchanges(a, a2, n, l, One(s, n))
      BY <1>a, <1>5, <2>1, <2>2, <2>3 DEF Exchanges
    <2>5. Resummed(g, a2, One(s, n))
      BY <1>9, <2>4, SumSwapped
    <2>6. QED
      BY <2>5 DEF Resummed
  <1>12. \E h : Adds(b2, h, 0, T) /\ h[0] = m[0] /\ h[T] = m[T] + 0
    <2> DEFINE u == 0
    <2>1. u \in Int /\ b2[l] = b[n] + u
      BY <1>6
    <2> HIDE DEF u
    <2>2. n # l => b2[n] = b[l]
      BY <1>7
    <2>3. \A k \in Node : k \notin {l, n} => b2[k] = b[k]
      BY <1>8
    <2>4. Exchanges(b, b2, n, l, u)
      BY <1>a, <1>5, <2>1, <2>2, <2>3 DEF Exchanges
    <2>5. Resummed(m, b2, u)
      BY <1>9, <2>4, SumSwapped
    <2>6. QED
      BY <2>5 DEF Resummed, u
  <1>13. m[T] + 0 = m[T]
    <2>1. m \in [0 .. T -> Int] /\ T \in 0 .. T
      BY NodesAre DEF Leaves
    <2>2. QED
      BY <2>1
  <1>14. QED
    BY <1>10, <1>11, <1>12, <1>13 DEF WeighsMore, AsMany

-------------------------------------------------------------------------------
(* The arrays, and what never changes in them: the sentinel, and the root's  *)
(* parent, which ends update()'s loop.                                       *)
Typed ==
    /\ tree \in [freq : [0 .. T -> Nat], son : [Node -> Links], prnt : [Links -> Node]]
    /\ tree.freq[T] = 65535 /\ tree.prnt[R] = 0
    /\ pc \in {"idle", "collect", "build", "climb"}
    /\ i \in 0 .. T /\ j \in 0 .. T /\ c \in Node
    /\ pc # "idle" => sent[2] \in Code

(* Before and after update(), and while it climbs: the root has been counted *)
(* as often as all leaves together, but for the one that is counted now.     *)
Late(s) == pc = "climb" /\ s[c] < T

Settled ==
    LET f == tree.freq
        s == tree.son
    IN  /\ Sorted(f, 0, R) /\ LinkedIn(s, tree.prnt)
        /\ \A n \in Node : f[n] >= 1
        /\ \A n \in Node : IF Late(s) /\ n = c THEN f[n] + 1 = f[s[n]] + f[s[n] + 1]
                           ELSE SumsUp(f, s, n)
        /\ f[R] =< MaxFreq /\ (pc = "climb" => f[R] < MaxFreq)
        /\ \E g : /\ Weighs(f, s, g, 0, T) /\ g[0] = 0
                  /\ g[T] = f[R] + (IF Late(s) THEN 1 ELSE 0)
        /\ \E m : Leaves(s, m, 0, T) /\ m[0] = 0 /\ m[T] = NChar

(* While reconst() collects the leaves: those in 0 .. j-1 are halved, those  *)
(* in i .. R are not, and each code is in one of these places.               *)
Live == 0 .. j - 1 \cup i .. R

Collecting ==
    LET f == tree.freq
        s == tree.son
    IN  /\ j =< i
        /\ \A k \in 0 .. j - 1 : s[k] >= T
        /\ \A k \in Live : f[k] >= 1
        /\ Sorted(f, 0, j - 1) /\ Sorted(f, i, R)
        /\ \A m \in 0 .. j - 1, n \in i .. R : 2 * f[m] =< f[n] + 1
        /\ \A x \in Code : \E k \in Live : s[k] = Leaf(x)
        /\ \A k, n \in Live : s[k] >= T /\ s[k] = s[n] => k = n
        /\ \E q, g : /\ Adds(f, q, 0, j) /\ q[0] = 0
                     /\ Weighs(f, s, g, i, T) /\ g[T] =< MaxFreq
                     /\ 2 * q[j] - j =< g[i]
        /\ \E m : Leaves(s, m, i, T) /\ m[i] = j /\ m[T] = NChar

(* While it builds the tree again: 0 .. j-1 is a forest, in order, of which  *)
(* i .. j-1 are the roots.  They weigh what the leaves weigh.                *)
Building ==
    LET f == tree.freq
        s == tree.son
    IN  /\ j >= NChar /\ i = 2 * (j - NChar)
        /\ Sorted(f, 0, j - 1)
        /\ \A k \in 0 .. j - 1 : f[k] >= 1
        /\ \A k \in 0 .. j - 1 : s[k] < T =>
              /\ s[k] + 1 < k /\ f[k] = f[s[k]] + f[s[k] + 1]
              /\ \E e \in 0 .. j - NChar - 1 : s[k] = 2 * e
        /\ \A e \in 0 .. j - NChar - 1 : \E k \in 0 .. j - 1 : s[k] = 2 * e
        /\ \A x \in Code : \E k \in 0 .. j - 1 : s[k] = Leaf(x)
        /\ \A k, n \in 0 .. j - 1 : s[k] = s[n] => k = n
        /\ \E q, g : /\ Adds(f, q, 0, j) /\ Weighs(f, s, g, 0, j) /\ g[0] = 0
                     /\ q[j] - q[i] = g[j] /\ 2 * g[j] =< MaxFreq + NChar
        /\ \E m : Leaves(s, m, 0, j) /\ m[0] = 0 /\ m[j] = NChar

Inv ==
    /\ Typed
    /\ Whole => Settled
    /\ pc = "collect" => Collecting
    /\ pc = "build" => Building

(* The sizes of the arrays, taken one by one.                                *)
LEMMA TreeTyped ==
    ASSUME Typed
    PROVE  /\ tree.freq \in [0 .. T -> Nat] /\ tree.son \in [Node -> Links]
           /\ tree.prnt \in [Links -> Node]
           /\ i \in Nat /\ j \in Nat /\ i =< T /\ j =< T /\ c \in Node
  <1>1. tree.freq \in [0 .. T -> Nat] /\ tree.son \in [Node -> Links]
    BY DEF Typed
  <1>2. tree.prnt \in [Links -> Node] /\ c \in Node
    BY DEF Typed
  <1>3. i \in 0 .. T /\ j \in 0 .. T /\ T \in Nat
    BY NodesAre DEF Typed
  <1>4. QED
    BY <1>1, <1>2, <1>3

(* A pass of update()'s loop.                                                *)
LEMMA ClimbStep ==
    ASSUME Typed, Settled, Climb
    PROVE  Typed' /\ Settled'
  <1> DEFINE f == tree.freq
             s == tree.son
             p == tree.prnt
             n == c
             l == Last(tree, c)
             f2 == tree'.freq
             s2 == tree'.son
             p2 == tree'.prnt
  <1>1. /\ f \in [0 .. T -> Nat] /\ s \in [Node -> Links] /\ p \in [Links -> Node] /\ c \in Node
        /\ c \in 0 .. R /\ R \in Nat /\ MaxFreq < 65535 /\ MaxFreq \in Nat /\ R \in Node
        /\ f[T] = 65535 /\ p[R] = 0 /\ T \in Nat /\ T = R + 1 /\ Node = 0 .. R
    <2>1. f \in [0 .. T -> Nat] /\ s \in [Node -> Links] /\ p \in [Links -> Node] /\ c \in Node
      BY TreeTyped
    <2>2. f[T] = 65535 /\ p[R] = 0
      BY DEF Typed
    <2>3. /\ R \in Nat /\ MaxFreq < 65535 /\ MaxFreq \in Nat
          /\ T \in Nat /\ T = R + 1 /\ Node = 0 .. R
      BY Sizes
    <2>4. R \in Node /\ c \in 0 .. R
      BY <2>1, <2>3
    <2>5. QED
      BY <2>1, <2>2, <2>3, <2>4, SMTT(60)
  <1>2. /\ pc = "climb" /\ tree' = Counted(tree, c) /\ c' = p2[l]
        /\ pc' = IF c' = 0 THEN "idle" ELSE "climb"
        /\ UNCHANGED <<i, j, sent>>
    BY DEF Climb
  <1>3. /\ f2 = [f EXCEPT ![n] = f[l], ![l] = f[n] + 1]
        /\ s2 = [s EXCEPT ![n] = s[l], ![l] = s[n]]
        /\ p2 = [p EXCEPT ![s[n]] = l, ![Right(s[n])] = l, ![s[l]] = n, ![Right(s[l])] = n]
        /\ tree' = [freq |-> f2, son |-> s2, prnt |-> p2]
    BY <1>2 DEF Counted
  <1>4. /\ Sorted(f, 0, R) /\ LinkedIn(s, p) /\ \A k \in Node : f[k] >= 1
        /\ \A k \in Node \ {n} : SumsUp(f, s, k)
        /\ s[n] < T => f[n] + 1 = f[s[n]] + f[s[n] + 1]
        /\ f[R] < MaxFreq
    <2>1. /\ Sorted(f, 0, R) /\ LinkedIn(s, p) /\ \A k \in Node : f[k] >= 1
          /\ f[R] < MaxFreq
      BY <1>2 DEF Settled
    <2>2. \A k \in Node : IF (pc = "climb" /\ s[n] < T) /\ k = n
                          THEN f[k] + 1 = f[s[k]] + f[s[k] + 1] ELSE SumsUp(f, s, k)
      BY DEF Settled, Late
    <2> HIDE DEF f, s
    <2>3. \A k \in Node \ {n} : SumsUp(f, s, k)
      BY <2>2
    <2>4. s[n] < T => f[n] + 1 = f[s[n]] + f[s[n] + 1]
      BY <1>1, <1>2, <2>2
    <2>5. QED
      BY <2>1, <2>3, <2>4
  <1>t. f \in [0 .. T -> Nat] /\ s \in [Node -> Links] /\ p \in [Links -> Node] /\ n \in Node
    BY TreeTyped
  <1>5. Overtaken(f, n, l)
    <2>1. n \in 0 .. R /\ R \in 0 .. R /\ n =< R /\ n \in 0 .. T /\ R \in 0 .. T
      BY <1>1
    <2>2. f[n] =< f[R]
      BY <1>4, <2>1 DEF Sorted
    <2>3. f[n] \in Nat /\ f[R] \in Nat
      BY <1>t, <2>1
    <2>4. f[n] < 65535 /\ f[T] = 65535
      <3>1. f[R] < MaxFreq /\ MaxFreq < 65535 /\ MaxFreq \in Nat /\ f[T] = 65535
        BY <1>1, <1>4
      <3>2. QED
        BY <2>2, <2>3, <3>1
    <2>5. QED
      BY <1>t, <2>4, LastIs
  <1>6. PICK g : /\ Weighs(f, s, g, 0, T) /\ g[0] = 0
                 /\ g[T] = f[R] + (IF s[n] < T THEN 1 ELSE 0)
    BY <1>2 DEF Settled, Late
  <1>7. PICK m : Leaves(s, m, 0, T) /\ m[0] = 0 /\ m[T] = NChar
    BY DEF Settled
  <1> HIDE DEF f, s, p, l, f2, s2, p2
  <1>8. Passing(f, s, p, n, l, f2, s2, p2)
    BY <1>3, <1>4, <1>5 DEF Passing, Swapped
  <1>9. Says(f, s, p, n, l, f2, s2, p2) /\ LinkedIn(s2, p2) /\ Sorted(f2, 0, R)
    BY <1>t, <1>8, SwapSays, SwapLinks, SwapSorted
  <1>a. /\ l \in Node /\ n =< l /\ f[l] = f[n]
        /\ f2 \in [0 .. T -> Nat] /\ s2 \in [Node -> Links] /\ p2 \in [Links -> Node]
        /\ \A k \in 0 .. T : f2[k] = IF k = l THEN f[n] + 1 ELSE f[k]
    BY <1>9 DEF Says, FreqSays, SonSays, PrntSays
  <1>10. CountedUpTo(f2, s2, p, l, p2)
    <2>1. s[n] < T => f[n] + 1 = f[s[n]] + f[s[n] + 1]
      BY <1>4
    <2>2. QED
      BY <1>t, <1>8, <2>1, SwapSums
  <1>b. /\ \A k \in Node \ {p2[l]} : SumsUp(f2, s2, k)
        /\ l # R => /\ p2[l] # 0 /\ s2[p2[l]] < T
                    /\ f2[p2[l]] + 1 = f2[s2[p2[l]]] + f2[s2[p2[l]] + 1]
        /\ l = R => \A k \in Node : SumsUp(f2, s2, k)
        /\ p2[R] = 0
    <2>1. p[R] = 0
      BY <1>1
    <2>2. /\ \A k \in Node \ {p2[l]} : SumsUp(f2, s2, k)
          /\ l # R => /\ p2[l] # 0 /\ s2[p2[l]] < T
                      /\ f2[p2[l]] + 1 = f2[s2[p2[l]]] + f2[s2[p2[l]] + 1]
          /\ l = R => \A k \in Node : SumsUp(f2, s2, k)
          /\ p2[R] = p[R]
      BY <1>10 DEF CountedUpTo
    <2>3. QED
      BY <2>1, <2>2
  <1>11. WeighsMore(f2, s2, g, One(s, n)) /\ AsMany(s2, m)
    BY <1>t, <1>6, <1>7, <1>8, SwapWeights
  <1>12. /\ pc' = IF l = R THEN "idle" ELSE "climb"
         /\ c' \in Node
    <2>1. l \in Links
      <3>1. l \in 0 .. R /\ NChar \in Nat /\ NChar >= 2 /\ T = R + 1 /\ R \in Nat
        BY <1>a, NodesAre, Sizes
      <3>2. QED
        BY <3>1 DEF Links
    <2>2. c' = p2[l] /\ p2[l] \in Node
      BY <1>2, <1>a, <2>1
    <2>3. QED
      BY <1>2, <1>b, <2>2
  <1>13. Typed'
    <2>1. f2[T] = 65535
      <3>1. T \in 0 .. T /\ T # l
        BY <1>1, <1>a
      <3>2. QED
        BY <1>1, <1>a, <3>1
    <2>2. tree' \in [freq : [0 .. T -> Nat], son : [Node -> Links], prnt : [Links -> Node]]
      BY <1>3, <1>a
    <2>3. sent' = sent /\ sent[2] \in Code
      BY <1>2 DEF Typed
    <2>4. i' \in 0 .. T /\ j' \in 0 .. T
      BY <1>2 DEF Typed
    <2>5. QED
      BY <1>b, <1>12, <2>1, <2>2, <2>3, <2>4 DEF Typed, f2, p2
  <1>14. f2[R] = IF l = R THEN f[R] + 1 ELSE f[R]
    <2>1. R \in 0 .. T
      BY <1>1
    <2>2. QED
      BY <1>a, <2>1
  <1>15. f[R] \in Nat /\ f[R] < MaxFreq /\ MaxFreq \in Nat
    <2>1. R \in 0 .. T
      BY <1>1
    <2>2. QED
      BY <1>1, <1>4, <2>1
  <1>16. \A k \in Node : f2[k] >= 1
    <2> TAKE k \in Node
    <2>1. k \in 0 .. T /\ f[k] >= 1 /\ f[k] \in Nat /\ f[n] >= 1 /\ f[n] \in Nat
      BY <1>4, <1>t, NodesAre
    <2>2. f2[k] = IF k = l THEN f[n] + 1 ELSE f[k]
      BY <1>a, <2>1
    <2>3. QED
      BY <2>1, <2>2
  <1>17. f2[R] =< MaxFreq /\ (pc' = "climb" => f2[R] < MaxFreq)
    BY <1>12, <1>14, <1>15
  <1>18. \E h : /\ Weighs(f2, s2, h, 0, T) /\ h[0] = 0
                /\ h[T] = f2[R] + (IF l = R THEN 0 ELSE 1)
    <2>1. PICK h : Weighs(f2, s2, h, 0, T) /\ h[0] = g[0] /\ h[T] = g[T] + One(s, n)
      BY <1>11 DEF WeighsMore
    <2>2. h[T] = f[R] + 1
      <3>1. One(s, n) = IF s[n] < T THEN 0 ELSE 1
        <4>1. s[n] \in Int /\ T \in Int
          BY <1>1, <1>t, Sizes DEF Links
        <4>2. QED
          BY <4>1 DEF One
      <3>2. QED
        BY <1>6, <1>15, <2>1, <3>1
    <2>3. f[R] + 1 = f2[R] + (IF l = R THEN 0 ELSE 1)
      BY <1>14, <1>15
    <2>4. QED
      BY <1>6, <2>1, <2>2, <2>3
  <1>19. \E h : Leaves(s2, h, 0, T) /\ h[0] = 0 /\ h[T] = NChar
    BY <1>7, <1>11 DEF AsMany
  <1>20. (pc' = "climb" /\ s2[c'] < T) = (l # R)
    BY <1>2, <1>b, <1>12
  <1>21. Settled'
    <2>1. \A k \in Node : IF l # R /\ k = c' THEN f2[k] + 1 = f2[s2[k]] + f2[s2[k] + 1]
                          ELSE SumsUp(f2, s2, k)
      BY <1>2, <1>b
    <2>2. \E h : /\ Weighs(f2, s2, h, 0, T) /\ h[0] = 0
                 /\ h[T] = f2[R] + (IF pc' = "climb" /\ s2[c'] < T THEN 1 ELSE 0)
      BY <1>18, <1>20
    <2>3. \A k \in Node : IF (pc' = "climb" /\ s2[c'] < T) /\ k = c'
                          THEN f2[k] + 1 = f2[s2[k]] + f2[s2[k] + 1] ELSE SumsUp(f2, s2, k)
      BY <1>20, <2>1
    <2>4. QED
      BY <1>9, <1>16, <1>17, <1>19, <2>2, <2>3 DEF Settled, Late, f2, s2, p2
  <1>22. QED
    BY <1>13, <1>21

(* Each code has its leaf, and prnt says where.                              *)
LEMMA LeafAt ==
    ASSUME NEW s \in [Node -> Links], NEW p \in [Links -> Node], LinkedIn(s, p), NEW y \in Code
    PROVE  /\ p[Leaf(y)] \in Node /\ s[p[Leaf(y)]] = Leaf(y)
           /\ Leaf(y) \in Links /\ ~ (Leaf(y) < T) /\ Leaf(y) >= T
  <1>1. Leaf(y) \in Links \ {R} /\ Leaf(y) >= T /\ ~ (Leaf(y) < T)
    <2>1. y \in 0 .. NChar - 1 /\ NChar \in Nat /\ R \in Nat /\ T = R + 1
      BY Sizes, NodesAre
    <2>2. QED
      BY <2>1 DEF Leaf, Links
  <1> DEFINE k == p[Leaf(y)]
  <1>2. k \in Node /\ Leaf(y) \in {s[k], Right(s[k])} /\ s[k] \in Links /\ LeftOf(s[k], k)
    BY <1>1, LinkedLeft DEF LinkedIn
  <1> HIDE DEF k
  <1>3. s[k] < T => Right(s[k]) \in Node /\ s[k] \in Node /\ Right(s[k]) < T
    BY <1>2, SonsAre, NodesAre
  <1>4. ~ (s[k] < T) => Right(s[k]) = s[k]
    BY <1>2, SonsAre
  <1>5. s[k] = Leaf(y)
    BY <1>1, <1>2, <1>3, <1>4
  <1>6. QED
    BY <1>1, <1>2, <1>5 DEF k

(* EncodeChar() starts to count the code, or to build the tree again.        *)
LEMMA EncodeStep ==
    ASSUME Typed, Settled, NEW x \in Code, EncodeChar(x)
    PROVE  /\ Typed'
           /\ \/ pc' = "climb" /\ Settled'
              \/ pc' = "collect" /\ Collecting'
  <1> DEFINE f == tree.freq
             s == tree.son
             p == tree.prnt
  <1>t. f \in [0 .. T -> Nat] /\ s \in [Node -> Links] /\ p \in [Links -> Node]
    BY TreeTyped
  <1>1. /\ R \in Nat /\ T = R + 1 /\ Node = 0 .. R /\ MaxFreq \in Nat /\ NChar \in Nat
        /\ NChar >= 2 /\ R \in 0 .. T
    BY Sizes
  <1>2. /\ pc = "idle" /\ tree' = tree /\ sent' = <<"char", x>>
        /\ \/ f[R] = MaxFreq /\ pc' = "collect" /\ i' = 0 /\ j' = 0 /\ c' = c
           \/ f[R] # MaxFreq /\ pc' = "climb" /\ c' = p[Leaf(x)] /\ i' = i /\ j' = j
    BY DEF EncodeChar
  <1>3. /\ Sorted(f, 0, R) /\ LinkedIn(s, p) /\ \A n \in Node : f[n] >= 1
        /\ \A n \in Node : SumsUp(f, s, n)
        /\ f[R] =< MaxFreq /\ f[R] \in Nat
    BY <1>t, <1>1, <1>2 DEF Settled, Late
  <1>4. PICK g : Weighs(f, s, g, 0, T) /\ g[0] = 0 /\ g[T] = f[R]
    <2>1. f[R] + 0 = f[R]
      BY <1>3
    <2>2. QED
      BY <1>2, <2>1 DEF Settled, Late
  <1>5. PICK m : Leaves(s, m, 0, T) /\ m[0] = 0 /\ m[T] = NChar
    BY DEF Settled
  <1> HIDE DEF f, s, p
  <1>6. ASSUME NEW y \in Code
        PROVE  /\ Leaf(y) \in Links /\ p[Leaf(y)] \in Node
               /\ s[p[Leaf(y)]] = Leaf(y) /\ ~ (s[p[Leaf(y)]] < T)
    BY <1>t, <1>3, LeafAt
  <1>7. Typed'
    <2>1. c' \in Node
      <3>1. p[Leaf(x)] \in Node /\ c \in Node
        BY <1>6, TreeTyped
      <3>2. c' = c \/ c' = p[Leaf(x)]
        BY <1>2
      <3>3. QED
        BY <3>1, <3>2
    <2>2. i' \in 0 .. T /\ j' \in 0 .. T
      <3>1. 0 \in 0 .. T /\ i \in 0 .. T /\ j \in 0 .. T
        BY <1>1 DEF Typed
      <3>2. (i' = 0 /\ j' = 0) \/ (i' = i /\ j' = j)
        BY <1>2
      <3>3. QED
        BY <3>1, <3>2
    <2>3. sent'[2] \in Code
      BY <1>2
    <2>4. QED
      BY <1>2, <2>1, <2>2, <2>3 DEF Typed
  <1>8. CASE f[R] # MaxFreq
    <2>1. pc' = "climb" /\ c' = p[Leaf(x)] /\ tree' = tree
      BY <1>2, <1>8
    <2>2. ~ (s[p[Leaf(x)]] < T)
      BY <1>6
    <2>3. (pc' = "climb" /\ s[c'] < T) = FALSE
      BY <2>1, <2>2
    <2>4. f[R] < MaxFreq /\ f[R] + 0 = f[R]
      BY <1>1, <1>3, <1>8
    <2>5. \E h : /\ Weighs(f, s, h, 0, T) /\ h[0] = 0
                 /\ h[T] = f[R] + (IF pc' = "climb" /\ s[c'] < T THEN 1 ELSE 0)
      BY <1>4, <2>3, <2>4
    <2>6. \A n \in Node : IF (pc' = "climb" /\ s[c'] < T) /\ n = c'
                          THEN f[n] + 1 = f[s[n]] + f[s[n] + 1] ELSE SumsUp(f, s, n)
      BY <1>3, <2>3
    <2>7. \E h : Leaves(s, h, 0, T) /\ h[0] = 0 /\ h[T] = NChar
      BY <1>5
    <2>8. Settled'
      BY <1>3, <2>1, <2>4, <2>5, <2>6, <2>7 DEF Settled, Late, f, s, p
    <2>9. QED
      BY <1>7, <2>1, <2>8
  <1>9. CASE f[R] = MaxFreq
    <2>1. pc' = "collect" /\ i' = 0 /\ j' = 0 /\ tree' = tree
      BY <1>2, <1>9
    <2>2. Live' = Node
      BY <1>1, <2>1 DEF Live
    <2>3. \A y \in Code : \E k \in Node : s[k] = Leaf(y)
      BY <1>6
    <2>4. \A k, n \in Node : s[k] >= T /\ s[k] = s[n] => k = n
      BY <1>3 DEF LinkedIn
    <2>5. Sorted(f, 0, 0 - 1) /\ Sorted(f, 0, R) /\ 0 .. 0 - 1 = {}
      BY <1>3 DEF Sorted
    <2>6. \E q, h : /\ Adds(f, q, 0, 0) /\ q[0] = 0
                    /\ Weighs(f, s, h, 0, T) /\ h[T] =< MaxFreq
                    /\ 2 * q[0] - 0 =< h[0]
      <3> DEFINE q == [k \in 0 .. T |-> 0]
      <3>1. Adds(f, q, 0, 0) /\ q[0] = 0
        BY <1>1, <2>5 DEF Adds
      <3>2. 2 * q[0] - 0 =< g[0] /\ g[T] =< MaxFreq
        BY <1>3, <1>4, <3>1
      <3> HIDE DEF q
      <3>3. QED
        BY <1>4, <3>1, <3>2
    <2>7. \E h : Leaves(s, h, 0, T) /\ h[0] = 0 /\ h[T] = NChar
      BY <1>5
    <2>8. Collecting'
      BY <1>3, <2>1, <2>2, <2>3, <2>4, <2>5, <2>6, <2>7 DEF Collecting, f, s
    <2>9. QED
      BY <1>7, <2>1, <2>8
  <1>10. QED
    BY <1>8, <1>9

-------------------------------------------------------------------------------
(* reconst().  A leaf is moved down and halved: it is still at least 1, and   *)
(* all together are at most half of what they were, and half a count each.   *)
LEMMA LeafStep ==
    ASSUME Typed, Collecting, CollectLeaf
    PROVE  Typed' /\ Collecting'
  <1> DEFINE f == tree.freq
             s == tree.son
             v == (f[i] + 1) \div 2
             f2 == tree'.freq
             s2 == tree'.son
  <1>t. f \in [0 .. T -> Nat] /\ s \in [Node -> Links]
    BY TreeTyped
  <1>1. /\ R \in Nat /\ T \in Nat /\ T = R + 1 /\ Node = 0 .. R /\ MaxFreq \in Nat
        /\ i \in Nat /\ j \in Nat /\ j =< i /\ i \in Node /\ j \in Node
        /\ i \in 0 .. R /\ j \in 0 .. R /\ s[i] >= T
    <2>1. j =< i /\ i < T /\ s[i] >= T
      BY DEF Collecting, CollectLeaf
    <2>2. i \in Nat /\ j \in Nat
      BY TreeTyped
    <2>3. R \in Nat /\ T \in Nat /\ T = R + 1 /\ Node = 0 .. R /\ MaxFreq \in Nat
      BY Sizes
    <2>4. i \in 0 .. R /\ j \in 0 .. R
      BY <2>1, <2>2, <2>3
    <2>5. QED
      BY <2>1, <2>2, <2>3, <2>4
  <1>r. /\ \A k \in i + 1 .. R : /\ k \in i .. R /\ k \in 0 .. T /\ k \in Node /\ k \in Live
                                /\ k # j /\ k # i
        /\ \A k \in 0 .. j - 1 : k \in 0 .. T /\ k \in Node /\ k \in Live /\ k # j
        /\ \A k \in 0 .. (j + 1) - 1 : k \in 0 .. j - 1 \/ k = j
        /\ i \in i .. R /\ i \in Live /\ i \in 0 .. T /\ j \in 0 .. T
    BY <1>1 DEF Live
  <1>2. /\ tree' = [tree EXCEPT !.freq[j] = v, !.son[j] = s[i]]
        /\ i' = i + 1 /\ j' = j + 1 /\ pc = "collect" /\ UNCHANGED <<pc, c, sent>>
    BY DEF CollectLeaf
  <1>3. f2 = [f EXCEPT ![j] = v] /\ s2 = [s EXCEPT ![j] = s[i]] /\ tree'.prnt = tree.prnt
    BY <1>2 DEF Typed
  <1>4. /\ j =< i
        /\ \A k \in 0 .. j - 1 : s[k] >= T
        /\ \A k \in Live : f[k] >= 1
        /\ Sorted(f, 0, j - 1) /\ Sorted(f, i, R)
        /\ \A m \in 0 .. j - 1, n \in i .. R : 2 * f[m] =< f[n] + 1
        /\ \A x \in Code : \E k \in Live : s[k] = Leaf(x)
        /\ \A k, n \in Live : s[k] >= T /\ s[k] = s[n] => k = n
    BY DEF Collecting
  <1>5. PICK q, g : /\ Adds(f, q, 0, j) /\ q[0] = 0
                    /\ Weighs(f, s, g, i, T) /\ g[T] =< MaxFreq
                    /\ 2 * q[j] - j =< g[i]
    BY DEF Collecting
  <1>6. PICK m : Leaves(s, m, i, T) /\ m[i] = j /\ m[T] = NChar
    BY DEF Collecting
  <1>7. f[i] \in Nat /\ f[i] >= 1 /\ i \in Live
    BY <1>t, <1>r, <1>4
  <1>8. v \in Nat /\ v >= 1 /\ 2 * v =< f[i] + 1
    BY <1>7
  <1> HIDE DEF f, s, f2, s2, v
  <1>9. /\ f2 \in [0 .. T -> Nat] /\ s2 \in [Node -> Links]
        /\ \A k \in 0 .. T : f2[k] = IF k = j THEN v ELSE f[k]
        /\ \A k \in Node : s2[k] = IF k = j THEN s[i] ELSE s[k]
    BY <1>t, <1>1, <1>3, <1>8
  <1>10. Typed'
    <2>1. tree' \in [freq : [0 .. T -> Nat], son : [Node -> Links], prnt : [Links -> Node]]
      <3>1. tree' = [freq |-> f2, son |-> s2, prnt |-> tree.prnt]
        <4>1. tree = [freq |-> f, son |-> s, prnt |-> tree.prnt]
          BY DEF Typed, f, s
        <4>2. tree' = [tree EXCEPT !.freq = f2, !.son = s2]
          BY <1>2, <1>3, <4>1 DEF f, s
        <4>3. QED
          BY <4>1, <4>2
      <3>2. QED
        BY <1>9, <3>1, TreeTyped
    <2>2. f2[T] = 65535
      <3>1. T \in 0 .. T /\ T # j
        BY <1>1
      <3>2. f[T] = 65535
        BY DEF Typed, f
      <3>3. QED
        BY <1>9, <3>1, <3>2
    <2>3. i' \in 0 .. T /\ j' \in 0 .. T
      BY <1>1, <1>2
    <2>4. QED
      BY <1>2, <1>3, <2>1, <2>2, <2>3, SMTT(60) DEF Typed, f2
  <1>11. /\ \A k \in 0 .. (j + 1) - 1 : s2[k] >= T
         /\ \A k \in 0 .. (j + 1) - 1 \cup i + 1 .. R : f2[k] >= 1
    BY <1>1, <1>4, <1>8, <1>9, <1>r
  <1>12. Sorted(f2, 0, (j + 1) - 1)
    <2>1. ASSUME NEW a \in 0 .. (j + 1) - 1, NEW b \in 0 .. (j + 1) - 1, a =< b
          PROVE  f2[a] =< f2[b]
      <3>1. CASE b = j
        <4>1. CASE a = j
          BY <1>8, <1>9, <1>r, <3>1, <4>1
        <4>2. CASE a # j
          <5>1. 2 * f[a] =< f[i] + 1 /\ f2[a] = f[a] /\ f2[b] = v /\ f[a] \in Nat
            BY <1>t, <1>4, <1>9, <1>r, <2>1, <3>1, <4>2
          <5>2. QED
            BY <1>7, <5>1 DEF v
        <4>3. QED
          BY <4>1, <4>2
      <3>2. CASE b # j
        <4>1. b \in 0 .. j - 1 /\ a \in 0 .. j - 1
          BY <1>1, <2>1, <3>2
        <4>2. f2[a] = f[a] /\ f2[b] = f[b]
          BY <1>9, <1>r, <4>1
        <4>3. QED
          BY <1>4, <2>1, <4>1, <4>2 DEF Sorted
      <3>3. QED
        BY <3>1, <3>2
    <2>2. QED
      BY <2>1 DEF Sorted
  <1>13. Sorted(f2, i + 1, R)
    <2>1. ASSUME NEW a \in i + 1 .. R, NEW b \in i + 1 .. R, a =< b
          PROVE  f2[a] =< f2[b]
      <3>1. f2[a] = f[a] /\ f2[b] = f[b] /\ a \in i .. R /\ b \in i .. R
        BY <1>9, <1>r
      <3>2. QED
        BY <1>4, <2>1, <3>1 DEF Sorted
    <2>2. QED
      BY <2>1 DEF Sorted
  <1>14. \A a \in 0 .. (j + 1) - 1, b \in i + 1 .. R : 2 * f2[a] =< f2[b] + 1
    <2> TAKE a \in 0 .. (j + 1) - 1, b \in i + 1 .. R
    <2>1. f2[b] = f[b] /\ f[b] \in Nat /\ f[i] =< f[b] /\ b \in i .. R
      <3>1. f2[b] = f[b] /\ f[b] \in Nat /\ b \in i .. R
        BY <1>t, <1>9, <1>r
      <3>2. i =< b
        BY <1>1
      <3>3. QED
        BY <1>4, <1>r, <3>1, <3>2 DEF Sorted
    <2>2. CASE a = j
      <3>1. f2[a] = v
        BY <1>9, <1>r, <2>2
      <3>2. QED
        BY <1>7, <1>8, <2>1, <3>1
    <2>3. CASE a # j
      <3>1. a \in 0 .. j - 1 /\ f2[a] = f[a]
        BY <1>9, <1>r, <2>3
      <3>2. QED
        BY <1>4, <2>1, <3>1
    <2>4. QED
      BY <2>2, <2>3
  <1>15. Live' = 0 .. (j + 1) - 1 \cup i + 1 .. R
    BY <1>2 DEF Live
  <1>16. \A x \in Code : \E k \in Live' : s2[k] = Leaf(x)
    <2> TAKE x \in Code
    <2>1. PICK k \in Live : s[k] = Leaf(x)
      BY <1>4
    <2>2. CASE k = i
      <3>1. j \in Live' /\ s2[j] = Leaf(x)
        BY <1>1, <1>9, <1>15, <2>1, <2>2
      <3>2. QED
        BY <3>1
    <2>3. CASE k # i
      <3>1. k \in Live' /\ k # j /\ k \in Node
        BY <1>1, <1>15, <2>1, <2>3 DEF Live
      <3>2. QED
        BY <1>9, <2>1, <3>1
    <2>4. QED
      BY <2>2, <2>3
  <1>17. \A k, n \in Live' : s2[k] >= T /\ s2[k] = s2[n] => k = n
    <2> SUFFICES ASSUME NEW k \in Live', NEW n \in Live', s2[k] >= T, s2[k] = s2[n]
                 PROVE  k = n
      OBVIOUS
    <2> DEFINE a == IF k = j THEN i ELSE k
               b == IF n = j THEN i ELSE n
    <2>0. /\ k = j \/ (k # j /\ k \in Live /\ k \in Node)
          /\ n = j \/ (n # j /\ n \in Live /\ n \in Node)
      BY <1>r, <1>15
    <2>1. a \in Live /\ b \in Live /\ s2[k] = s[a] /\ s2[n] = s[b]
      BY <1>1, <1>9, <1>r, <2>0
    <2>2. a = b
      <3> HIDE DEF a, b
      <3> QED
        BY <1>4, <2>1
    <2>3. (k # i /\ n # i) \/ i = j
      BY <1>1, <1>15
    <2>4. QED
      BY <2>0, <2>2, <2>3
  <1>18. \E r, h : /\ Adds(f2, r, 0, j + 1) /\ r[0] = 0
                   /\ Weighs(f2, s2, h, i + 1, T) /\ h[T] =< MaxFreq
                   /\ 2 * r[j + 1] - (j + 1) =< h[i + 1]
    <2> DEFINE r == [q EXCEPT ![j + 1] = q[j] + v]
    <2>1. q \in [0 .. T -> Int] /\ g \in [0 .. T -> Int] /\ j \in 0 .. T /\ j + 1 \in 0 .. T
          /\ i \in 0 .. T /\ q[j] \in Int /\ g[i] \in Int
      <3>1. q \in [0 .. T -> Int] /\ g \in [0 .. T -> Int]
        BY <1>5 DEF Adds, Weighs
      <3>2. j + 1 \in 0 .. T
        BY <1>1
      <3>3. QED
        BY <1>r, <3>1, <3>2
    <2>2. /\ r \in [0 .. T -> Int] /\ r[0] = 0 /\ r[j + 1] = q[j] + v
          /\ \A k \in 0 .. T : k # j + 1 => r[k] = q[k]
      <3>1. q[j] + v \in Int
        <4>1. q[j] \in Int /\ v \in Int
          BY <1>8, <2>1
        <4>2. QED
          BY <4>1
      <3>2. j + 1 # 0 /\ 0 \in 0 .. T
        BY <1>1
      <3>3. q[0] = 0
        BY <1>5
      <3>4. QED
        BY <2>1, <3>1, <3>2, <3>3
    <2> HIDE DEF r
    <2>3. Adds(f2, r, 0, j + 1)
      <3>1. ASSUME NEW k \in 0 .. (j + 1) - 1
            PROVE  r[k + 1] = r[k] + f2[k]
        <4>1. CASE k = j
          BY <1>1, <1>9, <2>1, <2>2, <4>1
        <4>2. CASE k # j
          <5>1. k \in 0 .. j - 1 /\ k \in 0 .. T /\ k + 1 \in 0 .. T /\ k + 1 # j + 1 /\ k # j + 1
            BY <1>1, <4>2
          <5>2. q[k + 1] = q[k] + f[k]
            BY <1>5, <5>1 DEF Adds
          <5>3. QED
            BY <1>9, <2>2, <4>2, <5>1, <5>2
        <4>3. QED
          BY <4>1, <4>2
      <3>2. QED
        BY <2>2, <3>1 DEF Adds
    <2>4. Weighs(f2, s2, g, i + 1, T)
      <3>1. ASSUME NEW k \in i + 1 .. T - 1
            PROVE  g[k + 1] = g[k] + Weight(f2, s2, k)
        <4>1. k \in i .. T - 1 /\ k \in Node /\ k \in 0 .. T /\ k # j
          BY <1>1
        <4>2. g[k + 1] = g[k] + Weight(f, s, k)
          BY <1>5, <4>1 DEF Weighs
        <4>3. Weight(f2, s2, k) = Weight(f, s, k)
          BY <1>9, <4>1 DEF Weight
        <4>4. QED
          BY <4>2, <4>3
      <3>2. QED
        BY <2>1, <3>1 DEF Weighs
    <2>5. 2 * r[j + 1] - (j + 1) =< g[i + 1]
      <3>1. i \in i .. T - 1 /\ Weight(f, s, i) = f[i]
        BY <1>1 DEF Weight
      <3>2. g[i + 1] = g[i] + f[i]
        BY <1>5, <3>1 DEF Weighs
      <3>3. QED
        <4>1. 2 * (q[j] + v) - (j + 1) =< g[i] + f[i]
          <5>1. 2 * q[j] - j =< g[i]
            BY <1>5
          <5>2. q[j] \in Int /\ g[i] \in Int /\ v \in Int /\ f[i] \in Int /\ j \in Int
            BY <1>1, <1>7, <1>8, <2>1
          <5>3. 2 * v =< f[i] + 1
            BY <1>8
          <5>4. QED
            BY <5>1, <5>2, <5>3
        <4>2. QED
          BY <2>2, <3>2, <4>1
    <2>6. QED
      BY <1>5, <2>2, <2>3, <2>4, <2>5
  <1>19. Leaves(s2, m, i + 1, T) /\ m[i + 1] = j + 1 /\ m[T] = NChar
    <2>1. ASSUME NEW k \in i + 1 .. T - 1
          PROVE  m[k + 1] = m[k] + One(s2, k)
      <3>1. k \in i .. T - 1 /\ k \in Node /\ k # j
        BY <1>1
      <3>2. m[k + 1] = m[k] + One(s, k) /\ One(s2, k) = One(s, k)
        BY <1>6, <1>9, <3>1 DEF Leaves, One
      <3>3. QED
        BY <3>2
    <2>2. i \in i .. T - 1 /\ One(s, i) = 1
      BY <1>1 DEF One
    <2>3. QED
      BY <1>6, <2>1, <2>2 DEF Leaves
  <1>20. Collecting'
    <2>1. j' =< i'
      BY <1>1, <1>2
    <2>2. \E h : Leaves(s2, h, i + 1, T) /\ h[i + 1] = j + 1 /\ h[T] = NChar
      BY <1>19
    <2>3. QED
      BY <1>2, <1>11, <1>12, <1>13, <1>14, <1>15, <1>16, <1>17, <1>18, <2>1, <2>2
         DEF Collecting, f2, s2
  <1>21. QED
    BY <1>10, <1>20

(* A node that is not a leaf is passed over.                                 *)
LEMMA NodeStep ==
    ASSUME Typed, Collecting, CollectNode
    PROVE  Typed' /\ Collecting'
  <1> DEFINE f == tree.freq
             s == tree.son
  <1>1. /\ f \in [0 .. T -> Nat] /\ s \in [Node -> Links]
        /\ R \in Nat /\ T = R + 1 /\ Node = 0 .. R /\ NChar \in Nat /\ MaxFreq \in Nat
        /\ i \in Nat /\ j \in Nat /\ j =< i /\ i < T /\ i \in Node /\ s[i] < T /\ s[i] \in Int
        /\ T \in Nat /\ Code = 0 .. NChar - 1
    <2>1. s[i] < T /\ i < T /\ j =< i
      BY DEF CollectNode, Collecting
    <2>2. i \in Node
      BY <2>1, TreeTyped, Sizes
    <2>3. s[i] \in Int
      BY <2>2, TreeTyped, Sizes DEF Links
    <2>4. /\ R \in Nat /\ T = R + 1 /\ Node = 0 .. R /\ NChar \in Nat /\ MaxFreq \in Nat
          /\ T \in Nat /\ Code = 0 .. NChar - 1
      BY Sizes
    <2>5. f \in [0 .. T -> Nat] /\ s \in [Node -> Links] /\ i \in Nat /\ j \in Nat
      BY TreeTyped
    <2>6. QED
      BY <2>1, <2>2, <2>3, <2>4, <2>5
  <1>2. i' = i + 1 /\ pc = "collect" /\ UNCHANGED <<tree, pc, j, c, sent>>
    BY DEF CollectNode
  <1>3. Live' = Live \ {i}
    <2>1. (0 .. j - 1 \cup i + 1 .. R) = (0 .. j - 1 \cup i .. R) \ {i}
      <3>1. i \in Nat /\ j \in Nat /\ j =< i /\ R \in Nat
        BY <1>1
      <3>2. QED
        BY <3>1
    <2>2. QED
      BY <1>2, <2>1 DEF Live
  <1>4. Typed'
    <2>1. i' \in 0 .. T /\ T \in Nat
      <3>1. i \in Nat /\ T \in Nat /\ i < T
        BY <1>1
      <3>2. QED
        BY <1>2, <3>1
    <2>2. QED
      BY <1>2, <2>1 DEF Typed
  <1>5. /\ Sorted(f, i + 1, R)
        /\ \A m \in 0 .. j - 1, n \in i + 1 .. R : 2 * f[m] =< f[n] + 1
    <2>1. \A k \in i + 1 .. R : k \in i .. R
      <3>1. i \in Nat /\ R \in Nat
        BY <1>1
      <3>2. QED
        BY <3>1
    <2>2. Sorted(f, i, R) /\ \A m \in 0 .. j - 1, n \in i .. R : 2 * f[m] =< f[n] + 1
      BY DEF Collecting
    <2> HIDE DEF f, s
    <2>3. QED
      BY <2>1, <2>2 DEF Sorted
  <1>6. \A x \in Code : \E k \in Live' : s[k] = Leaf(x)
    <2> TAKE x \in Code
    <2>1. PICK k \in Live : s[k] = Leaf(x)
      BY DEF Collecting
    <2>2. k # i
      BY <1>1, <2>1 DEF Leaf
    <2>3. QED
      BY <1>3, <2>1, <2>2
  <1>7. PICK q, g : /\ Adds(f, q, 0, j) /\ q[0] = 0
                    /\ Weighs(f, s, g, i, T) /\ g[T] =< MaxFreq
                    /\ 2 * q[j] - j =< g[i]
    BY DEF Collecting
  <1>8. PICK m : Leaves(s, m, i, T) /\ m[i] = j /\ m[T] = NChar
    BY DEF Collecting
  <1>9. Weighs(f, s, g, i + 1, T) /\ g[i + 1] = g[i]
    <2>1. i \in i .. T - 1 /\ Weight(f, s, i) = 0 /\ g[i] \in Int
      <3>1. i \in i .. T - 1 /\ i \in 0 .. T
        BY <1>1
      <3>2. ~ (s[i] >= T)
        BY <1>1
      <3>3. Weight(f, s, i) = 0
        BY <3>2 DEF Weight
      <3>4. Weighs(f, s, g, i, T)
        BY <1>7
      <3>5. g \in [0 .. T -> Int]
        BY <3>4 DEF Weighs
      <3>6. g[i] \in Int
        BY <3>1, <3>5
      <3>7. QED
        BY <3>1, <3>3, <3>6
    <2>2. i + 1 .. T - 1 \subseteq i .. T - 1
      BY <1>1
    <2>3. QED
      BY <1>7, <2>1, <2>2 DEF Weighs
  <1>10. Leaves(s, m, i + 1, T) /\ m[i + 1] = j
    <2>1. i \in i .. T - 1 /\ One(s, i) = 0
      BY <1>1 DEF One
    <2>2. i + 1 .. T - 1 \subseteq i .. T - 1
      BY <1>1
    <2>3. QED
      BY <1>1, <1>8, <2>1, <2>2 DEF Leaves
  <1>11. \E r, h : /\ Adds(f, r, 0, j) /\ r[0] = 0
                   /\ Weighs(f, s, h, i + 1, T) /\ h[T] =< MaxFreq
                   /\ 2 * r[j] - j =< h[i + 1]
    BY <1>7, <1>9
  <1>12. \E h : Leaves(s, h, i + 1, T) /\ h[i + 1] = j /\ h[T] = NChar
    BY <1>8, <1>10
  <1>13. Collecting'
    <2>1. j' =< i'
      BY <1>1, <1>2
    <2>2. /\ \A k \in 0 .. j - 1 : s[k] >= T
          /\ \A k \in Live' : f[k] >= 1
          /\ Sorted(f, 0, j - 1)
          /\ \A k, n \in Live' : s[k] >= T /\ s[k] = s[n] => k = n
      BY <1>3 DEF Collecting
    <2> HIDE DEF f, s
    <2>3. QED
      BY <1>2, <1>5, <1>6, <1>11, <1>12, <2>1, <2>2 DEF Collecting, f, s
  <1>14. QED
    BY <1>4, <1>13

(* When all nodes have been seen, all leaves are collected: reconst() takes  *)
(* it that they are N_CHAR.                                                  *)
LEMMA EndsStep ==
    ASSUME Typed, Collecting, CollectEnds
    PROVE  Typed' /\ Building'
  <1> DEFINE f == tree.freq
             s == tree.son
  <1>t. f \in [0 .. T -> Nat] /\ s \in [Node -> Links] /\ j \in Nat
    BY TreeTyped
  <1>1. /\ R \in Nat /\ T = R + 1 /\ Node = 0 .. R /\ NChar \in Nat /\ NChar >= 2 /\ NChar < T
        /\ MaxFreq \in Nat /\ T \in Nat
    BY Sizes
  <1>2. /\ pc = "collect" /\ i = T /\ pc' = "build" /\ i' = 0 /\ j' = NChar
        /\ UNCHANGED <<tree, c, sent>>
    BY DEF CollectEnds
  <1>3. PICK m : Leaves(s, m, i, T) /\ m[i] = j /\ m[T] = NChar
    BY DEF Collecting
  <1>4. j = NChar
    BY <1>2, <1>3
  <1>5. Live = 0 .. NChar - 1
    <2>1. T .. R = {}
      BY <1>1
    <2>2. QED
      BY <1>2, <1>4, <2>1 DEF Live
  <1>6. Typed'
    <2>1. 0 \in 0 .. T /\ NChar \in 0 .. T
      BY <1>1
    <2>2. QED
      BY <1>2, <2>1 DEF Typed
  <1>7. /\ Sorted(f, 0, NChar - 1)
        /\ \A k \in 0 .. NChar - 1 : s[k] >= T /\ f[k] >= 1
        /\ \A x \in Code : \E k \in 0 .. NChar - 1 : s[k] = Leaf(x)
        /\ \A k, n \in 0 .. NChar - 1 : s[k] = s[n] => k = n
    BY <1>4, <1>5 DEF Collecting
  <1>8. \A k \in 0 .. NChar - 1 : ~ (s[k] < T)
    <2> TAKE k \in 0 .. NChar - 1
    <2>1. k \in Node /\ s[k] \in Links /\ s[k] >= T
      BY <1>t, <1>1, <1>7
    <2>2. s[k] \in Int /\ T \in Int
      BY <1>1, <2>1 DEF Links
    <2>3. QED
      BY <2>1, <2>2
  <1>9. \E q, g : /\ Adds(f, q, 0, NChar) /\ Weighs(f, s, g, 0, NChar) /\ g[0] = 0
                  /\ q[NChar] - q[0] = g[NChar] /\ 2 * g[NChar] =< MaxFreq + NChar
    <2>1. PICK q, g : /\ Adds(f, q, 0, NChar) /\ q[0] = 0
                      /\ Weighs(f, s, g, T, T) /\ g[T] =< MaxFreq
                      /\ 2 * q[NChar] - NChar =< g[T]
      BY <1>2, <1>4 DEF Collecting
    <2>2. q[NChar] \in Int /\ g[T] \in Int
      <3>1. q \in [0 .. T -> Int] /\ g \in [0 .. T -> Int]
        BY <2>1 DEF Adds, Weighs
      <3>2. NChar \in 0 .. T /\ T \in 0 .. T
        BY <1>1
      <3>3. QED
        BY <3>1, <3>2
    <2>3. Weighs(f, s, q, 0, NChar)
      BY <1>7, <2>1 DEF Adds, Weighs, Weight
    <2>4. q[NChar] - q[0] = q[NChar] /\ 2 * q[NChar] =< MaxFreq + NChar
      <3>1. q[0] = 0 /\ g[T] =< MaxFreq /\ 2 * q[NChar] - NChar =< g[T]
        BY <2>1
      <3>2. QED
        BY <1>1, <2>2, <3>1
    <2>5. QED
      BY <2>1, <2>3, <2>4
  <1>10. \E m1 : Leaves(s, m1, 0, NChar) /\ m1[0] = 0 /\ m1[NChar] = NChar
    <2> DEFINE m1 == [k \in 0 .. T |-> k]
    <2>1. Leaves(s, m1, 0, NChar) /\ m1[0] = 0 /\ m1[NChar] = NChar
      BY <1>1, <1>7 DEF Leaves, One
    <2> HIDE DEF m1
    <2>2. QED
      BY <2>1
  <1>11. Building'
    <2>1. NChar - NChar - 1 = 0 - 1 /\ 0 = 2 * (NChar - NChar) /\ 0 .. 0 - 1 = {}
      BY <1>1
    <2>2. NChar >= NChar
      BY <1>1
    <2> HIDE DEF f, s
    <2>3. QED
      BY <1>2, <1>7, <1>8, <1>9, <1>10, <2>1, <2>2 DEF Building, f, s
  <1>12. QED
    BY <1>6, <1>11

(* There is a place for the parent, behind its sons.                         *)
LEMMA PlaceIs ==
    ASSUME Typed, Building, j < T, NEW v, v = tree.freq[i] + tree.freq[i + 1]
    PROVE  /\ Place(v) \in i + 2 .. j
           /\ Place(v) > 0 => tree.freq[Place(v) - 1] =< v
           /\ \A n \in Place(v) .. j - 1 : v < tree.freq[n]
  <1> DEFINE f == tree.freq
             S == {k \in 0 .. j : \A n \in k .. j - 1 : v < f[n]}
  <1>t. f \in [0 .. T -> Nat] /\ i \in Nat /\ j \in Nat /\ T \in Nat
    BY TreeTyped, NodesAre
  <1>1. i + 2 =< j
    <2>1. i = 2 * (j - NChar) /\ j >= NChar
      BY DEF Building
    <2>2. T = 2 * NChar - 1 /\ NChar \in Nat
      BY Sizes
    <2>3. QED
      BY <1>t, <2>1, <2>2
  <1>a. \A k \in 0 .. j - 1 : f[k] \in Nat /\ f[k] >= 1
    <2>1. \A k \in 0 .. j - 1 : k \in 0 .. T
      BY <1>t
    <2>2. \A k \in 0 .. j - 1 : f[k] >= 1
      BY DEF Building
    <2>3. QED
      BY <1>t, <2>1, <2>2
  <1>2. f[i] \in Nat /\ f[i + 1] \in Nat /\ v \in Nat /\ f[i] < v /\ f[i + 1] < v
    <2>1. i \in 0 .. j - 1 /\ i + 1 \in 0 .. j - 1
      <3>1. i \in Nat /\ j \in Nat
        BY <1>t
      <3>2. QED
        BY <1>1, <3>1
    <2>2. f[i] \in Nat /\ f[i + 1] \in Nat /\ f[i] >= 1 /\ f[i + 1] >= 1
      BY <1>a, <2>1
    <2>3. QED
      BY <2>2
  <1>3. S \in SUBSET Nat /\ j \in S
    <2>1. j \in 0 .. j /\ j .. j - 1 = {}
      BY <1>t
    <2>2. QED
      BY <2>1
  <1> HIDE DEF S
  <1>4. PICK k \in S : \A n \in S : k =< n
    BY <1>3, Smallest
  <1>5. k \in 0 .. j /\ \A n \in k .. j - 1 : v < f[n]
    BY <1>4 DEF S
  <1>6. k > 0 => f[k - 1] =< v
    <2> SUFFICES ASSUME k > 0, ~ (f[k - 1] =< v) PROVE FALSE
      OBVIOUS
    <2>1. k - 1 \in 0 .. j /\ k - 1 \in 0 .. j - 1 /\ f[k - 1] \in Nat
      BY <1>t, <1>1, <1>a, <1>5
    <2>2. v < f[k - 1]
      BY <1>2, <2>1
    <2>3. \A n \in k - 1 .. j - 1 : v < f[n]
      <3> TAKE n \in k - 1 .. j - 1
      <3>1. n = k - 1 \/ n \in k .. j - 1
        BY <1>t, <1>1, <1>a, <1>5
      <3>2. QED
        BY <1>5, <2>2, <3>1
    <2>4. k - 1 \in S
      BY <2>1, <2>3 DEF S
    <2>5. QED
      BY <1>t, <1>1, <1>a, <1>4, <1>5, <2>4
  <1> DEFINE x == Place(v)
  <1>7. x \in 0 .. j /\ (x > 0 => f[x - 1] =< v) /\ \A n \in x .. j - 1 : v < f[n]
    BY <1>5, <1>6 DEF Place
  <1> HIDE DEF x
  <1>8. x \in i + 2 .. j
    <2> SUFFICES ASSUME ~ (i + 2 =< x) PROVE FALSE
      BY <1>t, <1>1, <1>a, <1>7
    <2>1. i + 1 \in x .. j - 1
      BY <1>t, <1>1, <1>a, <1>7
    <2>2. v < f[i + 1]
      BY <1>7, <2>1
    <2>3. QED
      BY <1>2, <2>2
  <1>9. QED
    BY <1>7, <1>8 DEF x

(* Where the node at n stood before one was put in at x, among 0 .. b.       *)
Before(x, n) == IF n =< x THEN n ELSE n - 1

(* It stood where there was something, ...                                   *)
LEMMA BeforeIs ==
    ASSUME NEW b \in Nat, NEW x \in 0 .. b, NEW n \in 0 .. b
    PROVE  /\ n # x => Before(x, n) \in 0 .. b - 1 /\ Before(x, n) \in Nat /\ Before(x, n) =< n
           /\ n < x => Before(x, n) = n
           /\ x < n => Before(x, n) \in x .. b - 1 /\ Before(x, n) = n - 1
  BY DEF Before

(* ... in the same order, ...                                                *)
LEMMA BeforeOrder ==
    ASSUME NEW b \in Nat, NEW x \in 0 .. b, NEW k \in 0 .. b, NEW n \in 0 .. b, k # x, n # x
    PROVE  /\ Before(x, k) = Before(x, n) => k = n
           /\ k =< n => Before(x, k) =< Before(x, n)
  BY DEF Before

(* ... and what stood there is still somewhere (memmove).                    *)
LEMMA BeforeAll ==
    ASSUME NEW b \in Nat, NEW x \in 0 .. b, NEW m \in 0 .. b - 1
    PROVE  \E k \in 0 .. b : k # x /\ Before(x, k) = m
  <1>1. CASE m < x
    <2>1. m \in 0 .. b /\ m # x /\ Before(x, m) = m
      BY <1>1 DEF Before
    <2>2. QED
      BY <2>1
  <1>2. CASE ~ (m < x)
    <2>1. m + 1 \in 0 .. b /\ m + 1 # x /\ Before(x, m + 1) = m
      BY <1>2 DEF Before
    <2>2. QED
      BY <2>1
  <1>3. QED
    BY <1>1, <1>2

(* Running sums when a summand u is put in at x.                             *)
Inserts(d, d2, x, u, b) ==
    /\ b \in Nat /\ b < T /\ x \in 0 .. b /\ u \in Int
    /\ \A k \in 0 .. b - 1 : d[k] \in Int
    /\ d2[x] = u
    /\ \A k \in 0 .. b : k # x => d2[k] = d[Before(x, k)]

MovedUp(d2, q, r, x, u, b) ==
    Adds(d2, r, 0, b + 1) /\ (\A k \in 0 .. x : r[k] = q[k]) /\ r[b + 1] = q[b] + u

SumMoves(d2, q, x, u, b) == \E r : MovedUp(d2, q, r, x, u, b)

(* The sums up to x stay, the last one grows by u.                           *)
LEMMA SumInserted ==
    ASSUME NEW d, NEW d2, NEW q, NEW x, NEW u, NEW b,
           Adds(d, q, 0, b), Inserts(d, d2, x, u, b)
    PROVE  SumMoves(d2, q, x, u, b)
  <1>1. /\ b \in Nat /\ b < T /\ x \in 0 .. b /\ u \in Int /\ T \in Nat
        /\ \A k \in 0 .. b - 1 : d[k] \in Int
        /\ d2[x] = u
        /\ \A k \in 0 .. b : k # x => d2[k] = d[Before(x, k)]
    BY NodesAre DEF Inserts
  <1>2. q \in [0 .. T -> Int]
    BY DEF Adds
  <1> DEFINE r == [k \in 0 .. T |-> IF k =< x THEN q[k] ELSE q[k - 1] + u]
  <1>3. r \in [0 .. T -> Int]
    <2>1. ASSUME NEW k \in 0 .. T, ~ (k =< x)
          PROVE  q[k - 1] + u \in Int
      <3>1. k - 1 \in 0 .. T
        BY <1>1, <2>1
      <3>2. q[k - 1] \in Int /\ u \in Int
        BY <1>1, <1>2, <3>1
      <3>3. QED
        BY <3>2
    <2>2. \A k \in 0 .. T : q[k] \in Int
      BY <1>2
    <2>3. QED
      BY <2>1, <2>2
  <1>4. \A k \in 0 .. x : r[k] = q[k]
    <2>1. \A k \in 0 .. x : k \in 0 .. T /\ k =< x
      BY <1>1
    <2>2. QED
      BY <2>1
  <1>5. r[b + 1] = q[b] + u
    <2>1. b + 1 \in 0 .. T /\ ~ (b + 1 =< x) /\ (b + 1) - 1 = b
      BY <1>1
    <2>2. QED
      BY <2>1
  <1>6. ASSUME NEW k \in 0 .. (b + 1) - 1
        PROVE  r[k + 1] = r[k] + d2[k]
    <2>1. k \in 0 .. T /\ k + 1 \in 0 .. T /\ (k + 1) - 1 = k /\ k \in 0 .. b /\ k \in Int
      BY <1>1
    <2>2. /\ r[k] = IF k =< x THEN q[k] ELSE q[k - 1] + u
          /\ r[k + 1] = IF k + 1 =< x THEN q[k + 1] ELSE q[k] + u
      BY <2>1
    <2> HIDE DEF r
    <2>3. CASE k < x
      <3>1. k =< x /\ k + 1 =< x /\ k \in 0 .. b - 1 /\ k # x
        BY <1>1, <2>1, <2>3
      <3>2. q[k + 1] = q[k] + d[k]
        BY <3>1 DEF Adds
      <3>3. d2[k] = d[k]
        BY <1>1, <2>1, <2>3, <3>1, BeforeIs
      <3>4. QED
        BY <2>2, <3>1, <3>2, <3>3
    <2>4. CASE k = x
      <3>1. k =< x /\ ~ (k + 1 =< x)
        BY <2>1, <2>4
      <3>2. QED
        BY <1>1, <2>2, <2>4, <3>1
    <2>5. CASE x < k
      <3>1. ~ (k =< x) /\ ~ (k + 1 =< x) /\ k - 1 \in 0 .. b - 1 /\ k - 1 \in 0 .. T /\ k # x
            /\ (k - 1) + 1 = k
        BY <1>1, <2>1, <2>5
      <3>2. q[(k - 1) + 1] = q[k - 1] + d[k - 1]
        BY <3>1 DEF Adds
      <3>3. d2[k] = d[k - 1]
        BY <1>1, <2>1, <2>5, <3>1, BeforeIs
      <3>4. q[k - 1] \in Int /\ d[k - 1] \in Int /\ u \in Int
        BY <1>1, <1>2, <3>1
      <3>5. r[k + 1] = q[k] + u /\ r[k] = q[k - 1] + u /\ q[k] = q[k - 1] + d[k - 1]
        BY <2>2, <3>1, <3>2
      <3>6. QED
        BY <3>3, <3>4, <3>5
    <2>6. QED
      BY <1>1, <2>1, <2>3, <2>4, <2>5
  <1> HIDE DEF r
  <1>7. Adds(d2, r, 0, b + 1)
    BY <1>3, <1>6 DEF Adds
  <1>8. QED
    BY <1>4, <1>5, <1>7 DEF SumMoves, MovedUp

(* Two roots get a parent: the order, the sums and the leaves are kept.      *)
LEMMA BuildStep ==
    ASSUME Typed, Building, Build
    PROVE  Typed' /\ Building'
  <1> DEFINE f == tree.freq
             s == tree.son
             v == f[i] + f[i + 1]
             x == Place(v)
             f2 == tree'.freq
             s2 == tree'.son
  <1>t. f \in [0 .. T -> Nat] /\ s \in [Node -> Links]
    BY TreeTyped
  <1>1. /\ R \in Nat /\ T = R + 1 /\ Node = 0 .. R /\ NChar \in Nat /\ NChar >= 2
        /\ T = 2 * NChar - 1 /\ MaxFreq \in Nat /\ j \in Nat /\ i \in Nat /\ T \in Nat
        /\ j < T /\ j >= NChar /\ i = 2 * (j - NChar) /\ i + 2 =< j /\ i < T /\ i \in Links
    <2>1. /\ R \in Nat /\ T = R + 1 /\ Node = 0 .. R /\ NChar \in Nat /\ NChar >= 2
          /\ T = 2 * NChar - 1 /\ MaxFreq \in Nat /\ T \in Nat
      BY Sizes
    <2>2. j \in Nat /\ i \in Nat
      BY TreeTyped
    <2>3. j < T /\ j >= NChar /\ i = 2 * (j - NChar)
      BY DEF Building, Build
    <2>4. i + 2 =< j /\ i < T
      BY <2>1, <2>2, <2>3
    <2>5. i \in Links
      BY <2>1, <2>2, <2>4 DEF Links
    <2>6. QED
      BY <2>1, <2>2, <2>3, <2>4, <2>5
  <1>2. /\ x \in i + 2 .. j
        /\ x > 0 => f[x - 1] =< v
        /\ \A n \in x .. j - 1 : v < f[n]
    <2>1. j < T
      BY <1>1
    <2>2. QED
      BY <2>1, PlaceIs
  <1>3. /\ pc = "build" /\ UNCHANGED <<pc, c, sent>> /\ i' = i + 2 /\ j' = j + 1
        /\ f2 = Inserted(f, x, v) /\ s2 = Inserted(s, x, i) /\ tree'.prnt = tree.prnt
        /\ tree' = [freq |-> f2, son |-> s2, prnt |-> tree.prnt]
    <2>1. pc = "build" /\ UNCHANGED <<pc, c, sent>> /\ i' = i + 2 /\ j' = j + 1
      BY DEF Build
    <2>2. tree = [freq |-> f, son |-> s, prnt |-> tree.prnt]
      BY DEF Typed
    <2>3. tree' = [tree EXCEPT !.freq = Inserted(f, x, v), !.son = Inserted(s, x, i)]
      BY DEF Build
    <2> HIDE DEF f, s, x, v
    <2>4. tree' = [freq |-> Inserted(f, x, v), son |-> Inserted(s, x, i), prnt |-> tree.prnt]
      BY <2>2, <2>3
    <2>5. QED
      BY <2>1, <2>4
  <1>4. /\ Sorted(f, 0, j - 1)
        /\ \A k \in 0 .. j - 1 : f[k] >= 1
        /\ \A k \in 0 .. j - 1 : s[k] < T =>
              /\ s[k] + 1 < k /\ f[k] = f[s[k]] + f[s[k] + 1]
              /\ \E e \in 0 .. j - NChar - 1 : s[k] = 2 * e
        /\ \A e \in 0 .. j - NChar - 1 : \E k \in 0 .. j - 1 : s[k] = 2 * e
        /\ \A y \in Code : \E k \in 0 .. j - 1 : s[k] = Leaf(y)
        /\ \A k, n \in 0 .. j - 1 : s[k] = s[n] => k = n
    BY DEF Building
  <1>5. PICK q, g : /\ Adds(f, q, 0, j) /\ Weighs(f, s, g, 0, j) /\ g[0] = 0
                    /\ q[j] - q[i] = g[j] /\ 2 * g[j] =< MaxFreq + NChar
    BY DEF Building
  <1>6. PICK m : Leaves(s, m, 0, j) /\ m[0] = 0 /\ m[j] = NChar
    BY DEF Building
  <1> HIDE DEF f, s, v, x, f2, s2
  <1>a. /\ \A k \in 0 .. j - 1 : k \in Node /\ k \in 0 .. T /\ k \in 0 .. j
        /\ \A k \in 0 .. j : k \in Node /\ k \in 0 .. T /\ k \in Nat
        /\ i \in 0 .. j - 1 /\ i + 1 \in 0 .. j - 1
    BY <1>1
  <1>b. \A k \in 0 .. j - 1 : f[k] \in Nat /\ f[k] >= 1
    BY <1>t, <1>a, <1>4
  <1>7. v \in Nat /\ v >= 1
    <2>1. f[i] \in Nat /\ f[i + 1] \in Nat /\ f[i] >= 1
      BY <1>a, <1>b
    <2>2. QED
      BY <2>1 DEF v
  <1>8. /\ x \in 0 .. j /\ x \in Nat /\ x \in Node /\ i < x /\ i + 1 < x
        /\ \A n \in 0 .. j : n # x => Before(x, n) \in 0 .. j - 1 /\ Before(x, n) =< n
        /\ \A n \in 0 .. j : n < x => Before(x, n) = n
        /\ \A n \in 0 .. j : x < n => Before(x, n) \in x .. j - 1
        /\ \A n \in 0 .. j - 1 : \E k \in 0 .. j : k # x /\ Before(x, k) = n
    <2>1. x \in 0 .. j /\ x \in Nat /\ i < x /\ i + 1 < x /\ j \in Nat
      BY <1>1, <1>2
    <2>2. x \in Node
      BY <1>a, <2>1
    <2>3. QED
      BY <2>1, <2>2, BeforeIs, BeforeAll
  <1>9. /\ f2 \in [0 .. T -> Nat] /\ s2 \in [Node -> Links]
        /\ f2[x] = v /\ s2[x] = i
        /\ \A n \in 0 .. j : n # x => f2[n] = f[Before(x, n)] /\ s2[n] = s[Before(x, n)]
        /\ f2[T] = f[T]
    <2>1. f2 = [n \in 0 .. T |-> IF n = x THEN v ELSE IF n \in x + 1 .. j THEN f[n - 1] ELSE f[n]]
      BY <1>t, <1>3 DEF Inserted
    <2>2. s2 = [n \in Node |-> IF n = x THEN i ELSE IF n \in x + 1 .. j THEN s[n - 1] ELSE s[n]]
      BY <1>t, <1>3 DEF Inserted
    <2>3. \A n \in x + 1 .. j : n - 1 \in 0 .. T /\ n - 1 \in Node
      BY <1>1, <1>8
    <2>4. f2 \in [0 .. T -> Nat]
      BY <1>t, <1>7, <2>1, <2>3
    <2>5. s2 \in [Node -> Links]
      BY <1>t, <1>1, <2>2, <2>3
    <2>6. f2[x] = v /\ s2[x] = i
      BY <1>a, <1>8, <2>1, <2>2
    <2>7. ASSUME NEW n \in 0 .. j, n # x
          PROVE  f2[n] = f[Before(x, n)] /\ s2[n] = s[Before(x, n)]
      <3>1. Before(x, n) = IF n \in x + 1 .. j THEN n - 1 ELSE n
        BY <1>1, <1>8, <2>7 DEF Before
      <3>2. n \in 0 .. T /\ n \in Node
        BY <1>a
      <3>3. /\ f2[n] = IF n \in x + 1 .. j THEN f[n - 1] ELSE f[n]
            /\ s2[n] = IF n \in x + 1 .. j THEN s[n - 1] ELSE s[n]
        BY <2>1, <2>2, <2>7, <3>2
      <3>4. QED
        BY <3>1, <3>3
    <2>8. f2[T] = f[T]
      <3>1. T \in 0 .. T /\ T # x /\ T \notin x + 1 .. j
        BY <1>1, <1>8
      <3>2. QED
        BY <2>1, <3>1
    <2>9. QED
      BY <2>4, <2>5, <2>6, <2>7, <2>8
  <1>10. Typed'
    <2>1. tree' \in [freq : [0 .. T -> Nat], son : [Node -> Links], prnt : [Links -> Node]]
      <3>1. tree.prnt \in [Links -> Node]
        BY TreeTyped
      <3>2. QED
        BY <1>3, <1>9, <3>1
    <2>2. i' \in 0 .. T /\ j' \in 0 .. T
      BY <1>1, <1>3
    <2>3. f2[T] = 65535
      BY <1>9 DEF Typed, f
    <2>4. QED
      BY <1>3, <2>1, <2>2, <2>3 DEF Typed, f2
  <1>11. \A n \in 0 .. j - 1 : n < x => n \in 0 .. j /\ f2[n] = f[n]
    BY <1>8, <1>9, <1>a
  <1>12. Sorted(f2, 0, (j + 1) - 1)
    <2>1. ASSUME NEW a \in 0 .. j, NEW b \in 0 .. j, a =< b
          PROVE  f2[a] =< f2[b]
      <3>0. a \in Nat /\ b \in Nat /\ x \in Nat /\ f2[a] \in Nat /\ f2[b] \in Nat
        BY <1>8, <1>9, <1>a
      <3>1. CASE a = b
        BY <3>0, <3>1
      <3>2. CASE a = x /\ b # x
        <4>1. x < b
          BY <2>1, <3>0, <3>2
        <4>2. f2[b] = f[Before(x, b)] /\ v < f[Before(x, b)]
          BY <1>2, <1>8, <1>9, <3>2, <4>1
        <4>3. QED
          BY <1>7, <1>9, <3>0, <3>2, <4>2
      <3>3. CASE a # x /\ b = x
        <4>1. a < x
          BY <2>1, <3>0, <3>3
        <4>2. x - 1 \in 0 .. j - 1 /\ a \in 0 .. j - 1 /\ a =< x - 1 /\ x > 0
          BY <1>1, <1>8, <3>0, <4>1
        <4>3. f[a] =< f[x - 1] /\ f[x - 1] =< v /\ f2[a] = f[a]
          BY <1>2, <1>4, <1>11, <4>1, <4>2 DEF Sorted
        <4>4. f[a] \in Nat /\ f[x - 1] \in Nat
          BY <1>b, <4>2
        <4>5. QED
          BY <1>7, <1>9, <3>3, <4>3, <4>4
      <3>4. CASE a # x /\ b # x
        <4>1. Before(x, a) \in 0 .. j - 1 /\ Before(x, b) \in 0 .. j - 1
          BY <1>8, <3>4
        <4>2. Before(x, a) =< Before(x, b)
          BY <1>1, <1>8, <2>1, <3>4, BeforeOrder
        <4>3. QED
          BY <1>4, <1>9, <3>4, <4>1, <4>2 DEF Sorted
      <3>5. QED
        BY <3>1, <3>2, <3>3, <3>4
    <2>2. (j + 1) - 1 = j
      BY <1>1
    <2>3. QED
      BY <2>1, <2>2 DEF Sorted
  <1>13. \A k \in 0 .. j : f2[k] >= 1
    BY <1>7, <1>8, <1>9, <1>b
  <1>14. ASSUME NEW k \in 0 .. j, s2[k] < T
         PROVE  /\ s2[k] + 1 < k /\ f2[k] = f2[s2[k]] + f2[s2[k] + 1]
                /\ \E e \in 0 .. j - NChar : s2[k] = 2 * e
    <2>1. CASE k = x
      <3>1. s2[k] = i /\ i + 1 < k /\ f2[k] = v
        BY <1>8, <1>9, <2>1
      <3>2. f2[i] = f[i] /\ f2[i + 1] = f[i + 1]
        BY <1>8, <1>11, <1>a
      <3>3. j - NChar \in 0 .. j - NChar /\ i = 2 * (j - NChar)
        BY <1>1
      <3>4. QED
        BY <3>1, <3>2, <3>3 DEF v
    <2>2. CASE k # x
      <3> DEFINE o == Before(x, k)
      <3>1. o \in 0 .. j - 1 /\ o =< k /\ s2[k] = s[o] /\ f2[k] = f[o] /\ s[o] < T
        BY <1>8, <1>9, <1>14, <2>2
      <3> HIDE DEF o
      <3>2. s[o] + 1 < o /\ f[o] = f[s[o]] + f[s[o] + 1]
        BY <1>4, <3>1
      <3>3. PICK e \in 0 .. j - NChar - 1 : s[o] = 2 * e
        BY <1>4, <3>1
      <3> DEFINE y == s[o]
      <3>4. e \in 0 .. j - NChar /\ 2 * e + 1 < i /\ 2 * e \in Nat
        BY <1>1
      <3>5. 2 * e \in 0 .. j - 1 /\ 2 * e + 1 \in 0 .. j - 1 /\ 2 * e < x /\ 2 * e + 1 < x
        BY <1>1, <1>8, <3>4
      <3>6. f2[2 * e] = f[2 * e] /\ f2[2 * e + 1] = f[2 * e + 1]
        BY <1>11, <3>5
      <3>7. 2 * e + 1 < k
        <4>1. 2 * e + 1 < o /\ o \in Int /\ k \in Int /\ o =< k
          BY <3>1, <3>2, <3>3
        <4>2. QED
          BY <3>4, <4>1
      <3>8. QED
        BY <3>1, <3>2, <3>3, <3>4, <3>6, <3>7
    <2>3. QED
      BY <2>1, <2>2
  <1>15. \A e \in 0 .. j - NChar : \E k \in 0 .. j : s2[k] = 2 * e
    <2> TAKE e \in 0 .. j - NChar
    <2>1. CASE e = j - NChar
      <3>1. x \in 0 .. j /\ s2[x] = 2 * e
        BY <1>1, <1>8, <1>9, <2>1
      <3>2. QED
        BY <3>1
    <2>2. CASE e # j - NChar
      <3>1. e \in 0 .. j - NChar - 1
        BY <1>1, <2>2
      <3>2. PICK n \in 0 .. j - 1 : s[n] = 2 * e
        BY <1>4, <3>1
      <3>3. PICK k \in 0 .. j : k # x /\ Before(x, k) = n
        BY <1>8
      <3>4. QED
        BY <1>9, <3>2, <3>3
    <2>3. QED
      BY <2>1, <2>2
  <1>16. \A y \in Code : \E k \in 0 .. j : s2[k] = Leaf(y)
    <2> TAKE y \in Code
    <2>1. PICK n \in 0 .. j - 1 : s[n] = Leaf(y)
      BY <1>4
    <2>2. PICK k \in 0 .. j : k # x /\ Before(x, k) = n
      BY <1>8
    <2>3. QED
      BY <1>9, <2>1, <2>2
  <1>17. ASSUME NEW k \in 0 .. j - 1 PROVE s[k] # i
    <2> SUFFICES ASSUME s[k] = i PROVE FALSE
      OBVIOUS
    <2>1. PICK e \in 0 .. j - NChar - 1 : s[k] = 2 * e
      BY <1>1, <1>4
    <2>2. QED
      BY <1>1, <2>1
  <1>18. \A k, n \in 0 .. j : s2[k] = s2[n] => k = n
    <2> SUFFICES ASSUME NEW k \in 0 .. j, NEW n \in 0 .. j, s2[k] = s2[n]
                 PROVE  k = n
      OBVIOUS
    <2>1. CASE k = x \/ n = x
      BY <1>8, <1>9, <1>17, <2>1
    <2>2. CASE k # x /\ n # x
      <3>1. Before(x, k) \in 0 .. j - 1 /\ Before(x, n) \in 0 .. j - 1
        BY <1>8, <2>2
      <3>2. s[Before(x, k)] = s[Before(x, n)]
        BY <1>9, <2>2
      <3>3. Before(x, k) = Before(x, n)
        BY <1>4, <3>1, <3>2
      <3>4. j \in Nat /\ x \in 0 .. j
        BY <1>1, <1>8
      <3>5. QED
        BY <2>2, <3>3, <3>4, BeforeOrder
    <2>3. QED
      BY <2>1, <2>2
  <1>c. /\ j \in Nat /\ j < T /\ x \in 0 .. j
        /\ \A k \in 0 .. j - 1 : k \in Node
        /\ \A k \in 0 .. j : k \in Node
    BY <1>1, <1>8, <1>a
  <1>19. \E r, h : /\ Adds(f2, r, 0, j + 1) /\ Weighs(f2, s2, h, 0, j + 1) /\ h[0] = 0
                   /\ r[j + 1] - r[i + 2] = h[j + 1] /\ 2 * h[j + 1] =< MaxFreq + NChar
    <2> DEFINE w  == [k \in Node |-> Weight(f, s, k)]
               w2 == [k \in Node |-> Weight(f2, s2, k)]
               zero == 0
    <2>1. /\ \A k \in 0 .. j - 1 : w[k] = Weight(f, s, k) /\ w[k] \in Int
          /\ \A k \in 0 .. j : w2[k] = Weight(f2, s2, k)
      BY <1>b, <1>c DEF Weight
    <2>2. w2[x] = zero
      <3>1. ~ (i >= T)
        BY <1>1
      <3>2. QED
        BY <1>8, <1>9, <3>1 DEF Weight
    <2>3. \A k \in 0 .. j : k # x => w2[k] = w[Before(x, k)]
      BY <1>8, <1>9, <2>1 DEF Weight
    <2>4. zero \in Int
      OBVIOUS
    <2> HIDE DEF w, w2, zero
    <2>5. SumMoves(w2, g, x, zero, j)
      <3>1. Adds(w, g, 0, j)
        BY <1>5, <2>1 DEF Adds, Weighs
      <3>2. Inserts(w, w2, x, zero, j)
        BY <1>c, <2>1, <2>2, <2>3, <2>4 DEF Inserts
      <3>3. QED
        BY <3>1, <3>2, SumInserted
    <2>6. SumMoves(f2, q, x, v, j)
      <3>1. Adds(f, q, 0, j)
        BY <1>5
      <3>2. v \in Int /\ f2[x] = v /\ \A k \in 0 .. j - 1 : f[k] \in Int
        BY <1>7, <1>9, <1>b
      <3>3. \A k \in 0 .. j : k # x => f2[k] = f[Before(x, k)]
        BY <1>9
      <3>4. Inserts(f, f2, x, v, j)
        BY <1>c, <3>2, <3>3 DEF Inserts
      <3>5. QED
        BY <3>1, <3>4, SumInserted
    <2>7. PICK h : MovedUp(w2, g, h, x, zero, j)
      BY <2>5 DEF SumMoves
    <2>8. PICK r : MovedUp(f2, q, r, x, v, j)
      BY <2>6 DEF SumMoves
    <2>9. Weighs(f2, s2, h, 0, j + 1) /\ Adds(f2, r, 0, j + 1)
      <3>1. (j + 1) - 1 = j
        BY <1>c
      <3>2. Adds(w2, h, 0, j + 1) /\ Adds(f2, r, 0, j + 1)
        BY <2>7, <2>8 DEF MovedUp
      <3>3. QED
        BY <2>1, <3>1, <3>2 DEF Adds, Weighs
    <2>10. q \in [0 .. T -> Int] /\ g \in [0 .. T -> Int]
      <3>1. Adds(f, q, 0, j)
        BY <1>5
      <3>2. Weighs(f, s, g, 0, j)
        BY <1>5
      <3>3. q \in [0 .. T -> Int]
        BY <3>1 DEF Adds
      <3>4. g \in [0 .. T -> Int]
        BY <3>2 DEF Weighs
      <3>5. QED
        BY <3>3, <3>4
    <2>11. h[0] = 0 /\ h[j + 1] = g[j]
      <3>1. 0 \in 0 .. x /\ g[j] \in Int
        BY <1>8, <1>a, <1>c, <2>10, SMTT(60)
      <3>2. h[0] = g[0] /\ h[j + 1] = g[j] + zero
        BY <2>7, <3>1 DEF MovedUp
      <3>3. QED
        BY <1>5, <3>1, <3>2 DEF zero
    <2>12. r[i + 2] = (q[i] + f[i]) + f[i + 1]
      <3>1. i + 2 \in 0 .. x /\ (i + 1) + 1 = i + 2
        BY <1>1, <1>2
      <3>2. r[i + 2] = q[(i + 1) + 1]
        BY <2>8, <3>1 DEF MovedUp
      <3>3. q[(i + 1) + 1] = q[i + 1] + f[i + 1] /\ q[i + 1] = q[i] + f[i]
        BY <1>5, <1>a DEF Adds
      <3>4. QED
        BY <3>2, <3>3
    <2>13. r[j + 1] - r[i + 2] = g[j]
      <3>1. /\ q[j] \in Int /\ q[i] \in Int /\ f[i] \in Int /\ f[i + 1] \in Int /\ g[j] \in Int
        <4>1. j \in 0 .. T /\ i \in 0 .. T
          BY <1>1
        <4>2. QED
          BY <1>a, <1>b, <2>10, <4>1
      <3>2. r[j + 1] = q[j] + (f[i] + f[i + 1])
        BY <2>8 DEF MovedUp, v
      <3>3. q[j] - q[i] = g[j]
        BY <1>5
      <3>4. QED
        BY <2>12, <3>1, <3>2, <3>3
    <2>14. r[j + 1] - r[i + 2] = h[j + 1] /\ 2 * h[j + 1] =< MaxFreq + NChar
      BY <1>5, <2>11, <2>13
    <2>15. QED
      BY <2>9, <2>11, <2>14
  <1>20. \E h : Leaves(s2, h, 0, j + 1) /\ h[0] = 0 /\ h[j + 1] = NChar
    <2> DEFINE w  == [k \in Node |-> One(s, k)]
               w2 == [k \in Node |-> One(s2, k)]
               zero == 0
    <2>1. /\ \A k \in 0 .. j - 1 : w[k] = One(s, k) /\ w[k] \in Int
          /\ \A k \in 0 .. j : w2[k] = One(s2, k)
      BY <1>c DEF One
    <2>2. w2[x] = zero
      <3>1. ~ (i >= T)
        BY <1>1
      <3>2. QED
        BY <1>8, <1>9, <3>1 DEF One
    <2>3. \A k \in 0 .. j : k # x => w2[k] = w[Before(x, k)]
      BY <1>8, <1>9, <2>1 DEF One
    <2>4. zero \in Int
      OBVIOUS
    <2> HIDE DEF w, w2, zero
    <2>5. SumMoves(w2, m, x, zero, j)
      <3>1. Adds(w, m, 0, j)
        BY <1>6, <2>1 DEF Adds, Leaves
      <3>2. Inserts(w, w2, x, zero, j)
        BY <1>c, <2>1, <2>2, <2>3, <2>4 DEF Inserts
      <3>3. QED
        BY <3>1, <3>2, SumInserted
    <2>6. PICK h : MovedUp(w2, m, h, x, zero, j)
      BY <2>5 DEF SumMoves
    <2>7. Leaves(s2, h, 0, j + 1)
      <3>1. (j + 1) - 1 = j
        BY <1>c
      <3>2. Adds(w2, h, 0, j + 1)
        BY <2>6 DEF MovedUp
      <3>3. QED
        BY <2>1, <3>1, <3>2 DEF Adds, Leaves
    <2>8. h[0] = m[0] /\ h[j + 1] = m[j] + zero
      <3>1. 0 \in 0 .. x
        BY <1>8
      <3>2. QED
        BY <2>6, <3>1 DEF MovedUp
    <2>9. QED
      BY <1>1, <1>6, <2>7, <2>8 DEF zero
  <1>21. Building'
    <2>1. (j + 1) - 1 = j /\ (j + 1) - NChar - 1 = j - NChar /\ i + 2 = 2 * ((j + 1) - NChar)
          /\ j + 1 >= NChar
      BY <1>1
    <2>2. \A k \in 0 .. j : s2[k] < T =>
              /\ s2[k] + 1 < k /\ f2[k] = f2[s2[k]] + f2[s2[k] + 1]
              /\ \E e \in 0 .. j - NChar : s2[k] = 2 * e
      BY <1>14
    <2>3. QED
      BY <1>3, <1>12, <1>13, <1>15, <1>16, <1>18, <1>19, <1>20, <2>1, <2>2 DEF Building, f2, s2
  <1>22. QED
    BY <1>10, <1>21


(* The last node, R, is the parent of all: what is left of the two sums is   *)
(* its count.  Each node and each leaf has one parent in the new forest.     *)
LEMMA ConnectStep ==
    ASSUME Typed, Building, Connect
    PROVE  Typed' /\ Settled'
  <1> DEFINE f == tree.freq
             s == tree.son
             p2 == tree'.prnt
             Has(n, x) == x \in {s[n], Right(s[n])}
  <1>t. f \in [0 .. T -> Nat] /\ s \in [Node -> Links] /\ tree.prnt \in [Links -> Node]
    BY TreeTyped
  <1>1. /\ R \in Nat /\ T = R + 1 /\ Node = 0 .. R /\ NChar \in Nat /\ NChar >= 2
        /\ T = 2 * NChar - 1 /\ MaxFreq \in Nat /\ T \in Nat /\ NChar < MaxFreq
        /\ T - 1 = R /\ R = 2 * (T - NChar) /\ T - NChar - 1 = NChar - 2
        /\ R \in 0 .. R /\ R \in 0 .. T - 1 /\ 0 \in Node /\ R \in Node
    BY Sizes
  <1>2. /\ pc = "build" /\ j = T /\ pc' = "climb" /\ UNCHANGED <<i, j, sent>>
        /\ c' = p2[Leaf(sent[2])]
    BY DEF Connect
  <1>3. /\ tree = [freq |-> f, son |-> s, prnt |-> tree.prnt]
        /\ tree.prnt[R] = 0
    BY DEF Typed
  <1>4. tree' = [tree EXCEPT !.prnt = [x \in Links |-> IF x = R THEN 0 ELSE ParentOf(x)]]
    <2>1. tree' = [tree EXCEPT !.prnt =
            [x \in DOMAIN tree.prnt |-> IF x = R THEN tree.prnt[R] ELSE ParentOf(x)]]
      BY DEF Connect
    <2>2. DOMAIN tree.prnt = Links /\ tree.prnt[R] = 0
      BY <1>t, <1>3
    <2>3. QED
      BY <2>1, <2>2
  <1>5. /\ i = R /\ Sorted(f, 0, R)
        /\ \A k \in Node : f[k] >= 1
        /\ \A k \in Node : s[k] < T =>
              /\ s[k] + 1 < k /\ f[k] = f[s[k]] + f[s[k] + 1]
              /\ \E e \in 0 .. NChar - 2 : s[k] = 2 * e
        /\ \A e \in 0 .. NChar - 2 : \E k \in Node : s[k] = 2 * e
        /\ \A y \in Code : \E k \in Node : s[k] = Leaf(y)
        /\ \A k, n \in Node : s[k] = s[n] => k = n
    <2>1. i = 2 * (j - NChar) /\ 0 .. j - 1 = Node /\ j - 1 = R /\ j - NChar - 1 = NChar - 2
      <3>1. i = 2 * (j - NChar)
        BY DEF Building
      <3>2. QED
        BY <1>1, <1>2, <3>1
    <2>2. i = R
      BY <1>1, <1>2, <2>1
    <2>3. Sorted(f, 0, j - 1) /\ \A k \in 0 .. j - 1 : f[k] >= 1
      BY DEF Building
    <2>4. \A k \in 0 .. j - 1 : s[k] < T =>
              /\ s[k] + 1 < k /\ f[k] = f[s[k]] + f[s[k] + 1]
              /\ \E e \in 0 .. j - NChar - 1 : s[k] = 2 * e
      BY DEF Building
    <2>5. /\ \A e \in 0 .. j - NChar - 1 : \E k \in 0 .. j - 1 : s[k] = 2 * e
          /\ \A y \in Code : \E k \in 0 .. j - 1 : s[k] = Leaf(y)
          /\ \A k, n \in 0 .. j - 1 : s[k] = s[n] => k = n
      BY DEF Building
    <2> HIDE DEF f, s
    <2>6. QED
      BY <2>1, <2>2, <2>3, <2>4, <2>5
  <1>6. PICK q, g : /\ Adds(f, q, 0, T) /\ Weighs(f, s, g, 0, T) /\ g[0] = 0
                    /\ q[T] - q[R] = g[T] /\ 2 * g[T] =< MaxFreq + NChar
    <2>1. i = R /\ j = T
      BY <1>2, <1>5
    <2>2. QED
      BY <2>1 DEF Building
  <1>7. PICK m : Leaves(s, m, 0, T) /\ m[0] = 0 /\ m[T] = NChar
    BY <1>2 DEF Building
  <1> HIDE DEF f, s, p2
  <1>8. /\ tree' = [freq |-> f, son |-> s, prnt |-> p2] /\ tree'.freq = f /\ tree'.son = s
        /\ p2 = [x \in Links |-> IF x = R THEN 0 ELSE ParentOf(x)]
    <2> DEFINE new == [x \in Links |-> IF x = R THEN 0 ELSE ParentOf(x)]
    <2>1. tree' = [tree EXCEPT !.prnt = new]
      BY <1>4
    <2> HIDE DEF new
    <2>2. tree' = [freq |-> f, son |-> s, prnt |-> new]
      BY <1>3, <2>1
    <2>3. p2 = new
      BY <2>2 DEF p2
    <2>4. QED
      BY <2>2, <2>3 DEF new
  <1>9. ASSUME NEW n \in Node
        PROVE  /\ s[n] \in Int /\ s[n] \in Links
               /\ s[n] < T => /\ Right(s[n]) = s[n] + 1 /\ s[n] + 1 < n /\ s[n] + 1 < T
                              /\ \E e \in 0 .. NChar - 2 : s[n] = 2 * e
               /\ ~ (s[n] < T) => Right(s[n]) = s[n]
    <2>1. s[n] \in Int /\ s[n] \in Links
      <3>1. s[n] \in Links
        BY <1>t
      <3>2. \A y \in Links : y \in Int
        BY <1>1 DEF Links
      <3>3. QED
        BY <3>1, <3>2
    <2>2. n \in Int /\ n < T
      BY <1>1
    <2>3. s[n] < T => s[n] + 1 < n /\ \E e \in 0 .. NChar - 2 : s[n] = 2 * e
      BY <1>5
    <2>4. QED
      BY <1>1, <2>1, <2>2, <2>3 DEF Right
  <1>10. ASSUME NEW x \in Links \ {R}
         PROVE  \E n \in Node : Has(n, x)
    <2>1. CASE x < T
      <3> DEFINE e == x \div 2
      <3>1. e \in 0 .. NChar - 2 /\ x \in {2 * e, 2 * e + 1} /\ 2 * e < T
        BY <1>1, <2>1 DEF Links
      <3> HIDE DEF e
      <3>2. PICK n \in Node : s[n] = 2 * e
        BY <1>5, <3>1
      <3>3. Has(n, x)
        BY <1>9, <3>1, <3>2
      <3>4. QED
        BY <3>3
    <2>2. CASE ~ (x < T)
      <3> DEFINE y == x - T
      <3>1. y \in Code /\ x = Leaf(y)
        BY <1>1, <2>2, Sizes DEF Links, Leaf
      <3> HIDE DEF y
      <3>2. PICK n \in Node : s[n] = Leaf(y)
        BY <1>5, <3>1
      <3>3. QED
        BY <3>1, <3>2
    <2>3. QED
      BY <2>1, <2>2
  <1>11. ASSUME NEW n \in Node, NEW k \in Node, NEW x, Has(n, x), Has(k, x)
         PROVE  n = k
    <2>1. CASE s[n] < T /\ s[k] < T
      <3>1. PICK d \in 0 .. NChar - 2 : s[n] = 2 * d
        BY <1>9, <2>1
      <3>2. PICK e \in 0 .. NChar - 2 : s[k] = 2 * e
        BY <1>9, <2>1
      <3>3. x \in {2 * d, 2 * d + 1} /\ x \in {2 * e, 2 * e + 1}
        BY <1>9, <1>11, <2>1, <3>1, <3>2
      <3>4. d = e
        BY <1>1, <3>3
      <3>5. QED
        BY <1>5, <3>1, <3>2, <3>4
    <2>2. CASE ~ (s[n] < T) /\ ~ (s[k] < T)
      BY <1>5, <1>9, <1>11, <2>2
    <2>3. CASE s[n] < T /\ ~ (s[k] < T)
      BY <1>1, <1>9, <1>11, <2>3
    <2>4. CASE ~ (s[n] < T) /\ s[k] < T
      BY <1>1, <1>9, <1>11, <2>4
    <2>5. QED
      BY <2>1, <2>2, <2>3, <2>4
  <1>12. ASSUME NEW x \in Links \ {R}
         PROVE  p2[x] \in Node /\ Has(p2[x], x)
    <2>1. p2[x] = CHOOSE n \in Node : Has(n, x)
      <3>1. p2[x] = ParentOf(x)
        BY <1>8
      <3>2. QED
        BY <3>1 DEF ParentOf, s
    <2> HIDE DEF Has
    <2>2. QED
      BY <1>10, <2>1
  <1>13. p2 \in [Links -> Node] /\ p2[R] = 0
    <2>1. R \in Links
      BY <1>1 DEF Links
    <2>2. p2[R] = 0
      BY <1>8, <2>1
    <2>3. \A x \in Links : p2[x] \in Node
      BY <1>1, <1>12, <2>2
    <2>4. QED
      BY <1>8, <2>2, <2>3
  <1>14. LinkedIn(s, p2)
    <2>1. ASSUME NEW n \in Node
          PROVE  p2[s[n]] = n /\ p2[Right(s[n])] = n /\ (s[n] < T => s[n] + 1 < n)
      <3>1. s[n] \in Links \ {R} /\ Right(s[n]) \in Links \ {R}
        <4>1. CASE s[n] < T
          <5>1. s[n] \in Int /\ s[n] \in Links /\ Right(s[n]) = s[n] + 1 /\ s[n] + 1 < n /\ n =< R
            BY <1>1, <1>9, <4>1
          <5>2. s[n] # R /\ s[n] + 1 # R /\ n \in Int
            BY <1>1, <5>1
          <5>3. s[n] + 1 \in Links
            BY <1>1, <5>1, <5>2 DEF Links
          <5>4. QED
            BY <5>1, <5>2, <5>3
        <4>2. CASE ~ (s[n] < T)
          <5>1. s[n] \in Int /\ s[n] \in Links /\ Right(s[n]) = s[n]
            BY <1>9, <4>2
          <5>2. s[n] # R
            BY <1>1, <4>2, <5>1
          <5>3. QED
            BY <5>1, <5>2
        <4>3. QED
          BY <4>1, <4>2
      <3>2. Has(n, s[n]) /\ Has(n, Right(s[n]))
        OBVIOUS
      <3>3. p2[s[n]] = n /\ p2[Right(s[n])] = n
        BY <1>11, <1>12, <3>1, <3>2
      <3>4. QED
        BY <1>9, <3>3
    <2>2. \A x \in Links \ {R} : x \in {s[p2[x]], Right(s[p2[x]])}
      BY <1>12
    <2>3. QED
      BY <2>1, <2>2 DEF LinkedIn
  <1>15. sent[2] \in Code
    BY <1>2 DEF Typed
  <1>16. c' \in Node /\ ~ (s[c'] < T)
    BY <1>t, <1>2, <1>13, <1>14, <1>15, LeafAt
  <1>17. Typed'
    <2>1. tree' \in [freq : [0 .. T -> Nat], son : [Node -> Links], prnt : [Links -> Node]]
      BY <1>t, <1>8, <1>13
    <2>2. f[T] = 65535
      BY DEF Typed, f
    <2>3. i' \in 0 .. T /\ j' \in 0 .. T
      BY <1>2 DEF Typed
    <2>4. tree'.freq[T] = 65535 /\ tree'.prnt[R] = 0
      BY <1>8, <1>13, <2>2 DEF p2
    <2>5. pc' = "climb" /\ sent'[2] \in Code /\ c' \in Node
      BY <1>2, <1>15, <1>16
    <2>6. QED
      BY <2>1, <2>3, <2>4, <2>5 DEF Typed
  <1>18. f[R] \in Nat /\ f[R] = g[T] /\ f[R] < MaxFreq /\ f[R] =< MaxFreq
    <2>1. f[R] \in Nat
      <3>1. R \in 0 .. T
        BY <1>1
      <3>2. QED
        BY <1>t, <3>1
    <2>2. q[R + 1] = q[R] + f[R]
      BY <1>1, <1>6 DEF Adds
    <2>3. q[R] \in Int
      <3>1. R \in 0 .. T
        BY <1>1
      <3>2. QED
        BY <1>6, <3>1 DEF Adds
    <2>4. f[R] = g[T]
      <3>1. q[T] = q[R] + f[R]
        BY <1>1, <2>2
      <3>2. QED
        BY <1>6, <2>1, <2>3, <3>1
    <2>5. 2 * f[R] =< MaxFreq + NChar
      BY <1>6, <2>4
    <2>6. QED
      BY <1>1, <2>1, <2>4, <2>5
  <1>19. Settled'
    <2>1. (pc' = "climb" /\ s[c'] < T) = FALSE
      BY <1>16
    <2>2. \A n \in Node : IF (pc' = "climb" /\ s[c'] < T) /\ n = c'
                          THEN f[n] + 1 = f[s[n]] + f[s[n] + 1] ELSE SumsUp(f, s, n)
      BY <1>5, <2>1 DEF SumsUp
    <2>3. \E h : /\ Weighs(f, s, h, 0, T) /\ h[0] = 0
                 /\ h[T] = f[R] + (IF pc' = "climb" /\ s[c'] < T THEN 1 ELSE 0)
      <3>1. f[R] + 0 = f[R]
        BY <1>18
      <3>2. QED
        BY <1>6, <1>18, <2>1, <3>1
    <2>4. \E h : Leaves(s, h, 0, T) /\ h[0] = 0 /\ h[T] = NChar
      BY <1>7
    <2>5. QED
      BY <1>5, <1>8, <1>14, <1>18, <2>2, <2>3, <2>4 DEF Settled, Late, p2
  <1>20. QED
    BY <1>17, <1>19

(* EncodePosition() writes bits and leaves the tree alone.                   *)
LEMMA PositionStep ==
    ASSUME Typed, Settled, NEW p \in Positions, EncodePosition(p)
    PROVE  Typed' /\ Settled'
  <1>1. pc = "idle" /\ UNCHANGED <<tree, pc, i, j, c>>
    BY DEF EncodePosition
  <1>2. Typed'
    BY <1>1 DEF Typed
  <1>3. Settled'
    BY <1>1 DEF Settled, Late
  <1>4. QED
    BY <1>2, <1>3

-------------------------------------------------------------------------------
(* StartHuff().  The counts of its loop are sums of earlier ones.            *)
Count(h, n) == IF n = T THEN 65535 ELSE IF n < NChar THEN 1
               ELSE h[2 * (n - NChar)] + h[2 * (n - NChar) + 1]

CountsTo(h, b) == \A n \in 0 .. T : n < b => h[n] = Count(h, n)

(* The sons of a node are made before it.                                    *)
LEMMA SonsBefore ==
    ASSUME NEW n \in 0 .. T, n >= NChar, n # T
    PROVE  /\ 2 * (n - NChar) \in 0 .. n - 1 /\ 2 * (n - NChar) + 1 \in 0 .. n - 1
           /\ 2 * (n - NChar) \in 0 .. T /\ 2 * (n - NChar) + 1 \in 0 .. T
  BY Sizes

(* A count does not depend on later ones.                                    *)
LEMMA CountSame ==
    ASSUME NEW h, NEW h2, NEW n \in 0 .. T, NEW b \in Nat, n =< b,
           \A k \in 0 .. T : k < b => h2[k] = h[k]
    PROVE  Count(h2, n) = Count(h, n)
  <1>1. CASE n = T \/ n < NChar
    BY <1>1 DEF Count
  <1>2. CASE n # T /\ ~ (n < NChar)
    <2>1. n >= NChar
      BY <1>2, Sizes
    <2> DEFINE a == 2 * (n - NChar)
    <2>2. a \in 0 .. n - 1 /\ a + 1 \in 0 .. n - 1 /\ a \in 0 .. T /\ a + 1 \in 0 .. T
      BY <1>2, <2>1, SonsBefore
    <2>3. a < b /\ a + 1 < b
      BY <2>2, Sizes
    <2>4. h2[a] = h[a] /\ h2[a + 1] = h[a + 1]
      BY <2>2, <2>3
    <2>5. QED
      BY <1>2, <2>4 DEF Count
  <1>3. QED
    BY <1>1, <1>2

(* A count is at least 1.                                                    *)
LEMMA CountIs ==
    ASSUME NEW h \in [0 .. T -> Nat \ {0}], NEW n \in 0 .. T
    PROVE  Count(h, n) \in Nat \ {0}
  <1>1. CASE n = T \/ n < NChar
    BY <1>1 DEF Count
  <1>2. CASE n # T /\ ~ (n < NChar)
    <2>1. n >= NChar
      BY <1>2, Sizes
    <2>2. 2 * (n - NChar) \in 0 .. T /\ 2 * (n - NChar) + 1 \in 0 .. T
      BY <1>2, <2>1, SonsBefore
    <2>3. h[2 * (n - NChar)] \in Nat \ {0} /\ h[2 * (n - NChar) + 1] \in Nat \ {0}
      BY <2>2
    <2>4. QED
      BY <1>2, <2>3 DEF Count
  <1>3. QED
    BY <1>1, <1>2

(* The loop can be run to its end: a last b it does not reach is refuted.    *)
LEMMA CountsExist == \E h \in [0 .. T -> Nat \ {0}] : CountsTo(h, T + 1)
  <1> DEFINE S == {b \in 0 .. T + 1 : ~ \E h \in [0 .. T -> Nat \ {0}] : CountsTo(h, b)}
  <1>0. T \in Nat /\ T + 1 \in 0 .. T + 1
    BY Sizes
  <1>1. S = {}
    <2> SUFFICES ASSUME S # {} PROVE FALSE
      OBVIOUS
    <2>1. S \in SUBSET Nat
      BY <1>0
    <2>2. PICK b \in S : \A k \in S : b =< k
      <3> HIDE DEF S
      <3> QED
        BY <2>1, Smallest
    <2>3. b \in 0 .. T + 1 /\ ~ \E h \in [0 .. T -> Nat \ {0}] : CountsTo(h, b)
      BY <2>2
    <2>4. CASE b = 0
      <3> DEFINE h == [n \in 0 .. T |-> 1]
      <3>1. h \in [0 .. T -> Nat \ {0}]
        OBVIOUS
      <3>2. \A n \in 0 .. T : ~ (n < b)
        BY <1>0, <2>4
      <3>3. CountsTo(h, b)
        BY <3>2 DEF CountsTo
      <3>4. QED
        BY <2>3, <3>1, <3>3
    <2>5. CASE b # 0
      <3> DEFINE a == b - 1
      <3>1. a \in 0 .. T /\ a \in Nat /\ a \in 0 .. T + 1 /\ ~ (b =< a) /\ b = a + 1
        BY <1>0, <2>3, <2>5
      <3> HIDE DEF a
      <3>2. a \notin S
        <4> HIDE DEF S
        <4> QED
          BY <2>2, <3>1
      <3>3. PICK h \in [0 .. T -> Nat \ {0}] : CountsTo(h, a)
        BY <3>1, <3>2
      <3>4. Count(h, a) \in Nat \ {0}
        BY <3>1, CountIs
      <3> DEFINE h2 == [h EXCEPT ![a] = Count(h, a)]
      <3>5. h2 \in [0 .. T -> Nat \ {0}]
        BY <3>4
      <3>6. h2[a] = Count(h, a) /\ \A k \in 0 .. T : k # a => h2[k] = h[k]
        BY <3>1
      <3> HIDE DEF h2
      <3>7. \A k \in 0 .. T : k < a => h2[k] = h[k]
        BY <3>1, <3>6
      <3>8. ASSUME NEW n \in 0 .. T, n < b
            PROVE  h2[n] = Count(h2, n)
        <4>1. n =< a
          BY <1>0, <3>1, <3>8
        <4>2. Count(h2, n) = Count(h, n)
          BY <3>1, <3>7, <4>1, CountSame
        <4>3. n # a => h2[n] = h[n] /\ h[n] = Count(h, n)
          <5>1. n # a => n < a
            BY <1>0, <3>1, <4>1
          <5>2. QED
            BY <3>3, <3>6, <5>1 DEF CountsTo
        <4>4. QED
          BY <3>6, <4>2, <4>3
      <3>9. CountsTo(h2, b)
        BY <3>8 DEF CountsTo
      <3>10. QED
        BY <2>3, <3>5, <3>9
    <2>6. QED
      BY <2>4, <2>5
  <1>2. T + 1 \notin S
    BY <1>1
  <1>3. QED
    BY <1>0, <1>2

(* What StartFreq is, in terms of which it is defined.                       *)
Started(h) ==
    /\ h \in [0 .. T -> Nat] /\ h[T] = 65535
    /\ \A n \in Node : h[n] >= 1
    /\ \A n \in Node : n < NChar => h[n] = 1
    /\ \A n \in Node : ~ (n < NChar) =>
           h[n] = h[2 * (n - NChar)] + h[2 * (n - NChar) + 1]

(* A function that is defined by itself is what its definition says, once    *)
(* there is one that is.                                                     *)
LEMMA StartFreqIs == Started(StartFreq)
  <1>0. T \in Nat /\ R \in Nat /\ T = R + 1 /\ Node = 0 .. R /\ NChar \in Nat
    BY Sizes
  <1>1. PICK h \in [0 .. T -> Nat \ {0}] : CountsTo(h, T + 1)
    BY CountsExist
  <1>2. \A n \in 0 .. T : h[n] = Count(h, n)
    <2>1. \A n \in 0 .. T : n < T + 1
      BY <1>0
    <2>2. QED
      BY <1>1, <2>1 DEF CountsTo
  <1>3. h = [n \in 0 .. T |-> Count(h, n)]
    BY <1>2
  <1>4. StartFreq = CHOOSE F : F = [n \in 0 .. T |-> Count(F, n)]
    BY DEF StartFreq, Count
  <1>5. StartFreq = [n \in 0 .. T |-> Count(StartFreq, n)]
    BY <1>3, <1>4
  <1> DEFINE f == StartFreq
  <1>6. \A n \in 0 .. T : f[n] = Count(f, n)
    BY <1>5
  <1>7. f = [n \in 0 .. T |-> f[n]]
    BY <1>5
  <1> HIDE DEF f
  <1> DEFINE S == {n \in 0 .. T : f[n] \notin Nat \ {0}}
  <1>8. S = {}
    <2> SUFFICES ASSUME S # {} PROVE FALSE
      OBVIOUS
    <2>1. S \in SUBSET Nat
      BY <1>0
    <2>2. PICK n \in S : \A k \in S : n =< k
      <3> HIDE DEF S
      <3> QED
        BY <2>1, Smallest
    <2>3. n \in 0 .. T /\ f[n] \notin Nat \ {0} /\ f[n] = Count(f, n)
      BY <1>6, <2>2
    <2>4. n # T /\ ~ (n < NChar)
      BY <2>3 DEF Count
    <2>5. n >= NChar
      BY <1>0, <2>3, <2>4
    <2> DEFINE a == 2 * (n - NChar)
    <2>6. a \in 0 .. n - 1 /\ a + 1 \in 0 .. n - 1 /\ a \in 0 .. T /\ a + 1 \in 0 .. T
      BY <2>3, <2>4, <2>5, SonsBefore
    <2>7. f[n] = f[a] + f[a + 1]
      BY <2>3, <2>4 DEF Count
    <2> HIDE DEF a
    <2>8. ~ (n =< a) /\ ~ (n =< a + 1)
      BY <2>3, <2>6
    <2>9. a \notin S /\ a + 1 \notin S
      <3> HIDE DEF S
      <3> QED
        BY <2>2, <2>8
    <2>10. f[a] \in Nat \ {0} /\ f[a + 1] \in Nat \ {0}
      BY <2>6, <2>9
    <2>11. QED
      BY <2>3, <2>7, <2>10
  <1>9. \A n \in 0 .. T : f[n] \in Nat \ {0}
    BY <1>8
  <1>10. f \in [0 .. T -> Nat]
    BY <1>7, <1>9
  <1>11. f[T] = 65535
    BY <1>0, <1>6 DEF Count
  <1>12. \A n \in Node : n \in 0 .. T /\ n # T
    BY <1>0
  <1>13. \A n \in Node : f[n] >= 1
    BY <1>9, <1>12
  <1>14. \A n \in Node : n < NChar => f[n] = 1
    BY <1>6, <1>12 DEF Count
  <1>15. \A n \in Node : ~ (n < NChar) => f[n] = f[2 * (n - NChar)] + f[2 * (n - NChar) + 1]
    BY <1>6, <1>12 DEF Count
  <1>16. Started(f)
    BY <1>10, <1>11, <1>13, <1>14, <1>15 DEF Started
  <1>17. QED
    BY <1>16 DEF f

(* The counts rise: each is the sum of two that are not before those the     *)
(* count before it is the sum of.                                            *)
LEMMA StartSorted ==
    ASSUME NEW h, Started(h)
    PROVE  Sorted(h, 0, R)
  <1>0. T \in Nat /\ R \in Nat /\ T = R + 1 /\ Node = 0 .. R /\ NChar \in Nat
    BY Sizes
  <1> DEFINE Falls(a, b) == a =< b /\ ~ (h[a] =< h[b])
             S == {b \in Node : \E a \in Node : Falls(a, b)}
  <1>1. /\ \A n \in Node : h[n] \in Nat /\ h[n] >= 1
        /\ \A n \in Node : n < NChar => h[n] = 1
        /\ \A n \in Node : ~ (n < NChar) =>
               h[n] = h[2 * (n - NChar)] + h[2 * (n - NChar) + 1]
    BY <1>0 DEF Started
  <1>2. S = {}
    <2> SUFFICES ASSUME S # {} PROVE FALSE
      OBVIOUS
    <2>1. S \in SUBSET Nat
      BY <1>0
    <2>2. PICK b \in S : \A k \in S : b =< k
      <3> HIDE DEF S
      <3> QED
        BY <2>1, Smallest
    <2>3. PICK a \in Node : Falls(a, b)
      BY <2>2
    <2>4. b \in Node /\ a =< b /\ ~ (h[a] =< h[b]) /\ a \in Int /\ b \in Int
      BY <1>0, <2>2, <2>3
    <2>5. ~ (a < NChar)
      BY <1>1, <2>3, <2>4
    <2>6. a >= NChar /\ b >= NChar /\ ~ (b < NChar) /\ a # T /\ b # T /\ a \in 0 .. T /\ b \in 0 .. T
      BY <1>0, <2>3, <2>4, <2>5
    <2> DEFINE d == 2 * (a - NChar)
               e == 2 * (b - NChar)
    <2>7. d \in 0 .. a - 1 /\ d + 1 \in 0 .. a - 1 /\ e \in 0 .. b - 1 /\ e + 1 \in 0 .. b - 1
      BY <2>6, SonsBefore
    <2>8. h[a] = h[d] + h[d + 1] /\ h[b] = h[e] + h[e + 1]
      BY <1>1, <2>3, <2>4, <2>5, <2>6
    <2>9. d =< e
      BY <1>0, <2>4
    <2> HIDE DEF d, e
    <2>10. /\ d \in Node /\ d + 1 \in Node /\ e \in Node /\ e + 1 \in Node
           /\ ~ (b =< e) /\ ~ (b =< e + 1) /\ d + 1 =< e + 1
      BY <1>0, <2>4, <2>7, <2>9
    <2>11. e \notin S /\ e + 1 \notin S
      <3> HIDE DEF S
      <3> QED
        BY <2>2, <2>10
    <2>12. h[d] =< h[e] /\ h[d + 1] =< h[e + 1]
      BY <2>9, <2>10, <2>11
    <2>13. /\ h[d] \in Nat /\ h[d + 1] \in Nat /\ h[e] \in Nat /\ h[e + 1] \in Nat
      BY <1>1, <2>10
    <2>14. QED
      BY <2>4, <2>8, <2>12, <2>13
  <1>3. QED
    BY <1>0, <1>2 DEF Sorted

(* There are running sums.                                                   *)
LEMMA SumsExist ==
    ASSUME NEW f, \A k \in Node : f[k] \in Int
    PROVE  \E q : Adds(f, q, 0, T) /\ q[0] = 0
  <1> DEFINE S == {b \in 0 .. T : ~ \E q : Adds(f, q, 0, b) /\ q[0] = 0}
  <1>0. T \in Nat /\ T \in 0 .. T /\ 0 \in 0 .. T /\ Node = 0 .. T - 1
    BY Sizes
  <1>1. S = {}
    <2> SUFFICES ASSUME S # {} PROVE FALSE
      OBVIOUS
    <2>1. S \in SUBSET Nat
      BY <1>0
    <2>2. PICK b \in S : \A k \in S : b =< k
      <3> HIDE DEF S
      <3> QED
        BY <2>1, Smallest
    <2>3. b \in 0 .. T /\ ~ \E q : Adds(f, q, 0, b) /\ q[0] = 0
      BY <2>2
    <2>4. CASE b = 0
      <3> DEFINE q == [k \in 0 .. T |-> 0]
      <3>1. 0 .. b - 1 = {}
        BY <2>4
      <3>2. q \in [0 .. T -> Int] /\ q[0] = 0
        BY <1>0
      <3> HIDE DEF q
      <3>3. Adds(f, q, 0, b)
        BY <3>1, <3>2 DEF Adds
      <3>4. QED
        BY <2>3, <3>2, <3>3
    <2>5. CASE b # 0
      <3> DEFINE a == b - 1
      <3>1. a \in 0 .. T /\ ~ (b =< a) /\ b = a + 1 /\ a \in Node /\ b - 1 = a /\ a \in Int
        BY <1>0, <2>3, <2>5
      <3> HIDE DEF a
      <3>2. a \notin S
        <4> HIDE DEF S
        <4> QED
          BY <2>2, <3>1
      <3>3. PICK q : Adds(f, q, 0, a) /\ q[0] = 0
        BY <3>1, <3>2
      <3>4. q \in [0 .. T -> Int]
        BY <3>3 DEF Adds
      <3>5. q[a] + f[a] \in Int
        <4>1. q[a] \in Int /\ f[a] \in Int
          BY <3>1, <3>4
        <4>2. QED
          BY <4>1
      <3> DEFINE r == [q EXCEPT ![b] = q[a] + f[a]]
      <3>6. r \in [0 .. T -> Int]
        BY <3>4, <3>5
      <3>7. r[b] = q[a] + f[a] /\ \A k \in 0 .. T : k # b => r[k] = q[k]
        BY <2>3, <3>4
      <3> HIDE DEF r
      <3>8. ASSUME NEW k \in 0 .. a
            PROVE  r[k + 1] = r[k] + f[k]
        <4>1. k \in 0 .. T /\ k # b /\ k + 1 \in 0 .. T
          BY <1>0, <2>3, <3>1
        <4>2. CASE k = a
          BY <3>1, <3>7, <4>1, <4>2
        <4>3. CASE k # a
          <5>1. k \in 0 .. a - 1 /\ k + 1 # b
            BY <1>0, <3>1, <4>3
          <5>2. q[k + 1] = q[k] + f[k]
            BY <3>3, <5>1 DEF Adds
          <5>3. QED
            BY <3>7, <4>1, <5>1, <5>2
        <4>4. QED
          BY <4>2, <4>3
      <3>9. Adds(f, r, 0, b)
        BY <3>1, <3>6, <3>8 DEF Adds
      <3>10. r[0] = 0
        BY <1>0, <2>5, <3>3, <3>7
      <3>11. QED
        BY <2>3, <3>9, <3>10
    <2>6. QED
      BY <2>4, <2>5
  <1>2. QED
    BY <1>0, <1>1

(* At any time of the loop the nodes without a parent weigh NChar together;  *)
(* in the end there is one.                                                  *)
LEMMA StartRoot ==
    ASSUME NEW h, Started(h)
    PROVE  h[R] = NChar
  <1>0. /\ T \in Nat /\ R \in Nat /\ T = R + 1 /\ Node = 0 .. R /\ NChar \in Nat /\ NChar < T
        /\ T = 2 * NChar - 1 /\ 2 * (T - NChar) = R
    BY Sizes
  <1>1. /\ \A n \in Node : h[n] \in Nat
        /\ \A n \in Node : n < NChar => h[n] = 1
        /\ \A n \in Node : ~ (n < NChar) =>
               h[n] = h[2 * (n - NChar)] + h[2 * (n - NChar) + 1]
    BY <1>0 DEF Started
  <1>2. PICK q : Adds(h, q, 0, T) /\ q[0] = 0
    <2>1. \A n \in Node : h[n] \in Int
      BY <1>1
    <2>2. QED
      BY <2>1, SumsExist
  <1>3. /\ \A k \in 0 .. T : q[k] \in Int
        /\ \A k \in Node : q[k + 1] = q[k] + h[k]
    <2>1. 0 .. T - 1 = Node
      BY <1>0
    <2>2. QED
      BY <1>2, <2>1 DEF Adds
  <1>4. \A k \in 0 .. NChar : q[k] = k
    <2> DEFINE S == {k \in 0 .. NChar : q[k] # k}
    <2> SUFFICES ASSUME S # {} PROVE FALSE
      OBVIOUS
    <2>1. S \in SUBSET Nat
      BY <1>0
    <2>2. PICK b \in S : \A k \in S : b =< k
      <3> HIDE DEF S
      <3> QED
        BY <2>1, Smallest
    <2>3. b \in 0 .. NChar /\ q[b] # b
      BY <2>2
    <2>4. b # 0
      BY <1>2, <2>3
    <2> DEFINE a == b - 1
    <2>5. a \in 0 .. NChar /\ ~ (b =< a) /\ b = a + 1 /\ a \in Node /\ a < NChar /\ a \in Int
      BY <1>0, <2>3, <2>4
    <2> HIDE DEF a
    <2>6. a \notin S
      <3> HIDE DEF S
      <3> QED
        BY <2>2, <2>5
    <2>7. q[a] = a
      BY <2>5, <2>6
    <2>8. QED
      BY <1>1, <1>3, <2>3, <2>5, <2>7
  <1> DEFINE Up(k) == 2 * (k - NChar)
             U == {k \in NChar .. T : q[k] - q[Up(k)] # NChar}
  <1>5. U = {}
    <2> SUFFICES ASSUME U # {} PROVE FALSE
      OBVIOUS
    <2>1. U \in SUBSET Nat
      BY <1>0
    <2>2. PICK b \in U : \A k \in U : b =< k
      <3> HIDE DEF U
      <3> QED
        BY <2>1, Smallest
    <2>3. b \in NChar .. T /\ q[b] - q[Up(b)] # NChar
      BY <2>2
    <2>4. b # NChar
      <3>1. NChar \in 0 .. NChar /\ Up(NChar) = 0
        BY <1>0
      <3>2. q[NChar] = NChar /\ q[0] = 0
        BY <1>2, <1>4, <3>1
      <3>3. QED
        BY <1>0, <2>3, <3>1, <3>2
    <2> DEFINE a == b - 1
    <2>5. /\ a \in NChar .. T /\ ~ (b =< a) /\ b = a + 1 /\ a \in Node /\ ~ (a < NChar)
          /\ a >= NChar /\ a # T /\ a \in 0 .. T
      BY <1>0, <2>3, <2>4
    <2> HIDE DEF a
    <2>6. a \notin U
      <3> HIDE DEF U
      <3> QED
        BY <2>2, <2>5
    <2>7. q[a] - q[Up(a)] = NChar
      BY <2>5, <2>6
    <2> DEFINE d == Up(a)
    <2>8. d \in 0 .. a - 1 /\ d + 1 \in 0 .. a - 1 /\ h[a] = h[d] + h[d + 1]
      BY <1>1, <2>5, SonsBefore
    <2>9. Up(b) = d + 2
      BY <1>0, <2>5
    <2> HIDE DEF d, Up
    <2>10. d \in Node /\ d + 1 \in Node /\ d + 2 = (d + 1) + 1 /\ a \in 0 .. T /\ d \in 0 .. T
      BY <1>0, <2>5, <2>8
    <2>11. q[b] = q[a] + h[a] /\ q[d + 1] = q[d] + h[d] /\ q[d + 2] = q[d + 1] + h[d + 1]
      BY <1>3, <2>5, <2>10
    <2>12. q[a] \in Int /\ q[d] \in Int /\ h[d] \in Int /\ h[d + 1] \in Int
      BY <1>1, <1>3, <2>10
    <2>13. q[b] - q[d + 2] = NChar
      <3>1. q[a] - q[d] = NChar
        BY <2>7 DEF d
      <3>2. q[b] = q[a] + (h[d] + h[d + 1]) /\ q[d + 2] = (q[d] + h[d]) + h[d + 1]
        BY <2>8, <2>11
      <3>3. QED
        BY <2>12, <3>1, <3>2
    <2>14. QED
      BY <2>3, <2>9, <2>13
  <1>6. T \in NChar .. T /\ Up(T) = R /\ R \in Node /\ R \in 0 .. T
    BY <1>0
  <1>7. q[T] - q[R] = NChar
    <2>1. q[T] - q[Up(T)] = NChar
      <3> HIDE DEF Up
      <3> QED
        BY <1>5, <1>6
    <2>2. QED
      BY <1>6, <2>1
  <1>8. q[T] = q[R] + h[R] /\ q[R] \in Int /\ h[R] \in Int
    BY <1>0, <1>1, <1>3, <1>6
  <1>9. QED
    BY <1>7, <1>8

(* StartHuff() is settled: no code has been seen, and each counts for one.   *)
LEMMA InitSettled ==
    ASSUME Init
    PROVE  Typed /\ Settled
  <1> DEFINE f == StartFreq
             s == [n \in Node |-> IF n < NChar THEN Leaf(n) ELSE 2 * (n - NChar)]
             p == [x \in 0 .. T + NChar - 1 |->
                     IF x >= T THEN x - T ELSE IF x = R THEN 0 ELSE NChar + x \div 2]
             g == [k \in 0 .. T |-> IF k =< NChar THEN k ELSE NChar]
  <1>1. /\ tree = [freq |-> f, son |-> s, prnt |-> p] /\ pc = "idle"
        /\ i = 0 /\ j = 0 /\ c = 0
    BY DEF Init, StartHuff, Rest
  <1>2. /\ R \in Nat /\ T = R + 1 /\ Node = 0 .. R /\ NChar \in Nat /\ NChar >= 2 /\ NChar < T
        /\ T = 2 * NChar - 1 /\ MaxFreq \in Nat /\ T \in Nat /\ NChar < MaxFreq /\ 0 \in 0 .. T
        /\ 0 \in Node /\ R \in Node
    BY Sizes
  <1>3. Started(f)
    BY StartFreqIs
  <1> HIDE DEF f
  <1>4. /\ f \in [0 .. T -> Nat] /\ f[T] = 65535
        /\ \A n \in Node : f[n] >= 1
        /\ \A n \in Node : n < NChar => f[n] = 1
        /\ \A n \in Node : ~ (n < NChar) =>
               f[n] = f[2 * (n - NChar)] + f[2 * (n - NChar) + 1]
    BY <1>3 DEF Started
  <1>5. ASSUME NEW n \in Node
        PROVE  /\ n < NChar => s[n] = T + n
               /\ ~ (n < NChar) => s[n] = 2 * (n - NChar)
    BY DEF Leaf
  <1>6. ASSUME NEW n \in Node
        PROVE  /\ s[n] \in Links
               /\ n < NChar => ~ (s[n] < T) /\ s[n] >= T
               /\ ~ (n < NChar) => s[n] < T /\ s[n] + 1 < R /\ ~ (s[n] >= T) /\ s[n] + 1 < n
                                  /\ s[n] \in Links /\ s[n] + 1 \in Links
    <2>1. n \in 0 .. R
      BY <1>2
    <2> HIDE DEF s
    <2>2. CASE n < NChar
      BY <1>2, <1>5, <2>1, <2>2 DEF Links
    <2>3. CASE ~ (n < NChar)
      BY <1>2, <1>5, <2>1, <2>3 DEF Links
    <2>4. QED
      BY <2>2, <2>3
  <1>7. ASSUME NEW x \in Links
        PROVE  /\ x >= T => p[x] = x - T
               /\ x = R => p[x] = 0
               /\ ~ (x >= T) /\ x # R => p[x] = NChar + x \div 2
    <2>1. p[x] = IF x >= T THEN x - T ELSE IF x = R THEN 0 ELSE NChar + x \div 2
      BY DEF Links
    <2>2. x = R => ~ (x >= T)
      BY <1>2
    <2> HIDE DEF p
    <2>3. QED
      BY <2>1, <2>2
  <1>8. s \in [Node -> Links]
    BY <1>6
  <1>9. DOMAIN p = Links /\ p = [x \in Links |-> p[x]]
    BY DEF Links
  <1> HIDE DEF s, p
  <1>10. ASSUME NEW x \in Links
         PROVE  p[x] \in Node
    <2>1. x \in Int /\ 0 =< x /\ x =< T + NChar - 1
      BY <1>2 DEF Links
    <2>2. CASE x >= T
      BY <1>2, <1>7, <2>1, <2>2
    <2>3. CASE x = R
      BY <1>2, <1>7, <2>3
    <2>4. CASE ~ (x >= T) /\ x # R
      <3>1. NChar + x \div 2 \in 0 .. R
        BY <1>2, <2>1, <2>4
      <3>2. QED
        BY <1>2, <1>7, <2>4, <3>1
    <2>5. QED
      BY <2>2, <2>3, <2>4
  <1>11. p \in [Links -> Node]
    BY <1>9, <1>10
  <1>12. R \in Links /\ p[R] = 0
    <2>1. R \in Links
      BY <1>2 DEF Links
    <2>2. QED
      BY <1>7, <2>1
  <1>13. LinkedIn(s, p)
    <2>1. ASSUME NEW n \in Node
          PROVE  p[s[n]] = n /\ p[Right(s[n])] = n /\ (s[n] < T => s[n] + 1 < n)
      <3>0. n \in Int
        BY <1>2
      <3>1. CASE n < NChar
        <4>1. s[n] = T + n /\ Right(s[n]) = s[n] /\ s[n] >= T /\ s[n] \in Links /\ ~ (s[n] < T)
          BY <1>5, <1>6, <3>1 DEF Right
        <4>2. p[s[n]] = (T + n) - T
          BY <1>7, <4>1
        <4>3. (T + n) - T = n
          BY <1>2, <3>0
        <4>4. QED
          BY <4>1, <4>2, <4>3
      <3>2. CASE ~ (n < NChar)
        <4> DEFINE y == s[n]
        <4>1. /\ y = 2 * (n - NChar) /\ Right(y) = y + 1 /\ y \in Links /\ y + 1 \in Links
              /\ y + 1 < R /\ y < T /\ y + 1 < n
          BY <1>5, <1>6, <3>2 DEF Right
        <4> HIDE DEF y
        <4>2. /\ y # R /\ y + 1 # R /\ ~ (y >= T) /\ ~ (y + 1 >= T)
              /\ NChar + y \div 2 = n /\ NChar + (y + 1) \div 2 = n
          BY <1>2, <3>0, <4>1
        <4>3. p[y] = n /\ p[y + 1] = n
          BY <1>7, <4>1, <4>2
        <4>4. QED
          BY <4>1, <4>3 DEF y
      <3>3. QED
        BY <3>1, <3>2
    <2>2. ASSUME NEW x \in Links \ {R}
          PROVE  x \in {s[p[x]], Right(s[p[x]])}
      <3>1. x \in Int /\ 0 =< x /\ x =< T + NChar - 1 /\ x \in Links /\ x # R /\ p[x] \in Node
        BY <1>2, <1>10 DEF Links
      <3>2. CASE x >= T
        <4>1. p[x] = x - T /\ x - T < NChar /\ T + (x - T) = x
          BY <1>2, <1>7, <3>1, <3>2
        <4>2. s[p[x]] = x
          BY <1>5, <3>1, <4>1
        <4>3. QED
          BY <4>2
      <3>3. CASE ~ (x >= T)
        <4> DEFINE e == x \div 2
        <4>1. /\ p[x] = NChar + e /\ ~ (NChar + e < NChar) /\ x \in {2 * e, 2 * e + 1}
              /\ 2 * ((NChar + e) - NChar) = 2 * e /\ 2 * e < T
          BY <1>2, <1>7, <3>1, <3>3
        <4> HIDE DEF e
        <4>2. s[p[x]] = 2 * e /\ Right(2 * e) = 2 * e + 1
          BY <1>5, <3>1, <4>1 DEF Right
        <4>3. QED
          BY <4>1, <4>2
      <3>4. QED
        BY <3>2, <3>3
    <2>3. QED
      BY <2>1, <2>2 DEF LinkedIn
  <1>14. Typed
    <2>1. tree \in [freq : [0 .. T -> Nat], son : [Node -> Links], prnt : [Links -> Node]]
      BY <1>1, <1>4, <1>8, <1>11
    <2>2. tree.freq[T] = 65535 /\ tree.prnt[R] = 0
      BY <1>1, <1>4, <1>12
    <2>3. QED
      BY <1>1, <1>2, <2>1, <2>2 DEF Typed
  <1>15. Sorted(f, 0, R) /\ f[R] = NChar
    BY <1>3, StartSorted, StartRoot
  <1>16. \A n \in Node : SumsUp(f, s, n)
    BY <1>4, <1>5, <1>6 DEF SumsUp
  <1>17. /\ g \in [0 .. T -> Int] /\ g[0] = 0 /\ g[T] = NChar
         /\ \A k \in Node : /\ k < NChar => g[k + 1] = g[k] + 1
                            /\ ~ (k < NChar) => g[k + 1] = g[k] + 0
    <2>1. g \in [0 .. T -> Int]
      BY <1>2
    <2>2. g[0] = 0 /\ g[T] = NChar
      BY <1>2
    <2>3. ASSUME NEW k \in Node
          PROVE  /\ k < NChar => g[k + 1] = g[k] + 1
                 /\ ~ (k < NChar) => g[k + 1] = g[k] + 0
      <3>1. k \in 0 .. T /\ k + 1 \in 0 .. T /\ k \in Int
        BY <1>2
      <3>2. /\ g[k] = IF k =< NChar THEN k ELSE NChar
            /\ g[k + 1] = IF k + 1 =< NChar THEN k + 1 ELSE NChar
        BY <3>1
      <3> HIDE DEF g
      <3>3. QED
        BY <1>2, <3>1, <3>2
    <2>4. QED
      BY <2>1, <2>2, <2>3
  <1> HIDE DEF g
  <1>18. \A k \in Node : /\ g[k + 1] = g[k] + Weight(f, s, k)
                         /\ g[k + 1] = g[k] + One(s, k)
    BY <1>4, <1>6, <1>17 DEF Weight, One
  <1>19. Weighs(f, s, g, 0, T) /\ Leaves(s, g, 0, T)
    <2>1. 0 .. T - 1 = Node
      BY <1>2
    <2>2. QED
      BY <1>17, <1>18, <2>1 DEF Weighs, Leaves
  <1>20. Settled
    <2>1. (pc = "climb") = FALSE /\ tree.freq = f /\ tree.son = s /\ tree.prnt = p
      BY <1>1
    <2>2. f[R] =< MaxFreq /\ NChar = f[R] + 0
      BY <1>2, <1>15
    <2>3. \E h : Weighs(f, s, h, 0, T) /\ h[0] = 0 /\ h[T] = f[R] + 0
      BY <1>17, <1>19, <2>2
    <2>4. \E h : Leaves(s, h, 0, T) /\ h[0] = 0 /\ h[T] = NChar
      BY <1>17, <1>19
    <2>5. QED
      BY <1>4, <1>13, <1>15, <1>16, <2>1, <2>2, <2>3, <2>4 DEF Settled, Late
  <1>21. QED
    BY <1>14, <1>20

-------------------------------------------------------------------------------
(* StartHuff() establishes the invariant.                                    *)
LEMMA InitInv == Init => Inv
  <1> SUFFICES ASSUME Init PROVE Inv
    OBVIOUS
  <1>1. Typed /\ Settled
    BY InitSettled
  <1>2. pc = "idle"
    BY DEF Init, Rest
  <1>3. QED
    BY <1>1, <1>2 DEF Inv

(* Each pass of a loop, and each code that is sent, keeps it.                *)
LEMMA NextInv == Inv /\ [Next]_vars => Inv'
  <1> SUFFICES ASSUME Inv, [Next]_vars PROVE Inv'
    OBVIOUS
  <1>1. /\ Typed
        /\ pc \in {"idle", "climb"} => Settled
        /\ pc = "collect" => Collecting
        /\ pc = "build" => Building
    BY DEF Inv, Whole
  <1>2. ASSUME NEW x \in Code, EncodeChar(x) PROVE Inv'
    <2>1. Settled
      BY <1>1, <1>2 DEF EncodeChar
    <2>2. Typed' /\ ((pc' = "climb" /\ Settled') \/ (pc' = "collect" /\ Collecting'))
      BY <1>1, <1>2, <2>1, EncodeStep
    <2>3. QED
      BY <2>2 DEF Inv, Whole
  <1>3. CASE CollectLeaf
    <2>1. pc = "collect" /\ pc' = "collect"
      BY <1>3 DEF CollectLeaf
    <2>2. Typed' /\ Collecting'
      BY <1>1, <1>3, <2>1, LeafStep
    <2>3. QED
      BY <2>1, <2>2 DEF Inv, Whole
  <1>4. CASE CollectNode
    <2>1. pc = "collect" /\ pc' = "collect"
      BY <1>4 DEF CollectNode
    <2>2. Typed' /\ Collecting'
      BY <1>1, <1>4, <2>1, NodeStep
    <2>3. QED
      BY <2>1, <2>2 DEF Inv, Whole
  <1>5. CASE CollectEnds
    <2>1. pc = "collect" /\ pc' = "build"
      BY <1>5 DEF CollectEnds
    <2>2. Typed' /\ Building'
      BY <1>1, <1>5, <2>1, EndsStep
    <2>3. QED
      BY <2>1, <2>2 DEF Inv, Whole
  <1>6. CASE Build
    <2>1. pc = "build" /\ pc' = "build"
      BY <1>6 DEF Build
    <2>2. Typed' /\ Building'
      BY <1>1, <1>6, <2>1, BuildStep
    <2>3. QED
      BY <2>1, <2>2 DEF Inv, Whole
  <1>7. CASE Connect
    <2>1. pc = "build" /\ pc' = "climb"
      BY <1>7 DEF Connect
    <2>2. Typed' /\ Settled'
      BY <1>1, <1>7, <2>1, ConnectStep
    <2>3. QED
      BY <2>1, <2>2 DEF Inv, Whole
  <1>8. CASE Climb
    <2>1. pc = "climb" /\ pc' \in {"idle", "climb"}
      BY <1>8 DEF Climb
    <2>2. Typed' /\ Settled'
      BY <1>1, <1>8, <2>1, ClimbStep
    <2>3. QED
      BY <2>1, <2>2 DEF Inv, Whole
  <1>9. ASSUME NEW q \in Positions, EncodePosition(q) PROVE Inv'
    <2>1. pc = "idle" /\ pc' = "idle"
      BY <1>9 DEF EncodePosition
    <2>2. Typed' /\ Settled'
      BY <1>1, <1>9, <2>1, PositionStep
    <2>3. QED
      BY <2>1, <2>2 DEF Inv, Whole
  <1>10. CASE UNCHANGED vars
    <2>1. UNCHANGED <<tree, pc, i, j, c, sent>>
      BY <1>10 DEF vars
    <2>2. Typed' = Typed /\ Settled' = Settled /\ Collecting' = Collecting /\ Building' = Building
      BY <2>1 DEF Typed, Settled, Late, Collecting, Live, Building
    <2>3. QED
      BY <1>1, <2>1, <2>2 DEF Inv, Whole
  <1>11. QED
    BY <1>2, <1>3, <1>4, <1>5, <1>6, <1>7, <1>8, <1>9, <1>10 DEF Next

(* The invariant says of neighbours what it says of any two nodes.           *)
LEMMA SettledTree ==
    ASSUME Typed, Settled
    PROVE  Ordered /\ Summed /\ Linked /\ \A n \in Node : tree.freq[n] \in 1 .. MaxFreq
  <1> DEFINE f == tree.freq
             s == tree.son
  <1>t. f \in [0 .. T -> Nat] /\ s \in [Node -> Links] /\ tree.prnt \in [Links -> Node] /\ c \in Node
    BY TreeTyped
  <1>1. R \in Nat /\ T = R + 1 /\ Node = 0 .. R /\ MaxFreq \in Nat
    BY Sizes
  <1>2. /\ Sorted(f, 0, R) /\ LinkedIn(s, tree.prnt)
        /\ \A n \in Node : f[n] >= 1
        /\ \A n \in Node : IF Late(s) /\ n = c THEN f[n] + 1 = f[s[n]] + f[s[n] + 1]
                           ELSE SumsUp(f, s, n)
        /\ f[R] =< MaxFreq
    BY DEF Settled
  <1>3. \A n \in Node : f[n] \in Nat
    BY <1>t, <1>1
  <1>4. Ordered
    <2>1. \A n \in 0 .. R - 1 : n \in 0 .. R /\ n + 1 \in 0 .. R /\ n =< n + 1
      BY <1>1
    <2>2. QED
      BY <1>2, <2>1 DEF Ordered, Sorted
  <1>5. Summed
    <2> SUFFICES ASSUME NEW n \in Node, s[n] < T
                 PROVE  f[n] + (IF pc = "climb" /\ n = c THEN 1 ELSE 0) = f[s[n]] + f[s[n] + 1]
      BY DEF Summed
    <2>1. CASE pc = "climb" /\ n = c
      BY <1>2, <2>1 DEF Late
    <2>2. CASE ~ (pc = "climb" /\ n = c)
      <3>1. f[n] = f[s[n]] + f[s[n] + 1]
        BY <1>2, <2>2 DEF Late, SumsUp
      <3>2. f[n] + 0 = f[n]
        BY <1>3
      <3>3. QED
        BY <2>2, <3>1, <3>2
    <2>3. QED
      BY <2>1, <2>2
  <1>6. Linked
    <2>1. DOMAIN tree.prnt = Links
      BY <1>t
    <2>2. QED
      BY <1>2, <2>1 DEF Linked, LinkedIn
  <1>7. ASSUME NEW n \in Node PROVE f[n] \in 1 .. MaxFreq
    <2>1. n \in 0 .. R /\ R \in 0 .. R /\ n =< R /\ R \in Node
      BY <1>1
    <2>2. f[n] =< f[R] /\ f[n] >= 1 /\ f[n] \in Nat /\ f[R] \in Nat
      BY <1>2, <1>3, <2>1 DEF Sorted
    <2>3. QED
      BY <1>1, <1>2, <2>2
  <1>8. QED
    BY <1>4, <1>5, <1>6, <1>7

(* Before and after update() and while it climbs, the arrays are a Huffman   *)
(* tree of the counts with every code in it: EncodeChar() finds the root     *)
(* from each leaf, DecodeChar() a leaf from the root, and the error return   *)
(* of update()'s loop is not taken.                                          *)
THEOREM SiblingKept == Spec => []SiblingProperty
  <1>1. Inv => SiblingProperty
    BY SettledTree DEF Inv, SiblingProperty
  <1>2. QED
    BY <1>1, InitInv, NextInv, PTL DEF Spec

(* No count passes MAX_FREQ, which EncodeChar() compares with == only, and   *)
(* reconst() leaves none at 0.                                               *)
THEOREM CountsKept == Spec => []CountsBounded
  <1>1. Inv => CountsBounded
    BY SettledTree DEF Inv, CountsBounded
  <1>2. QED
    BY <1>1, InitInv, NextInv, PTL DEF Spec

-------------------------------------------------------------------------------
(* The Fibonacci numbers that ShortCodes compares the root with.             *)
FibStep(h, n) == IF n < 2 THEN n ELSE h[n - 1] + h[n - 2]

FibTo(h, b) == h \in [Nat -> Nat] /\ \A n \in Nat : n < b => h[n] = FibStep(h, n)

(* What comes before a number that is not one of the first two.              *)
LEMMA TwoBefore ==
    ASSUME NEW n \in Nat, ~ (n < 2)
    PROVE  n - 1 \in Nat /\ n - 2 \in Nat /\ n - 1 < n /\ n - 2 < n
  OBVIOUS

(* The first b can be computed.                                              *)
LEMMA FibExists ==
    ASSUME NEW b \in Nat
    PROVE  \E h : FibTo(h, b)
  <1> DEFINE S == {a \in Nat : ~ \E h : FibTo(h, a)}
  <1>1. S = {}
    <2> SUFFICES ASSUME S # {} PROVE FALSE
      OBVIOUS
    <2>1. PICK a \in S : \A k \in S : a =< k
      <3>1. S \in SUBSET Nat
        OBVIOUS
      <3> HIDE DEF S
      <3>2. QED
        BY <3>1, Smallest
    <2>2. a \in Nat /\ ~ \E h : FibTo(h, a)
      BY <2>1
    <2>3. CASE a = 0
      <3> DEFINE h == [n \in Nat |-> 0]
      <3>1. h \in [Nat -> Nat]
        OBVIOUS
      <3>2. FibTo(h, a)
        BY <2>3, <3>1 DEF FibTo
      <3>3. QED
        BY <2>2, <3>2
    <2>4. CASE a # 0
      <3> DEFINE e == a - 1
      <3>1. e \in Nat /\ a = e + 1 /\ ~ (a =< e)
        BY <2>2, <2>4
      <3> HIDE DEF e
      <3>2. e \notin S
        <4> HIDE DEF S
        <4> QED
          BY <2>1, <3>1
      <3>3. PICK h : FibTo(h, e)
        BY <3>1, <3>2
      <3>4. h \in [Nat -> Nat] /\ \A n \in Nat : n < e => h[n] = FibStep(h, n)
        BY <3>3 DEF FibTo
      <3>5. FibStep(h, e) \in Nat
        <4>1. CASE e < 2
          BY <3>1, <4>1 DEF FibStep
        <4>2. CASE ~ (e < 2)
          <5>1. h[e - 1] \in Nat /\ h[e - 2] \in Nat
            BY <3>1, <3>4, <4>2, TwoBefore
          <5>2. QED
            BY <4>2, <5>1 DEF FibStep
        <4>3. QED
          BY <4>1, <4>2
      <3> DEFINE h2 == [h EXCEPT ![e] = FibStep(h, e)]
      <3>6. h2 \in [Nat -> Nat] /\ h2[e] = FibStep(h, e) /\ \A k \in Nat : k # e => h2[k] = h[k]
        BY <3>1, <3>4, <3>5
      <3> HIDE DEF h2
      <3>7. ASSUME NEW n \in Nat, n < a
            PROVE  h2[n] = FibStep(h2, n)
        <4>1. n =< e
          BY <3>1, <3>7
        <4>2. FibStep(h2, n) = FibStep(h, n)
          <5>1. CASE n < 2
            BY <5>1 DEF FibStep
          <5>2. CASE ~ (n < 2)
            <6>1. n - 1 \in Nat /\ n - 2 \in Nat /\ n - 1 # e /\ n - 2 # e
              BY <3>1, <4>1, <5>2
            <6>2. h2[n - 1] = h[n - 1] /\ h2[n - 2] = h[n - 2]
              BY <3>6, <6>1
            <6>3. QED
              BY <5>2, <6>2 DEF FibStep
          <5>3. QED
            BY <5>1, <5>2
        <4>3. n # e => n < e
          BY <3>1, <4>1
        <4>4. n # e => h2[n] = h[n] /\ h[n] = FibStep(h, n)
          BY <3>4, <3>6, <4>3
        <4>5. QED
          BY <3>6, <4>2, <4>4
      <3>8. FibTo(h2, a)
        BY <3>6, <3>7 DEF FibTo
      <3>9. QED
        BY <2>2, <3>8
    <2>5. QED
      BY <2>3, <2>4
  <1>2. QED
    BY <1>1

(* All that can be computed is the same.                                     *)
LEMMA FibOnce ==
    ASSUME NEW g, NEW h, NEW a \in Nat, NEW b \in Nat, FibTo(g, a), FibTo(h, b),
           NEW n \in Nat, n < a, n < b
    PROVE  g[n] = h[n]
  <1> DEFINE S == {k \in Nat : k < a /\ k < b /\ g[k] # h[k]}
  <1>1. /\ \A k \in Nat : k < a => g[k] = FibStep(g, k)
        /\ \A k \in Nat : k < b => h[k] = FibStep(h, k)
    BY DEF FibTo
  <1>2. S = {}
    <2> SUFFICES ASSUME S # {} PROVE FALSE
      OBVIOUS
    <2>1. PICK k \in S : \A l \in S : k =< l
      <3>1. S \in SUBSET Nat
        OBVIOUS
      <3> HIDE DEF S
      <3>2. QED
        BY <3>1, Smallest
    <2>2. k \in Nat /\ k < a /\ k < b /\ g[k] # h[k]
      BY <2>1
    <2>3. g[k] = FibStep(g, k) /\ h[k] = FibStep(h, k)
      BY <1>1, <2>2
    <2>4. ~ (k < 2)
      BY <2>2, <2>3 DEF FibStep
    <2>5. /\ k - 1 \in Nat /\ k - 1 < a /\ k - 1 < b /\ ~ (k =< k - 1)
          /\ k - 2 \in Nat /\ k - 2 < a /\ k - 2 < b /\ ~ (k =< k - 2)
      BY <2>2, <2>4
    <2>6. k - 1 \notin S /\ k - 2 \notin S
      <3> HIDE DEF S
      <3> QED
        BY <2>1, <2>5
    <2>7. g[k - 1] = h[k - 1] /\ g[k - 2] = h[k - 2]
      BY <2>5, <2>6
    <2>8. QED
      BY <2>2, <2>3, <2>4, <2>7 DEF FibStep
  <1>3. QED
    BY <1>2

(* Fib is what its definition says.                                          *)
LEMMA FibIs ==
    /\ Fib \in [Nat -> Nat] /\ Fib[0] = 0 /\ Fib[1] = 1 /\ Fib[2] = 1
    /\ \A n \in Nat : Fib[n + 2] = Fib[n + 1] + Fib[n]
  <1> DEFINE H(b) == CHOOSE h : FibTo(h, b)
             F == [n \in Nat |-> H(n + 1)[n]]
  <1>1. ASSUME NEW b \in Nat PROVE FibTo(H(b), b)
    BY FibExists
  <1>2. \A n \in Nat : n + 1 \in Nat /\ n < n + 1 /\ F[n] = H(n + 1)[n]
    OBVIOUS
  <1> HIDE DEF H
  <1>3. ASSUME NEW n \in Nat PROVE F[n] = FibStep(F, n)
    <2> DEFINE h == H(n + 1)
    <2>1. FibTo(h, n + 1) /\ n + 1 \in Nat /\ n < n + 1
      BY <1>1
    <2>2. F[n] = h[n]
      BY <1>2
    <2>3. h[n] = FibStep(h, n)
      BY <2>1 DEF FibTo
    <2>4. ASSUME NEW k \in Nat, k < n PROVE F[k] = h[k]
      <3>1. FibTo(H(k + 1), k + 1) /\ k + 1 \in Nat /\ k < k + 1 /\ k < n + 1
        BY <1>1, <2>4
      <3>2. H(k + 1)[k] = h[k]
        <4> DEFINE a == k + 1
                   b == n + 1
                   g == H(k + 1)
        <4>1. FibTo(g, a) /\ a \in Nat /\ k < a /\ FibTo(h, b) /\ b \in Nat /\ k < b
          BY <2>1, <3>1
        <4> HIDE DEF a, b, g, h
        <4>2. g[k] = h[k]
          BY <4>1, FibOnce
        <4>3. QED
          BY <4>2 DEF g
      <3>3. QED
        BY <1>2, <3>2
    <2> HIDE DEF h, F
    <2>5. FibStep(F, n) = FibStep(h, n)
      <3>1. CASE n < 2
        BY <3>1 DEF FibStep
      <3>2. CASE ~ (n < 2)
        <4>1. F[n - 1] = h[n - 1] /\ F[n - 2] = h[n - 2]
          BY <2>4, <3>2, TwoBefore
        <4>2. QED
          BY <3>2, <4>1 DEF FibStep
      <3>3. QED
        BY <3>1, <3>2
    <2>6. QED
      BY <2>2, <2>3, <2>5
  <1>4. F = [n \in Nat |-> F[n]]
    OBVIOUS
  <1> HIDE DEF F
  <1>5. F = [n \in Nat |-> FibStep(F, n)]
    BY <1>3, <1>4
  <1>6. Fib = CHOOSE h : h = [n \in Nat |-> FibStep(h, n)]
    BY DEF Fib, FibStep
  <1>7. Fib = [n \in Nat |-> FibStep(Fib, n)]
    BY <1>5, <1>6
  <1> DEFINE G == Fib
  <1>8. (\A n \in Nat : G[n] = FibStep(G, n)) /\ G = [n \in Nat |-> G[n]]
    BY <1>7
  <1> HIDE DEF G
  <1> DEFINE S == {n \in Nat : G[n] \notin Nat}
  <1>9. S = {}
    <2> SUFFICES ASSUME S # {} PROVE FALSE
      OBVIOUS
    <2>1. PICK n \in S : \A k \in S : n =< k
      <3>1. S \in SUBSET Nat
        OBVIOUS
      <3> HIDE DEF S
      <3>2. QED
        BY <3>1, Smallest
    <2>2. n \in Nat /\ G[n] \notin Nat /\ G[n] = FibStep(G, n)
      BY <1>8, <2>1
    <2>3. ~ (n < 2)
      BY <2>2 DEF FibStep
    <2>4. n - 1 \in Nat /\ n - 2 \in Nat /\ ~ (n =< n - 1) /\ ~ (n =< n - 2)
      BY <2>2, <2>3
    <2>5. n - 1 \notin S /\ n - 2 \notin S
      <3> HIDE DEF S
      <3> QED
        BY <2>1, <2>4
    <2>6. G[n - 1] \in Nat /\ G[n - 2] \in Nat
      BY <2>4, <2>5
    <2>7. QED
      BY <2>2, <2>3, <2>6 DEF FibStep
  <1>10. G \in [Nat -> Nat]
    BY <1>8, <1>9
  <1>11. G[0] = 0 /\ G[1] = 1
    <2>1. FibStep(G, 0) = 0 /\ FibStep(G, 1) = 1
      BY DEF FibStep
    <2>2. G[0] = FibStep(G, 0) /\ G[1] = FibStep(G, 1)
      BY <1>8
    <2>3. QED
      BY <2>1, <2>2
  <1>12. ASSUME NEW n \in Nat PROVE G[n + 2] = G[n + 1] + G[n]
    <2>1. n + 2 \in Nat /\ ~ (n + 2 < 2) /\ (n + 2) - 1 = n + 1 /\ (n + 2) - 2 = n
      OBVIOUS
    <2>2. G[n + 2] = FibStep(G, n + 2)
      BY <1>8, <2>1
    <2>3. FibStep(G, n + 2) = G[(n + 2) - 1] + G[(n + 2) - 2]
      BY <2>1 DEF FibStep
    <2>4. QED
      BY <2>1, <2>2, <2>3
  <1>13. G[2] = 1
    <2>1. G[0 + 2] = G[0 + 1] + G[0]
      BY <1>12
    <2>2. QED
      BY <1>11, <2>1
  <1>14. QED
    BY <1>10, <1>11, <1>12, <1>13 DEF G

-------------------------------------------------------------------------------
(* Bits().  The ways up from the nodes, as EncodeChar() makes them of prnt.  *)
BitsStep(D, p, k) == IF k = R THEN <<>> ELSE Append(D[p[k]], k % 2)

WaysUp(p) == CHOOSE D : D = [k \in Node |-> BitsStep(D, p, k)]

Climbs(p) == \A k \in Node \ {R} : p[k] \in Node /\ k < p[k]

WaysFrom(D, p, a) ==
    D \in [Node -> Seq({0, 1})] /\ \A k \in Node : R < k + a => D[k] = BitsStep(D, p, k)

(* From the root, a nodes of them can be made.                               *)
LEMMA WaysExist ==
    ASSUME NEW p, Climbs(p), NEW b \in Nat
    PROVE  \E D : WaysFrom(D, p, b)
  <1> DEFINE S == {a \in Nat : ~ \E D : WaysFrom(D, p, a)}
  <1>0. R \in Nat /\ Node = 0 .. R
    BY Sizes
  <1>1. S = {}
    <2> SUFFICES ASSUME S # {} PROVE FALSE
      OBVIOUS
    <2>1. PICK a \in S : \A k \in S : a =< k
      <3>1. S \in SUBSET Nat
        OBVIOUS
      <3> HIDE DEF S
      <3>2. QED
        BY <3>1, Smallest
    <2>2. a \in Nat /\ ~ \E D : WaysFrom(D, p, a)
      BY <2>1
    <2>3. CASE a = 0
      <3> DEFINE D == [k \in Node |-> <<>>]
      <3>1. D \in [Node -> Seq({0, 1})]
        OBVIOUS
      <3>2. \A k \in Node : ~ (R < k + a)
        BY <1>0, <2>3
      <3> HIDE DEF D
      <3>3. WaysFrom(D, p, a)
        BY <3>1, <3>2 DEF WaysFrom
      <3>4. QED
        BY <2>2, <3>3
    <2>4. CASE a # 0
      <3> DEFINE e == a - 1
      <3>1. e \in Nat /\ a = e + 1 /\ ~ (a =< e)
        BY <2>2, <2>4
      <3> HIDE DEF e
      <3>2. e \notin S
        <4> HIDE DEF S
        <4> QED
          BY <2>1, <3>1
      <3>3. PICK D : WaysFrom(D, p, e)
        BY <3>1, <3>2
      <3>4. /\ D \in [Node -> Seq({0, 1})]
            /\ \A k \in Node : R < k + e => D[k] = BitsStep(D, p, k)
        BY <3>3 DEF WaysFrom
      <3>5. CASE R < e
        <4>1. \A k \in Node : R < k + e
          BY <1>0, <3>1, <3>5
        <4>2. WaysFrom(D, p, a)
          BY <3>4, <4>1 DEF WaysFrom
        <4>3. QED
          BY <2>2, <4>2
      <3>6. CASE ~ (R < e)
        <4> DEFINE n == R - e
        <4>1. /\ n \in Node /\ \A k \in Node : R < k + a => k = n \/ R < k + e
              /\ \A k \in Node : n < k => R < k + e
              /\ ~ (R < n + e)
          BY <1>0, <3>1, <3>6
        <4> HIDE DEF n
        <4>2. BitsStep(D, p, n) \in Seq({0, 1})
          <5>1. CASE n = R
            BY <5>1 DEF BitsStep
          <5>2. CASE n # R
            <6>1. p[n] \in Node /\ n % 2 \in {0, 1}
              <7>1. p[n] \in Node /\ n \in Nat
                BY <1>0, <4>1, <5>2 DEF Climbs
              <7>2. QED
                BY <7>1
            <6>2. D[p[n]] \in Seq({0, 1})
              BY <3>4, <6>1
            <6>3. Append(D[p[n]], n % 2) \in Seq({0, 1})
              BY <6>1, <6>2
            <6>4. QED
              BY <5>2, <6>3 DEF BitsStep
          <5>3. QED
            BY <5>1, <5>2
        <4> DEFINE D2 == [D EXCEPT ![n] = BitsStep(D, p, n)]
        <4>3. /\ D2 \in [Node -> Seq({0, 1})] /\ D2[n] = BitsStep(D, p, n)
              /\ \A k \in Node : k # n => D2[k] = D[k]
          BY <3>4, <4>1, <4>2
        <4> HIDE DEF D2
        <4>4. ASSUME NEW k \in Node, R < k + a
              PROVE  D2[k] = BitsStep(D2, p, k)
          <5>1. k = n \/ R < k + e
            BY <4>1, <4>4
          <5>2. BitsStep(D2, p, k) = BitsStep(D, p, k)
            <6>1. CASE k = R
              BY <6>1 DEF BitsStep
            <6>2. CASE k # R
              <7>1. p[k] \in Node /\ k < p[k]
                BY <6>2 DEF Climbs
              <7>2. n =< k
                BY <1>0, <3>1, <4>1, <5>1
              <7>3. p[k] # n
                BY <1>0, <4>1, <7>1, <7>2
              <7>4. D2[p[k]] = D[p[k]]
                BY <4>3, <7>1, <7>3
              <7>5. QED
                BY <6>2, <7>4 DEF BitsStep
            <6>3. QED
              BY <6>1, <6>2
          <5>3. k # n => D2[k] = D[k] /\ D[k] = BitsStep(D, p, k)
            BY <3>4, <4>3, <5>1
          <5>4. QED
            BY <4>3, <5>2, <5>3
        <4>5. WaysFrom(D2, p, a)
          BY <4>3, <4>4 DEF WaysFrom
        <4>6. QED
          BY <2>2, <4>5
      <3>7. QED
        BY <3>5, <3>6
    <2>5. QED
      BY <2>3, <2>4
  <1>2. QED
    BY <1>1

(* The ways up are what EncodeChar() says.                                   *)
LEMMA WaysUpAre ==
    ASSUME NEW p, Climbs(p)
    PROVE  /\ WaysUp(p) \in [Node -> Seq({0, 1})]
           /\ \A k \in Node : WaysUp(p)[k] = BitsStep(WaysUp(p), p, k)
  <1>0. R \in Nat /\ Node = 0 .. R
    BY Sizes
  <1>1. PICK D0 : WaysFrom(D0, p, R + 1)
    <2> DEFINE b == R + 1
    <2>1. b \in Nat
      BY <1>0
    <2> HIDE DEF b
    <2>2. \E D : WaysFrom(D, p, b)
      BY <2>1, WaysExist
    <2>3. QED
      BY <2>2 DEF b
  <1>2. \A k \in Node : R < k + (R + 1)
    BY <1>0
  <1>3. D0 \in [Node -> Seq({0, 1})] /\ \A k \in Node : D0[k] = BitsStep(D0, p, k)
    BY <1>1, <1>2 DEF WaysFrom
  <1>4. D0 = [k \in Node |-> BitsStep(D0, p, k)]
    BY <1>3
  <1> DEFINE D == WaysUp(p)
  <1>5. D = [k \in Node |-> BitsStep(D, p, k)]
    BY <1>4 DEF WaysUp
  <1> HIDE DEF D
  <1>6. (\A k \in Node : D[k] = BitsStep(D, p, k)) /\ D = [k \in Node |-> D[k]]
    BY <1>5
  <1> DEFINE S == {a \in Nat : \E k \in Node : k + a = R /\ D[k] \notin Seq({0, 1})}
  <1>7. S = {}
    <2> SUFFICES ASSUME S # {} PROVE FALSE
      OBVIOUS
    <2>1. PICK a \in S : \A l \in S : a =< l
      <3>1. S \in SUBSET Nat
        OBVIOUS
      <3> HIDE DEF S
      <3>2. QED
        BY <3>1, Smallest
    <2>2. PICK k \in Node : k + a = R /\ D[k] \notin Seq({0, 1})
      BY <2>1
    <2>3. D[k] = BitsStep(D, p, k) /\ <<>> \in Seq({0, 1})
      BY <1>6
    <2>4. k # R
      BY <2>2, <2>3 DEF BitsStep
    <2>5. p[k] \in Node /\ k < p[k]
      BY <2>4 DEF Climbs
    <2> DEFINE e == R - p[k]
    <2>6. e \in Nat /\ p[k] + e = R /\ ~ (a =< e) /\ k % 2 \in {0, 1}
      BY <1>0, <2>1, <2>2, <2>5
    <2> HIDE DEF e
    <2>7. e \notin S
      <3> HIDE DEF S
      <3> QED
        BY <2>1, <2>6
    <2>8. D[p[k]] \in Seq({0, 1})
      BY <2>5, <2>6, <2>7
    <2>9. Append(D[p[k]], k % 2) \in Seq({0, 1})
      BY <2>6, <2>8
    <2>10. QED
      BY <2>2, <2>3, <2>4, <2>9 DEF BitsStep
  <1>8. \A k \in Node : R - k \in Nat /\ k + (R - k) = R
    BY <1>0
  <1>9. \A k \in Node : D[k] \in Seq({0, 1})
    BY <1>7, <1>8
  <1>10. D \in [Node -> Seq({0, 1})]
    BY <1>6, <1>9
  <1>11. QED
    BY <1>6, <1>10 DEF D

(* The bits of a code are the way up from its leaf.                          *)
LEMMA BitsAre ==
    ASSUME NEW x
    PROVE  Bits(x) = WaysUp(tree.prnt)[tree.prnt[Leaf(x)]]
  BY DEF Bits, WaysUp, BitsStep

(* A node that is not the root is a son of its parent, to its left, and its  *)
(* brother stands beside it.                                                 *)
LEMMA ParentIs ==
    ASSUME NEW s \in [Node -> Links], NEW p \in [Links -> Node], LinkedIn(s, p),
           NEW k \in Node, k # R
    PROVE  /\ p[k] \in Node /\ k < p[k] /\ s[p[k]] < T /\ s[p[k]] \in Node
           /\ s[p[k]] + 1 \in Node /\ s[p[k]] + 1 < p[k] /\ k \in {s[p[k]], s[p[k]] + 1}
  <1> DEFINE n == p[k]
  <1>1. R \in Nat /\ T = R + 1 /\ Node = 0 .. R /\ k \in Links \ {R}
    BY Sizes DEF Links
  <1>2. n \in Node /\ k \in {s[n], Right(s[n])} /\ s[n] \in Links /\ LeftOf(s[n], n)
    BY <1>1, LinkedLeft DEF LinkedIn
  <1> HIDE DEF n
  <1>3. k < T /\ k \in Int /\ n \in Int
    BY <1>1, <1>2
  <1>4. s[n] < T
    BY <1>2, <1>3, SonsAre
  <1>5. s[n] \in Node /\ s[n] + 1 \in Node /\ Right(s[n]) = s[n] + 1 /\ s[n] + 1 < n
    BY <1>2, <1>4, SonsAre DEF LeftOf
  <1>6. k < n
    BY <1>1, <1>2, <1>3, <1>5
  <1>7. QED
    BY <1>2, <1>4, <1>5, <1>6 DEF n

(* A node to the right has less far to go to the root.                       *)
LEMMA Nearer ==
    ASSUME NEW k \in Node, NEW l \in Node, k < l, NEW a \in Nat, k + a = R
    PROVE  \E e \in Nat : l + e = R /\ ~ (a =< e)
  <1>1. R \in Nat /\ Node = 0 .. R
    BY Sizes
  <1>2. R - l \in Nat /\ l + (R - l) = R /\ ~ (a =< R - l)
    BY <1>1
  <1>3. QED
    BY <1>2

(* All ways up end at the root.                                              *)
LEMMA LinkedClimbs ==
    ASSUME NEW s \in [Node -> Links], NEW p \in [Links -> Node], LinkedIn(s, p)
    PROVE  Climbs(p)
  <1> SUFFICES ASSUME NEW k \in Node, k # R PROVE p[k] \in Node /\ k < p[k]
    BY DEF Climbs
  <1>1. QED
    BY ParentIs

-------------------------------------------------------------------------------
(* A node m levels above a leaf has been seen as often as Fib[m + 2], those  *)
(* beside it and behind it as often as Fib[m + 1].                           *)
Heavy(f, k, m) ==
    /\ Fib[m + 2] =< f[k]
    /\ \A n \in Node : k - 1 =< n => Fib[m + 1] =< f[n]

(* A tree that is whole, with nothing late.                                  *)
TreeOf(f, s, p) ==
    /\ f \in [0 .. T -> Nat] /\ s \in [Node -> Links] /\ p \in [Links -> Node]
    /\ Sorted(f, 0, R) /\ LinkedIn(s, p)
    /\ \A n \in Node : f[n] >= 1 /\ SumsUp(f, s, n)

(* So is its parent, a level higher: it is the sum of two nodes, and the     *)
(* nodes beside it are behind its sons.                                      *)
LEMMA HeavyParent ==
    ASSUME NEW f, NEW s, NEW p, TreeOf(f, s, p), NEW k \in Node, k # R,
           NEW m \in Nat, Heavy(f, k, m)
    PROVE  Heavy(f, p[k], m + 1)
  <1> DEFINE n == p[k]
             F == Fib
  <1>0. R \in Nat /\ T = R + 1 /\ Node = 0 .. R
    BY Sizes
  <1>1. /\ n \in Node /\ k < n /\ s[n] < T /\ s[n] \in Node
        /\ s[n] + 1 \in Node /\ s[n] + 1 < n /\ k \in {s[n], s[n] + 1}
    BY ParentIs DEF TreeOf
  <1>2. F[(m + 1) + 2] = F[m + 2] + F[m + 1] /\ F[m + 2] \in Nat /\ F[m + 1] \in Nat
    <2>1. m + 1 \in Nat /\ m + 2 \in Nat /\ (m + 1) + 2 = m + 3 /\ (m + 1) + 1 = m + 2
      OBVIOUS
    <2>2. F[(m + 1) + 2] = F[(m + 1) + 1] + F[m + 1]
      BY <2>1, FibIs
    <2>3. QED
      BY <2>1, <2>2, FibIs
  <1> HIDE DEF F
  <1>3. F[m + 2] =< f[k] /\ \A l \in Node : k - 1 =< l => F[m + 1] =< f[l]
    BY DEF Heavy, F
  <1> HIDE DEF n
  <1>4. \A l \in Node : f[l] \in Nat /\ l \in Int
    <2>1. \A l \in Node : l \in 0 .. T /\ l \in Int
      BY <1>0
    <2>2. f \in [0 .. T -> Nat]
      BY DEF TreeOf
    <2>3. QED
      BY <2>1, <2>2
  <1>5. f[n] = f[s[n]] + f[s[n] + 1]
    BY <1>1 DEF TreeOf, SumsUp
  <1>6. F[(m + 1) + 2] =< f[n]
    <2> DEFINE y == s[n]
               z == y + 1
    <2>1. y \in Node /\ z \in Node /\ f[n] = f[y] + f[z] /\ k \in {y, z} /\ k \in Node
      BY <1>1, <1>5
    <2>2. k - 1 =< y /\ k - 1 =< z
      BY <1>4, <2>1
    <2> HIDE DEF y, z
    <2>3. F[m + 1] =< f[y] /\ F[m + 1] =< f[z]
      BY <1>3, <2>1, <2>2
    <2>4. F[m + 2] =< f[y] \/ F[m + 2] =< f[z]
      BY <1>3, <2>1
    <2>5. f[y] \in Nat /\ f[z] \in Nat
      BY <1>4, <2>1
    <2>6. F[m + 2] + F[m + 1] =< f[y] + f[z]
      BY <1>2, <2>3, <2>4, <2>5
    <2>7. QED
      BY <1>2, <2>1, <2>6
  <1>7. ASSUME NEW l \in Node, n - 1 =< l PROVE F[(m + 1) + 1] =< f[l]
    <2>1. k \in 0 .. R /\ l \in 0 .. R /\ k =< l
      BY <1>0, <1>1, <1>7
    <2>2. f[k] =< f[l]
      BY <2>1 DEF TreeOf, Sorted
    <2>3. (m + 1) + 1 = m + 2
      OBVIOUS
    <2>4. f[k] \in Nat /\ f[l] \in Nat
      BY <1>4
    <2>5. QED
      BY <1>2, <1>3, <2>2, <2>3, <2>4
  <1>8. QED
    BY <1>6, <1>7 DEF Heavy, F, n

(* The root has been seen as often as the longest way up to it says.         *)
LEMMA RootHeavy ==
    ASSUME NEW f, NEW s, NEW p, TreeOf(f, s, p), NEW n \in Node, NEW b \in Nat, Heavy(f, n, b)
    PROVE  Fib[b + Len(WaysUp(p)[n]) + 2] =< f[R]
  <1> DEFINE D == WaysUp(p)
             Falls(k) == \E m \in Nat : Heavy(f, k, m) /\ ~ (Fib[m + Len(D[k]) + 2] =< f[R])
             S == {a \in Nat : \E k \in Node : k + a = R /\ Falls(k)}
  <1>0. R \in Nat /\ Node = 0 .. R
    BY Sizes
  <1>1. /\ D \in [Node -> Seq({0, 1})] /\ \A k \in Node : D[k] = BitsStep(D, p, k)
    BY LinkedClimbs, WaysUpAre DEF TreeOf
  <1> HIDE DEF D
  <1>2. S = {}
    <2> SUFFICES ASSUME S # {} PROVE FALSE
      OBVIOUS
    <2>1. PICK a \in S : \A l \in S : a =< l
      <3>1. S \in SUBSET Nat
        OBVIOUS
      <3> HIDE DEF S
      <3>2. QED
        BY <3>1, Smallest
    <2>2. PICK k \in Node : k + a = R /\ Falls(k)
      BY <2>1
    <2>3. PICK m \in Nat : Heavy(f, k, m) /\ ~ (Fib[m + Len(D[k]) + 2] =< f[R])
      BY <2>2
    <2>4. k # R
      <3> SUFFICES ASSUME k = R PROVE FALSE
        OBVIOUS
      <3>1. D[k] = <<>>
        BY <1>1 DEF BitsStep
      <3>2. Len(D[k]) = 0 /\ m + Len(D[k]) + 2 = m + 2
        BY <3>1
      <3>3. QED
        BY <2>3, <3>2 DEF Heavy
    <2>5. p[k] \in Node /\ k < p[k]
      BY <2>4, ParentIs DEF TreeOf
    <2>6. PICK e \in Nat : p[k] + e = R /\ ~ (a =< e)
      <3>1. k + a = R /\ a \in Nat
        BY <2>1, <2>2
      <3>2. QED
        BY <2>5, <3>1, Nearer
    <2>7. ~ Falls(p[k])
      <3>1. e \notin S
        <4> HIDE DEF S
        <4> QED
          BY <2>1, <2>6
      <3> HIDE DEF Falls
      <3>2. QED
        BY <2>5, <2>6, <3>1
    <2>8. Heavy(f, p[k], m + 1) /\ m + 1 \in Nat
      BY <2>3, <2>4, HeavyParent
    <2>9. Fib[(m + 1) + Len(D[p[k]]) + 2] =< f[R]
      <3> DEFINE u == m + 1
      <3>1. u \in Nat /\ Heavy(f, p[k], u)
        BY <2>8
      <3> HIDE DEF u
      <3>2. Fib[u + Len(D[p[k]]) + 2] =< f[R]
        BY <2>7, <3>1
      <3>3. QED
        BY <3>2 DEF u
    <2>10. D[k] = Append(D[p[k]], k % 2) /\ D[p[k]] \in Seq({0, 1})
      BY <1>1, <2>4, <2>5 DEF BitsStep
    <2>11. Len(D[k]) = Len(D[p[k]]) + 1 /\ Len(D[p[k]]) \in Nat
      BY <2>10
    <2>12. (m + 1) + Len(D[p[k]]) + 2 = m + Len(D[k]) + 2
      <3> DEFINE u == Len(D[k])
                 v == Len(D[p[k]])
      <3>1. u = v + 1 /\ v \in Nat /\ m \in Nat
        BY <2>3, <2>11
      <3> HIDE DEF u, v
      <3>2. (m + 1) + v + 2 = m + u + 2
        BY <3>1
      <3>3. QED
        BY <3>2 DEF u, v
    <2>13. QED
      BY <2>3, <2>9, <2>12
  <1>3. R - n \in Nat /\ n + (R - n) = R
    BY <1>0
  <1>4. ~ Falls(n)
    <2> HIDE DEF Falls
    <2> QED
      BY <1>2, <1>3
  <1>5. QED
    BY <1>4 DEF D

(* What is kept between two codes.                                           *)
LEMMA IdleTree ==
    ASSUME Inv, pc = "idle"
    PROVE  TreeOf(tree.freq, tree.son, tree.prnt) /\ tree.freq[R] \in Nat /\ tree.freq[R] =< MaxFreq
  <1>1. Typed /\ Settled
    BY DEF Inv, Whole
  <1>2. R \in 0 .. T
    BY Sizes
  <1>3. QED
    BY <1>1, <1>2, TreeTyped DEF Settled, Late, TreeOf

(* A code is no longer than the counts make it.                              *)
LEMMA BitsShort ==
    ASSUME Inv, pc = "idle", NEW x \in Code
    PROVE  /\ Bits(x) \in Seq({0, 1}) /\ Len(Bits(x)) \in Nat
           /\ Fib[Len(Bits(x)) + 2] =< tree.freq[R]
  <1> DEFINE f == tree.freq
             s == tree.son
             p == tree.prnt
             k == p[Leaf(x)]
             D == WaysUp(p)
  <1>0. R \in Nat /\ T = R + 1 /\ Node = 0 .. R
    BY Sizes
  <1>1. TreeOf(f, s, p)
    BY IdleTree
  <1>2. Bits(x) = D[k]
    BY BitsAre
  <1> HIDE DEF f, s, p
  <1>3. k \in Node
    BY <1>1, LeafAt DEF TreeOf
  <1>4. D \in [Node -> Seq({0, 1})]
    BY <1>1, LinkedClimbs, WaysUpAre DEF TreeOf
  <1>5. Heavy(f, k, 0)
    <2>1. \A n \in Node : f[n] >= 1 /\ f[n] \in Nat
      BY <1>0, <1>1 DEF TreeOf
    <2>2. 0 + 2 = 2 /\ 0 + 1 = 1 /\ Fib[2] = 1 /\ Fib[1] = 1
      BY FibIs
    <2>3. QED
      BY <1>3, <2>1, <2>2 DEF Heavy
  <1> HIDE DEF k
  <1>6. Fib[0 + Len(D[k]) + 2] =< f[R]
    <2> DEFINE b == 0
    <2>1. b \in Nat /\ Heavy(f, k, b)
      BY <1>5
    <2> HIDE DEF b
    <2>2. Fib[b + Len(WaysUp(p)[k]) + 2] =< f[R]
      BY <1>1, <1>3, <2>1, RootHeavy
    <2>3. QED
      BY <2>2 DEF b
  <1>7. D[k] \in Seq({0, 1}) /\ Len(D[k]) \in Nat
    BY <1>3, <1>4
  <1>8. 0 + Len(D[k]) + 2 = Len(D[k]) + 2
    BY <1>7
  <1>9. QED
    BY <1>2, <1>6, <1>7, <1>8 DEF f

-------------------------------------------------------------------------------
(* DecodeChar().  A left son has an even index: if not, the node before it   *)
(* would be the right son of an odd one.                                     *)
LEMMA LeftIsEven ==
    ASSUME NEW s \in [Node -> Links], NEW p \in [Links -> Node], LinkedIn(s, p),
           NEW n \in Node, s[n] < T
    PROVE  s[n] % 2 = 0
  <1> DEFINE S == {y \in Node : y % 2 = 1 /\ \E k \in Node : s[k] = y}
  <1>0. R \in Nat /\ T = R + 1 /\ Node = 0 .. R
    BY Sizes
  <1>1. S = {}
    <2> SUFFICES ASSUME S # {} PROVE FALSE
      OBVIOUS
    <2>1. PICK y \in S : \A l \in S : y =< l
      <3>1. S \in SUBSET Nat
        BY <1>0
      <3> HIDE DEF S
      <3>2. QED
        BY <3>1, Smallest
    <2>2. PICK k \in Node : s[k] = y
      BY <2>1
    <2>3. y \in Node /\ y % 2 = 1 /\ y \in Nat
      BY <1>0, <2>1
    <2>4. y # 0
      BY <2>3
    <2>5. y < T /\ y \in Links /\ LeftOf(y, k)
      <3>1. s[k] \in Links /\ LeftOf(s[k], k)
        BY LinkedLeft
      <3>2. y < T
        BY <1>0, <2>3
      <3>3. QED
        BY <2>2, <3>1, <3>2
    <2>6. y + 1 < k /\ k =< R
      BY <1>0, <2>2, <2>5 DEF LeftOf
    <2> DEFINE z == y - 1
    <2>7. z \in Node /\ z # R /\ z + 1 = y
      BY <1>0, <2>3, <2>4, <2>6
    <2> HIDE DEF z
    <2> DEFINE m == p[z]
    <2>8. /\ m \in Node /\ s[m] < T /\ s[m] \in Node /\ z \in {s[m], s[m] + 1}
      BY <2>7, ParentIs
    <2> HIDE DEF m
    <2>9. CASE s[m] = z
      <3>1. Right(s[m]) = y
        BY <2>7, <2>8, <2>9 DEF Right
      <3>2. m = k
        BY <2>2, <2>8, <3>1 DEF LinkedIn
      <3>3. QED
        BY <2>2, <2>3, <2>7, <2>9, <3>2
    <2>10. CASE s[m] + 1 = z
      <3>1. s[m] \in Nat /\ s[m] + 2 = y /\ ~ (y =< s[m])
        BY <1>0, <2>7, <2>8, <2>10
      <3>2. s[m] % 2 = 1
        BY <2>3, <3>1
      <3>3. s[m] \in S
        BY <2>8, <3>2
      <3> HIDE DEF S
      <3>4. QED
        BY <2>1, <3>1, <3>3
    <2>11. QED
      BY <2>8, <2>9, <2>10
  <1>2. s[n] \in Node /\ s[n] \in Nat
    BY <1>0, SonsAre, LinkedLeft
  <1>3. s[n] % 2 \in {0, 1}
    BY <1>2
  <1>4. QED
    BY <1>1, <1>2, <1>3

(* Where DecodeChar() is after k bits.                                       *)
DownFrom(s, n, b) == IF n \in Node THEN s[n + b] ELSE -1

DownStep(s, q, g, k) == IF k = 0 THEN s[R] ELSE DownFrom(s, g[k - 1], q[k])

WaysDown(s, q) == CHOOSE g : g = [k \in 0 .. Len(q) |-> DownStep(s, q, g, k)]

DownTo(s, q, g, b) ==
    g = [k \in 0 .. Len(q) |-> g[k]] /\ \A k \in 0 .. Len(q) : k < b => g[k] = DownStep(s, q, g, k)

(* There is one such way.                                                    *)
LEMMA DownExists ==
    ASSUME NEW s, NEW q, Len(q) \in Nat, NEW b \in Nat
    PROVE  \E g : DownTo(s, q, g, b)
  <1> DEFINE S == {a \in Nat : ~ \E g : DownTo(s, q, g, a)}
             L == Len(q)
  <1>0. L \in Nat
    OBVIOUS
  <1>1. S = {}
    <2> SUFFICES ASSUME S # {} PROVE FALSE
      OBVIOUS
    <2>1. PICK a \in S : \A k \in S : a =< k
      <3>1. S \in SUBSET Nat
        OBVIOUS
      <3> HIDE DEF S
      <3>2. QED
        BY <3>1, Smallest
    <2>2. a \in Nat /\ ~ \E g : DownTo(s, q, g, a)
      BY <2>1
    <2>3. CASE a = 0
      <3> DEFINE g == [k \in 0 .. L |-> 0]
      <3>1. g = [k \in 0 .. L |-> g[k]]
        OBVIOUS
      <3>2. \A k \in 0 .. L : ~ (k < a)
        BY <1>0, <2>3
      <3> HIDE DEF g
      <3>3. DownTo(s, q, g, a)
        BY <3>1, <3>2 DEF DownTo
      <3>4. QED
        BY <2>2, <3>3
    <2>4. CASE a # 0
      <3> DEFINE e == a - 1
      <3>1. e \in Nat /\ a = e + 1 /\ ~ (a =< e)
        BY <2>2, <2>4
      <3> HIDE DEF e
      <3>2. e \notin S
        <4> HIDE DEF S
        <4> QED
          BY <2>1, <3>1
      <3>3. PICK g : DownTo(s, q, g, e)
        BY <3>1, <3>2
      <3>4. g = [k \in 0 .. L |-> g[k]] /\ \A k \in 0 .. L : k < e => g[k] = DownStep(s, q, g, k)
        BY <3>3 DEF DownTo
      <3> DEFINE h == [k \in 0 .. L |-> IF k = e THEN DownStep(s, q, g, k) ELSE g[k]]
      <3>5. /\ h = [k \in 0 .. L |-> h[k]]
            /\ \A k \in 0 .. L : h[k] = IF k = e THEN DownStep(s, q, g, k) ELSE g[k]
        OBVIOUS
      <3> HIDE DEF h, L
      <3>6. ASSUME NEW k \in 0 .. L, k < a
            PROVE  h[k] = DownStep(s, q, h, k)
        <4>1. k = e \/ k < e
          BY <3>1, <3>6
        <4>2. DownStep(s, q, h, k) = DownStep(s, q, g, k)
          <5>1. CASE k = 0
            BY <5>1 DEF DownStep
          <5>2. CASE k # 0
            <6>1. k - 1 \in 0 .. L /\ k - 1 # e
              BY <1>0, <3>1, <4>1, <5>2
            <6>2. h[k - 1] = g[k - 1]
              BY <3>5, <6>1
            <6>3. QED
              BY <5>2, <6>2 DEF DownStep
          <5>3. QED
            BY <5>1, <5>2
        <4>3. QED
          BY <3>4, <3>5, <4>1, <4>2
      <3>7. DownTo(s, q, h, a)
        BY <3>5, <3>6 DEF DownTo, L
      <3>8. QED
        BY <2>2, <3>7
    <2>5. QED
      BY <2>3, <2>4
  <1>2. QED
    BY <1>1

(* The way down is what DecodeChar() says.                                   *)
LEMMA WaysDownAre ==
    ASSUME NEW s, NEW q, Len(q) \in Nat
    PROVE  \A k \in 0 .. Len(q) : WaysDown(s, q)[k] = DownStep(s, q, WaysDown(s, q), k)
  <1> DEFINE L == Len(q)
             b == L + 1
  <1>1. b \in Nat /\ \A k \in 0 .. L : k < b
    OBVIOUS
  <1> HIDE DEF b
  <1>2. PICK g : DownTo(s, q, g, b)
    BY <1>1, DownExists
  <1> HIDE DEF L
  <1>3. g = [k \in 0 .. L |-> g[k]] /\ \A k \in 0 .. L : g[k] = DownStep(s, q, g, k)
    BY <1>1, <1>2 DEF DownTo, L
  <1>4. g = [k \in 0 .. L |-> DownStep(s, q, g, k)]
    BY <1>3
  <1> DEFINE D == WaysDown(s, q)
  <1>5. D = [k \in 0 .. L |-> DownStep(s, q, D, k)]
    BY <1>4 DEF WaysDown, L
  <1> HIDE DEF D
  <1>6. \A k \in 0 .. L : D[k] = DownStep(s, q, D, k)
    BY <1>5
  <1>7. QED
    BY <1>6 DEF D, L

(* DecodeChar() goes down to the end of the bits.                            *)
LEMMA DecodeIs ==
    ASSUME NEW q
    PROVE  DecodeChar(q) = LET y == WaysDown(tree.son, q)[Len(q)] IN IF y >= T THEN y - T ELSE -1
  BY DEF DecodeChar, WaysDown, DownStep, DownFrom

(* The bits d are the first of q.                                            *)
Along(d, q) == Len(d) =< Len(q) /\ \A k \in 1 .. Len(d) : d[k] = q[k]

(* After the bits of a node the way down is at what is below it.             *)
LEMMA DownTheWay ==
    ASSUME NEW s \in [Node -> Links], NEW p \in [Links -> Node], LinkedIn(s, p),
           NEW q \in Seq({0, 1}), NEW n \in Node, Along(WaysUp(p)[n], q)
    PROVE  WaysDown(s, q)[Len(WaysUp(p)[n])] = s[n]
  <1> DEFINE D == WaysUp(p)
             g == WaysDown(s, q)
             Misses(k) == Along(D[k], q) /\ g[Len(D[k])] # s[k]
             S == {a \in Nat : \E k \in Node : k + a = R /\ Misses(k)}
  <1>0. R \in Nat /\ Node = 0 .. R
    BY Sizes
  <1>1. /\ D \in [Node -> Seq({0, 1})] /\ \A k \in Node : D[k] = BitsStep(D, p, k)
    BY LinkedClimbs, WaysUpAre
  <1>2. Len(q) \in Nat /\ \A k \in 0 .. Len(q) : g[k] = DownStep(s, q, g, k)
    BY WaysDownAre
  <1> HIDE DEF D, g
  <1>3. S = {}
    <2> SUFFICES ASSUME S # {} PROVE FALSE
      OBVIOUS
    <2>1. PICK a \in S : \A l \in S : a =< l
      <3>1. S \in SUBSET Nat
        OBVIOUS
      <3> HIDE DEF S
      <3>2. QED
        BY <3>1, Smallest
    <2>2. PICK k \in Node : k + a = R /\ Misses(k)
      BY <2>1
    <2>3. Along(D[k], q) /\ g[Len(D[k])] # s[k]
      BY <2>2
    <2>4. k # R
      <3> SUFFICES ASSUME k = R PROVE FALSE
        OBVIOUS
      <3>1. D[k] = <<>>
        BY <1>1 DEF BitsStep
      <3>2. Len(D[k]) = 0
        BY <3>1
      <3>3. g[0] = s[R]
        BY <1>2 DEF DownStep
      <3>4. QED
        BY <2>3, <3>2, <3>3
    <2>5. /\ p[k] \in Node /\ k < p[k] /\ s[p[k]] < T /\ s[p[k]] \in Node
          /\ k \in {s[p[k]], s[p[k]] + 1}
      BY <2>4, ParentIs
    <2>6. PICK e \in Nat : p[k] + e = R /\ ~ (a =< e)
      <3>1. k + a = R /\ a \in Nat
        BY <2>1, <2>2
      <3>2. QED
        BY <2>5, <3>1, Nearer
    <2>7. ~ Misses(p[k])
      <3>1. e \notin S
        <4> HIDE DEF S
        <4> QED
          BY <2>1, <2>6
      <3> HIDE DEF Misses
      <3>2. QED
        BY <2>5, <2>6, <3>1
    <2> DEFINE d == D[p[k]]
               l == Len(d)
               v == k % 2
    <2>8. D[k] = Append(d, v) /\ d \in Seq({0, 1})
      BY <1>1, <2>4, <2>5 DEF BitsStep
    <2> HIDE DEF d
    <2>9. /\ l \in Nat /\ Len(D[k]) = l + 1 /\ D[k][l + 1] = v
          /\ \A j1 \in 1 .. l : D[k][j1] = d[j1]
      BY <2>8
    <2> HIDE DEF l, v
    <2>10. l + 1 =< Len(q) /\ q[l + 1] = v /\ \A j1 \in 1 .. l : j1 \in 1 .. l + 1 /\ D[k][j1] = q[j1]
      BY <2>3, <2>9 DEF Along
    <2>11. Along(d, q)
      <3>1. l =< Len(q)
        BY <1>2, <2>9, <2>10
      <3>2. QED
        BY <2>9, <2>10, <3>1 DEF Along, l
    <2>12. g[l] = s[p[k]]
      BY <2>7, <2>11 DEF d, l
    <2>13. s[p[k]] + v = k
      <3> DEFINE y == s[p[k]]
      <3>1. y % 2 = 0
        BY <2>5, LeftIsEven
      <3>2. y \in Nat /\ k \in Nat /\ v = k % 2 /\ k \in {y, y + 1}
        BY <2>5, NodesAre DEF v
      <3> HIDE DEF y
      <3>3. CASE k = y
        <4>1. v = 0
          BY <3>1, <3>2, <3>3
        <4>2. QED
          BY <3>2, <3>3, <4>1 DEF y
      <3>4. CASE k = y + 1
        <4>1. v = 1
          BY <3>1, <3>2, <3>4
        <4>2. QED
          BY <3>2, <3>4, <4>1 DEF y
      <3>5. QED
        BY <3>2, <3>3, <3>4
    <2>14. g[l + 1] = DownFrom(s, g[l], v)
      <3> DEFINE u == l + 1
      <3>1. u \in 0 .. Len(q) /\ u # 0 /\ u - 1 = l
        BY <1>2, <2>9, <2>10
      <3>2. q[u] = v
        BY <2>10
      <3> HIDE DEF u
      <3>3. g[u] = DownFrom(s, g[u - 1], q[u])
        BY <1>2, <3>1 DEF DownStep
      <3>4. g[u] = DownFrom(s, g[l], v)
        BY <3>1, <3>2, <3>3
      <3>5. QED
        BY <3>4 DEF u
    <2>15. g[l + 1] = s[k]
      BY <2>5, <2>12, <2>13, <2>14 DEF DownFrom
    <2>16. QED
      BY <2>3, <2>9, <2>15
  <1>4. R - n \in Nat /\ n + (R - n) = R
    BY <1>0
  <1>5. ~ Misses(n)
    <2> HIDE DEF Misses
    <2> QED
      BY <1>3, <1>4
  <1>6. QED
    BY <1>5 DEF D, g

-------------------------------------------------------------------------------
(* EncodePosition() and DecodePosition().  The codes of the upper six bits:  *)
(* code u of h is l bits long, and d_len and d_code know it by its first     *)
(* eight bits, whatever follows.                                             *)
Coded(h, l, u) ==
    \/ l = 3 /\ h = 0 /\ u = 0
    \/ l = 4 /\ h \in 1 .. 3 /\ u = h + 1
    \/ l = 5 /\ h \in 4 .. 11 /\ u = h + 6
    \/ l = 6 /\ h \in 12 .. 23 /\ u = h + 24
    \/ l = 7 /\ h \in 24 .. 47 /\ u = h + 72
    \/ l = 8 /\ h \in 48 .. 63 /\ u = h + 192

CodedAs(h, l, u) == Coded(h, l, u) /\ PLen(h) = l /\ PCode(h) \div 2^(8 - l) = u

Joins(h, l, u, o, v) ==
    /\ h \in 0 .. 63 /\ l \in 3 .. 8 /\ u \in Nat /\ o \in 0 .. 63
    /\ Coded(h, l, u) /\ v = u * 64 + o

FirstBits(v, l) == v \div 2^(l - 2)

(* p_len and p_code.                                                         *)
LEMMA TablesAre ==
    ASSUME NEW h \in 0 .. 63
    PROVE  \E l \in 3 .. 8, u \in Nat : CodedAs(h, l, u)
  <1>1. CASE h = 0
    <2>1. PLen(h) = 3 /\ PCode(h) = 0
      BY <1>1 DEF PLen, PCode
    <2>2. 8 - 3 = 5 /\ 2^5 = 32 /\ 0 \div 32 = 0
      BY SMT
    <2>3. QED
      BY <1>1, <2>1, <2>2 DEF Coded, CodedAs
  <1>2. CASE h \in 1 .. 3
    <2>1. PLen(h) = 4 /\ PCode(h) = 32 + 16 * (h - 1)
      BY <1>2 DEF PLen, PCode
    <2>2. 8 - 4 = 4 /\ 2^4 = 16 /\ (32 + 16 * (h - 1)) \div 16 = h + 1
      BY <1>2, SMT
    <2>3. QED
      BY <1>2, <2>1, <2>2 DEF Coded, CodedAs
  <1>3. CASE h \in 4 .. 11
    <2>1. PLen(h) = 5 /\ PCode(h) = 80 + 8 * (h - 4)
      BY <1>3 DEF PLen, PCode
    <2>2. 8 - 5 = 3 /\ 2^3 = 8 /\ (80 + 8 * (h - 4)) \div 8 = h + 6
      BY <1>3, SMT
    <2>3. QED
      BY <1>3, <2>1, <2>2 DEF Coded, CodedAs
  <1>4. CASE h \in 12 .. 23
    <2>1. PLen(h) = 6 /\ PCode(h) = 144 + 4 * (h - 12)
      BY <1>4 DEF PLen, PCode
    <2>2. 8 - 6 = 2 /\ 2^2 = 4 /\ (144 + 4 * (h - 12)) \div 4 = h + 24
      BY <1>4, SMT
    <2>3. QED
      BY <1>4, <2>1, <2>2 DEF Coded, CodedAs
  <1>5. CASE h \in 24 .. 47
    <2>1. PLen(h) = 7 /\ PCode(h) = 192 + 2 * (h - 24)
      BY <1>5 DEF PLen, PCode
    <2>2. 8 - 7 = 1 /\ 2^1 = 2 /\ (192 + 2 * (h - 24)) \div 2 = h + 72
      BY <1>5, SMT
    <2>3. QED
      BY <1>5, <2>1, <2>2 DEF Coded, CodedAs
  <1>6. CASE h \in 48 .. 63
    <2>1. PLen(h) = 8 /\ PCode(h) = 192 + h
      BY <1>6 DEF PLen, PCode
    <2>2. 8 - 8 = 0 /\ 2^0 = 1 /\ (192 + h) \div 1 = h + 192
      BY <1>6, SMT
    <2>3. QED
      BY <1>6, <2>1, <2>2 DEF Coded, CodedAs
  <1>7. QED
    BY <1>1, <1>2, <1>3, <1>4, <1>5, <1>6

(* d_len and d_code.                                                         *)
LEMMA TablesBack ==
    ASSUME NEW h, NEW l, NEW u, NEW o, NEW v, Joins(h, l, u, o, v)
    PROVE  DLen(FirstBits(v, l)) = l /\ DCode(FirstBits(v, l)) = h
  <1> DEFINE w == FirstBits(v, l)
  <1>w. w = v \div 2^(l - 2)
    BY DEF FirstBits
  <1> HIDE DEF w
  <1>0. /\ h \in 0 .. 63 /\ l \in 3 .. 8 /\ u \in Nat /\ o \in 0 .. 63
        /\ Coded(h, l, u) /\ v = u * 64 + o
    BY DEF Joins
  <1>1. CASE l = 3
    <2>1. h = 0 /\ u = 0
      BY <1>0, <1>1 DEF Coded
    <2>2. 3 - 2 = 1 /\ 2^1 = 2 /\ w = o \div 2
      BY <1>0, <1>1, <1>w, <2>1, SMT
    <2>3. w \in 0 .. 31
      BY <1>0, <2>2
    <2>4. QED
      BY <1>1, <2>1, <2>3 DEF DLen, DCode, w
  <1>2. CASE l = 4
    <2>1. h \in 1 .. 3 /\ u = h + 1
      BY <1>0, <1>2 DEF Coded
    <2>2. 4 - 2 = 2 /\ 2^2 = 4
      BY SMT
    <2>3. w = v \div 4
      BY <1>2, <2>2, <1>w
    <2>4. w \in 16 * h + 16 .. 16 * h + 31
      BY <1>0, <2>1, <2>3
    <2>5. w \in 32 .. 79 /\ (w - 16) \div 16 = h
      BY <2>1, <2>4
    <2>6. QED
      BY <1>2, <2>5 DEF DLen, DCode, w
  <1>3. CASE l = 5
    <2>1. h \in 4 .. 11 /\ u = h + 6
      BY <1>0, <1>3 DEF Coded
    <2>2. 5 - 2 = 3 /\ 2^3 = 8
      BY SMT
    <2>3. w = v \div 8
      BY <1>3, <2>2, <1>w
    <2>4. w \in 8 * h + 48 .. 8 * h + 55
      BY <1>0, <2>1, <2>3
    <2>5. w \in 80 .. 143 /\ (w - 48) \div 8 = h
      BY <2>1, <2>4
    <2>6. QED
      BY <1>3, <2>5 DEF DLen, DCode, w
  <1>4. CASE l = 6
    <2>1. h \in 12 .. 23 /\ u = h + 24
      BY <1>0, <1>4 DEF Coded
    <2>2. 6 - 2 = 4 /\ 2^4 = 16
      BY SMT
    <2>3. w = v \div 16
      BY <1>4, <2>2, <1>w
    <2>4. w \in 4 * h + 96 .. 4 * h + 99
      BY <1>0, <2>1, <2>3
    <2>5. w \in 144 .. 191 /\ (w - 96) \div 4 = h
      BY <2>1, <2>4
    <2>6. QED
      BY <1>4, <2>5 DEF DLen, DCode, w
  <1>5. CASE l = 7
    <2>1. h \in 24 .. 47 /\ u = h + 72
      BY <1>0, <1>5 DEF Coded
    <2>2. 7 - 2 = 5 /\ 2^5 = 32
      BY SMT
    <2>3. w = v \div 32
      BY <1>5, <2>2, <1>w
    <2>4. w \in 2 * h + 144 .. 2 * h + 145
      BY <1>0, <2>1, <2>3
    <2>5. w \in 192 .. 239 /\ (w - 144) \div 2 = h
      BY <2>1, <2>4
    <2>6. QED
      BY <1>5, <2>5 DEF DLen, DCode, w
  <1>6. CASE l = 8
    <2>1. h \in 48 .. 63 /\ u = h + 192
      BY <1>0, <1>6 DEF Coded
    <2>2. 8 - 2 = 6 /\ 2^6 = 64
      BY SMT
    <2>3. w = v \div 64
      BY <1>6, <2>2, <1>w
    <2>4. w = h + 192
      BY <1>0, <2>1, <2>3
    <2>5. w >= 240 /\ w \in 240 .. 255 /\ w - 192 = h
      BY <2>1, <2>4
    <2>6. QED
      BY <1>6, <2>5 DEF DLen, DCode, w
  <1>7. QED
    BY <1>0, <1>1, <1>2, <1>3, <1>4, <1>5, <1>6 DEF w

(* What DecodePosition() reads is what EncodePosition() wrote.               *)
LEMMA PositionHeard ==
    ASSUME NEW p \in Positions
    PROVE  DecodePosition(PositionCode(p), PositionBits(p)) = p
  <1> DEFINE h == p \div 64
             o == p % 64
  <1>1. h \in 0 .. 63 /\ o \in 0 .. 63 /\ p = h * 64 + o
    BY SizesAssumption
  <1>2. PositionBits(p) = PLen(h) + 6 /\ PositionCode(p) = (PCode(h) \div 2^(8 - PLen(h))) * 64 + o
    BY DEF PositionBits, PositionCode
  <1> HIDE DEF h, o
  <1>3. PICK l \in 3 .. 8, u \in Nat : CodedAs(h, l, u)
    BY <1>1, TablesAre
  <1> DEFINE v == u * 64 + o
             n == l + 6
             w == FirstBits(v, l)
             e == (n - 8) - (l - 2)
  <1>4. PositionBits(p) = n /\ PositionCode(p) = v
    BY <1>2, <1>3 DEF CodedAs
  <1>5. v \in Nat /\ v % 64 = o /\ n - 8 = l - 2 /\ 8 + (l - 2) = n /\ e = 0
    BY <1>1, <1>3
  <1>6. w = v \div 2^(n - 8)
    BY <1>5 DEF FirstBits
  <1>7. DLen(w) = l /\ DCode(w) = h
    <2>1. Joins(h, l, u, o, v)
      BY <1>1, <1>3 DEF CodedAs, Joins
    <2> HIDE DEF v
    <2>2. QED
      BY <2>1, TablesBack
  <1> HIDE DEF v, n, w, e
  <1>8. v \div 2^e = v
    <2>1. 2^0 = 1 /\ v \div 1 = v
      BY <1>5, SMT
    <2>2. QED
      BY <1>5, <2>1
  <1>9. DecodePosition(v, n) = DCode(w) * 64 + (v % 64)
    <2> DEFINE m == DLen(w) - 2
               g == (n - 8) - m
    <2>1. 8 + m =< n /\ g = e
      BY <1>3, <1>5, <1>7 DEF n, e
    <2>2. DecodePosition(v, n)
             = DCode(w) * 64 + ((IF 8 + m =< n THEN v \div 2^g ELSE v * 2^(8 + m - n)) % 64)
      BY <1>6 DEF DecodePosition
    <2> HIDE DEF m, g
    <2>3. QED
      BY <1>8, <2>1, <2>2
  <1>10. QED
    BY <1>1, <1>4, <1>5, <1>7, <1>9

-------------------------------------------------------------------------------
(* The register loses nothing of a code that fits in it, and DecodeChar()    *)
(* goes down the way that EncodeChar() came up.                              *)
LEMMA CharHeard ==
    ASSUME Inv, pc = "idle", NEW x \in Code, Len(Bits(x)) =< CodeWidth
    PROVE  DecodeChar(Written(Bits(x))) = x
  <1> DEFINE s == tree.son
             p == tree.prnt
             k == p[Leaf(x)]
             q == Bits(x)
  <1>1. TreeOf(tree.freq, s, p)
    BY IdleTree
  <1>2. q = WaysUp(p)[k]
    BY BitsAre
  <1>3. q \in Seq({0, 1}) /\ Len(q) \in Nat /\ Len(q) =< CodeWidth
    BY BitsShort
  <1> HIDE DEF s, p, q
  <1>4. k \in Node /\ s[k] = Leaf(x) /\ Leaf(x) >= T
    BY <1>1, LeafAt DEF TreeOf
  <1> HIDE DEF k
  <1>5. Written(q) = q
    <2>1. DOMAIN q = 1 .. Len(q) /\ CodeWidth \in Nat
      BY <1>3, SizesAssumption
    <2>2. \A m \in DOMAIN q : m =< CodeWidth
      BY <1>3, <2>1
    <2>3. Written(q) = [m \in DOMAIN q |-> q[m]]
      BY <2>2 DEF Written
    <2>4. q = [m \in DOMAIN q |-> q[m]]
      BY <1>3
    <2>5. QED
      BY <2>3, <2>4
  <1>6. Along(q, q)
    BY <1>3 DEF Along
  <1>7. WaysDown(s, q)[Len(q)] = s[k]
    BY <1>1, <1>2, <1>3, <1>4, <1>6, DownTheWay DEF TreeOf
  <1>8. DecodeChar(q) = IF Leaf(x) >= T THEN Leaf(x) - T ELSE -1
    BY <1>4, <1>7, DecodeIs DEF s
  <1>9. Leaf(x) - T = x
    <2>1. x \in Nat /\ T \in Nat
      BY Sizes
    <2>2. QED
      BY <2>1 DEF Leaf
  <1>10. QED
    BY <1>4, <1>5, <1>8, <1>9 DEF q

(* A code that EncodeChar() writes is d bits long only if the root has been  *)
(* counted as often as Fibonacci number d + 2.                               *)
THEOREM CodesShort == Spec => []ShortCodes
  <1>1. Inv => ShortCodes
    BY BitsShort DEF ShortCodes
  <1>2. QED
    BY <1>1, InitInv, NextInv, PTL DEF Spec

(* Every code that fits in EncodeChar()'s register is the one that           *)
(* DecodeChar() reads, whatever the sizes are.                               *)
FittingHeard ==
    pc = "idle" => \A x \in Code : Len(Bits(x)) =< CodeWidth => DecodeChar(Written(Bits(x))) = x

(* So it is before and after every update(): the register is what bounds the *)
(* codes that come back, not the tree.                                       *)
THEOREM FittingCodesHeard == Spec => []FittingHeard
  <1>1. Inv => FittingHeard
    BY CharHeard DEF FittingHeard
  <1>2. QED
    BY <1>1, InitInv, NextInv, PTL DEF Spec

(* A step after which the two differ sends a code for which the register is  *)
(* too narrow; a position never is lost.                                     *)
OnlyLongLost ==
    heard = sent /\ heard' # sent'
      => \E x \in Code : EncodeChar(x) /\ Len(Bits(x)) > CodeWidth

LEMMA HeardStep ==
    ASSUME Inv, [Next]_vars
    PROVE  OnlyLongLost
  <1>1. ASSUME NEW x \in Code, EncodeChar(x) PROVE OnlyLongLost
    <2>1. /\ pc = "idle" /\ sent' = <<"char", x>>
          /\ heard' = <<"char", DecodeChar(Written(Bits(x)))>>
      BY <1>1 DEF EncodeChar
    <2>2. Len(Bits(x)) \in Nat /\ CodeWidth \in Nat
      BY <2>1, BitsShort, SizesAssumption
    <2>3. CASE Len(Bits(x)) =< CodeWidth
      <3>1. DecodeChar(Written(Bits(x))) = x
        BY <2>1, <2>3, CharHeard
      <3>2. QED
        BY <2>1, <3>1 DEF OnlyLongLost
    <2>4. CASE Len(Bits(x)) > CodeWidth
      BY <1>1, <2>4 DEF OnlyLongLost
    <2>5. QED
      BY <2>2, <2>3, <2>4
  <1>2. ASSUME NEW q \in Positions, EncodePosition(q) PROVE OnlyLongLost
    <2>1. /\ sent' = <<"position", q>>
          /\ heard' = <<"position", DecodePosition(PositionCode(q), PositionBits(q))>>
      BY <1>2 DEF EncodePosition
    <2>2. DecodePosition(PositionCode(q), PositionBits(q)) = q
      BY PositionHeard
    <2>3. QED
      BY <2>1, <2>2 DEF OnlyLongLost
  <1>3. CASE UNCHANGED <<sent, heard>>
    BY <1>3 DEF OnlyLongLost
  <1>4. QED
    BY <1>1, <1>2, <1>3
       DEF Next, CollectLeaf, CollectNode, CollectEnds, Build, Connect, Climb, vars

(* Whatever a file holds, and with the program's own sizes too, the first    *)
(* thing DecodeChar() or DecodePosition() does not read as EncodeChar() or   *)
(* EncodePosition() wrote it is a code of more bits than EncodeChar()'s      *)
(* register has.                                                             *)
THEOREM LongCodeIsWhatIsLost == Spec => [][OnlyLongLost]_vars
  <1>1. QED
    BY InitInv, NextInv, HeardStep, PTL DEF Spec
===============================================================================
