------------------------------- MODULE MCHuffman -------------------------------
(* Huffman with small constants, and after one long file with the constants  *)
(* of the program.                                                           *)
EXTENDS Huffman

(* Codes the encoder writes for a file of 76245 bytes, and how often each in *)
(* a row: the bytes 0 .. 23, then matches of length 10, 9, ... 3, so that    *)
(* their frequencies follow the Fibonacci recurrence.                        *)
File == [k \in 1..32 |->
           IF k <= 24 THEN [code |-> k - 1, times |-> 1]
           ELSE [code  |-> 288 - k,
                 times |-> <<220, 380, 600, 980, 1580, 2560, 4140, 6700>>[k - 24]]]

(* update(), and update() for a code n times in a row, below MaxFreq.  The   *)
(* set constructors make TLC evaluate the trees from the first to the last.  *)
RECURSIVE UpdateFrom(_, _), Repeat(_, _, _), After(_)
UpdateFrom(t, n) ==
    LET l == Last(t, n)
        u == Counted(t, n)
    IN  IF u.prnt[l] = 0 THEN {u} ELSE UpdateFrom(u, u.prnt[l])

Repeat(t, x, n) ==
    IF n = 1 THEN UpdateFrom(t, t.prnt[Leaf(x)])
    ELSE UNION {Repeat(u, x, n - n \div 2) : u \in Repeat(t, x, n \div 2)}

After(k) ==
    IF k = 0 THEN {StartHuff}
    ELSE UNION {Repeat(u, File[k].code, File[k].times) : u \in After(k - 1)}

SkewedFile == tree \in After(32) /\ Rest /\ [][Next]_vars
===============================================================================
