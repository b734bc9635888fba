------------------------------- MODULE MCAnyPeer -------------------------------
(* Small instances of AnyPeer.                                               *)
EXTENDS AnyPeer

CONSTANTS o1, o2, i1          \* two messages to send, one to receive

MCMsg       == {o1, o2, i1}
MCOutgoing  == {o1, o2}
MCQualified == {o1, i1}

(* Checksums of the empty block and of the block that proposes s.            *)
Sums == {Cksum(s) : s \in {<<>>, <<i1>>, <<o1>>, <<i1, i1>>, <<i1, o1>>}}

MCLines ==
         [t : Bare] \cup [t : {"FC", "DATA"}, m : {i1, o1}]
    \cup [t : {"F>"}, sum : Sums]
    \cup [t : {"FS"}, ans : UNION {[1..n -> Answer] : n \in 0..2}]
===============================================================================
