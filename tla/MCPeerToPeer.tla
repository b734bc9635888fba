----------------------------- MODULE MCPeerToPeer -----------------------------
(* Small instances of PeerToPeer.                                            *)
EXTENDS PeerToPeer

CONSTANTS a1, a2, a3, b1, b2      \* composed at A, composed at B

MCFromA == {a1, a2, a3}
MCPairA == {a1, a2}
MCFromB == {b1, b2}
MCForA  == {b1}               \* b2 is addressed to somebody else
MCMsg   == MCFromA \cup MCFromB
MCFewer == MCPairA \cup MCFromB
===============================================================================
