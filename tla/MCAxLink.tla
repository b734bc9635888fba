-------------------------------- MODULE MCAxLink --------------------------------
(* A small instance of AxLink: bytes of six values, messages of a full block *)
(* of the other station and of more than one of the child's, a title that is *)
(* too long and one message that does not start at 0.                        *)
EXTENDS AxLink

MCMessages == {[title |-> <<>>,  offset |-> 0, data |-> <<2, 5, 4>>],
               [title |-> <<5, 2>>, offset |-> 0, data |-> <<0, 1>>]}

MCPeerMessages == {[title |-> <<2>>, offset |-> 0, data |-> <<0, 4, 5, 0, 2, 3>>],
                   [title |-> <<3>>, offset |-> 1, data |-> <<2, 4, 3>>]}
===============================================================================
