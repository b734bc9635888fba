-------------------------------- MODULE MCOutbox --------------------------------
(* A small instance of Outbox: the draws of the second second begin with the *)
(* identifier that the first ones began with.                                *)
EXTENDS Outbox, TLC

MCDraws == <<<<"m1", "m2">>, <<"m1", "m3">>>>
Symmetric == Permutations(Comp) \cup Permutations(Sess)
===============================================================================
