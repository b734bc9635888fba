------------------------------ MODULE MCWebServer ------------------------------
(* Small instances of WebServer.                                             *)
EXTENDS WebServer, TLC

CONSTANTS c1, c2, p1, p2, p3

Symmetric == Permutations({p1, p2, p3})
===============================================================================
