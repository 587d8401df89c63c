----------------------------- MODULE MCWsClient -----------------------------
(* Model-checking instance of WsClient: two caller tasks on one client.    *)
EXTENDS WsClient, TLC

CONSTANTS c1, c2

MCCallers == {c1, c2}

(* Callers are interchangeable: nothing in the client orders them.         *)
CallerSymmetry == Permutations(MCCallers)
=============================================================================
