----------------------------- MODULE MCDHClient -----------------------------
(* DHClient with a few sockets and SOCKET values; the values are            *)
(* interchangeable.                                                         *)
EXTENDS DHClient, TLC

HandleSymmetry == Permutations(Handles)
=============================================================================
