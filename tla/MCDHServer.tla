----------------------------- MODULE MCDHServer -----------------------------
(* DHServer on small instances.  Sockets are interchangeable, and so are    *)
(* workers.                                                                 *)
EXTENDS DHServer, TLC

ServerSymmetry == Permutations(Slots) \cup Permutations(Workers)
=============================================================================
