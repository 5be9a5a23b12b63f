--------------------------- MODULE MCNetWorkAPI ---------------------------
(* An instance of NetWorkAPI for TLC.                                      *)
EXTENDS NetWorkAPI, TLC
CONSTANTS o1, o2, p1, p2

ObjectSymmetry == Permutations(Objects)
===========================================================================
