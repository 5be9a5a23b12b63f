----------------------------- MODULE MCDHDBCore -----------------------------
(* DHDBCore with a few users, which are interchangeable.                    *)
EXTENDS DHDBCore, TLC

UserSymmetry == Permutations(Users)

(* damaged is never reset and nothing is claimed about a damaged table.     *)
Undamaged == ~damaged
=============================================================================
