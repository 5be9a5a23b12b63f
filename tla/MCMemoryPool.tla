---------------------------- MODULE MCMemoryPool ----------------------------
(* MemoryPool with two of its sizes, one with a full and one with a half    *)
(* share of the samples, both small enough to be used up.                   *)
EXTENDS MemoryPool, TLC

CONSTANTS Small, Large

MCSizes == {Small, Large}
MCShare == (Small :> 1) @@ (Large :> 2)
=============================================================================
