---------------------------- MODULE MCObjectPool ----------------------------
(* ObjectPool on a small instance: the sample is used up, two rounds of     *)
(* growth fit under the bound, and the threads are interchangeable.         *)
EXTENDS ObjectPool, TLC

ThreadSymmetry == Permutations(Threads)
=============================================================================
