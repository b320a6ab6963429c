---------------------------- MODULE MCDramMemory ----------------------------
(* DramMemory for TLC: owners and threads are interchangeable.              *)
EXTENDS DramMemory, TLC

Symmetry == Permutations(Owners) \cup Permutations(Threads)
=============================================================================
