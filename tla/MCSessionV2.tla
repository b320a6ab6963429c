---------------------------- MODULE MCSessionV2 ----------------------------
(* Instance of SessionV2 for TLC: threads and addresses are interchangeable. *)
EXTENDS SessionV2, TLC

Symmetry == Permutations(Threads) \cup Permutations(Addr)
=============================================================================
