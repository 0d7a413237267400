--------------------------- MODULE MCWantManager ---------------------------
(* Instances of WantManager for TLC. *)
EXTENDS WantManager, TLC

Symmetry == Permutations(Cids) \cup Permutations(Sessions) \cup Permutations(Peers)
=============================================================================
