--------------------------- MODULE MCShadowRepair ---------------------------
(* Constants of ShadowRepair for TLC. *)
EXTENDS ShadowRepair, TLC

Symmetry == Permutations(Requests) \cup Permutations(Actors) \cup Permutations(Attempts)
=============================================================================
