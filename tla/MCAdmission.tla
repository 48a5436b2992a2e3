---------------------------- MODULE MCAdmission ----------------------------
(***************************************************************************)
(* Admission for TLC.  Threads, skills and object identities are all       *)
(* treated alike and every property is a safety property, so permuting     *)
(* them is sound.                                                          *)
(***************************************************************************)
EXTENDS Admission, TLC

Symmetry == Permutations(Threads) \cup Permutations(Skills) \cup Permutations(Objects)
=============================================================================
