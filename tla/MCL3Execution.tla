---------------------------- MODULE MCL3Execution ----------------------------
(***************************************************************************)
(* L3Execution for TLC: a window of 64 tokens, a sixteenth of it reserved, *)
(* as in the engine.                                                       *)
(***************************************************************************)
EXTENDS L3Execution, TLC

Symmetry == Permutations(Instructions)
=============================================================================
