------------------------------ MODULE MCGuards ------------------------------
(***************************************************************************)
(* Guards for TLC: what is symmetric, and one half at a time.              *)
(***************************************************************************)
EXTENDS Guards, TLC

\* Callers, object identities, threads and intents are treated alike by every definition,
\* and no property here is a liveness property, so permuting them is sound.
Symmetry == Permutations(Callers) \cup Permutations(Objects)
              \cup Permutations(Threads) \cup Permutations(Intents)

\* The halves share no state and no property reads both, so each runs while the other is
\* as it was made: every state of each half is reached, and not every pair of them.
ApartNext == \/ Next /\ UNCHANGED loopVars /\ LoopInit
             \/ LoopNext /\ UNCHANGED vars /\ Init

ApartSpec == GuardsInit /\ [][ApartNext]_<<vars, loopVars>>
=============================================================================
