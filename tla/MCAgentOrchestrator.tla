----------------------- MODULE MCAgentOrchestrator -----------------------
(***************************************************************************)
(* AgentOrchestrator for TLC: requests, agents, objects and tasks are each *)
(* interchangeable.                                                        *)
(***************************************************************************)
EXTENDS AgentOrchestrator, TLC

Symmetry == Permutations(Handlers) \cup Permutations(Hashes)
              \cup Permutations(Objects) \cup Permutations(Tasks)
=============================================================================
