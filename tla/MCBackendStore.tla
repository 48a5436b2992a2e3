--------------------------- MODULE MCBackendStore ---------------------------
(***************************************************************************)
(* BackendStore for TLC.  Agents, clients and addresses are all treated    *)
(* alike and every property is a safety property, so permuting them is     *)
(* sound.                                                                  *)
(***************************************************************************)
EXTENDS BackendStore, TLC

Symmetry == Permutations(Agents) \cup Permutations(Clients) \cup Permutations(Ips)
=============================================================================
