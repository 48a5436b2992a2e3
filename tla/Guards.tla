------------------------------- MODULE Guards -------------------------------
(***************************************************************************)
(* The CircuitBreakerRegistry of src/src/execution/circuit_breaker.py as   *)
(* one object: the table of breakers under its lock, and the intent        *)
(* history, which shares neither the lock nor any state with it.           *)
(***************************************************************************)
EXTENDS BreakerRegistry, IntentLoop

GuardsInit == Init /\ LoopInit

GuardsNext == \/ Next /\ UNCHANGED loopVars
              \/ LoopNext /\ UNCHANGED vars

GuardsSpec == GuardsInit /\ [][GuardsNext]_<<vars, loopVars>>
=============================================================================
