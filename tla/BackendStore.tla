---------------------------- MODULE BackendStore ----------------------------
(***************************************************************************)
(* What backend/main.py keeps outside the orchestrator: the rate limiter   *)
(* in memory and the database.  POST /telemetry goes through both.         *)
(***************************************************************************)
EXTENDS RateLimiter, AgentDb

storeVars == <<rateVars, dbVars>>

StoreInit == RateInit /\ DbInit

\* A row that fails has used up its place in the window all the same.
Telemetry(c) ==
  \/ LetThrough(c) /\ RecordTelemetry
  \/ pending = NoRow /\ TooMany(c) /\ UNCHANGED dbVars

StoreRestart == Forget /\ DbRestart

StoreNext ==
  \/ \E c \in Ips : Telemetry(c)
  \/ Tick /\ UNCHANGED dbVars
  \/ \E h \in Agents : (RegisterAgent(h) \/ SetOverride(h) \/ ArchiveAgent(h)) /\ UNCHANGED rateVars
  \/ AuditRegistered /\ UNCHANGED rateVars
  \/ \E c \in Clients : /\ Update(c) \/ UpdateFails(c) \/ \E h \in Agents : Read(c, h)
                        /\ UNCHANGED rateVars
  \/ StoreRestart

StoreSpec == StoreInit /\ [][StoreNext]_storeVars
=============================================================================
