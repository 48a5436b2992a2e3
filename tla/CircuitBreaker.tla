--------------------------- MODULE CircuitBreaker ---------------------------
(***************************************************************************)
(* One breaker of src/src/execution/circuit_breaker.py shared by the       *)
(* threads that run requests through it, each following the protocol of    *)
(* src/src/orchestration/engine.py: assert_closed, the guarded work with   *)
(* no lock held, then the report of its outcome.  Any number of calls may  *)
(* be under way when the breaker opens, and they report late.              *)
(***************************************************************************)
EXTENDS Breaker, SequencesExt

CONSTANT Callers

VARIABLES breaker,   \* the BreakerStats record
          pc,        \* where each caller is in the protocol
          heard,     \* history: outcomes recorded since the last state change
          letInBy,   \* history: the state in which each caller was admitted
          lost       \* history: since a success last left the breaker closed, a failure
                     \* was recorded whose caller had no success after it

vars == <<breaker, pc, heard, letInBy, lost>>

\* "calling": between assert_closed and the outcome; "reloading": L2 has recorded
\* its failure and runs the pruned reload; "refused": CircuitBreakerOpenError.
Phase == {"idle", "refused", "calling", "reloading"}

TypeOK ==
  /\ breaker \in BreakerStats
  /\ pc \in [Callers -> Phase]
  /\ heard \in Seq(BOOLEAN)
  /\ letInBy \in [Callers -> BreakerState]
  /\ lost \in BOOLEAN

Init ==
  /\ breaker = NewStats
  /\ pc = [c \in Callers |-> "idle"]
  /\ heard = <<>>
  /\ letInBy = [c \in Callers |-> CLOSED]
  /\ lost = FALSE

-----------------------------------------------------------------------------
UnderWay(c) == pc[c] \in {"calling", "reloading"}

\* history: only this many outcomes can matter to a breaker
HistorySize == IF FailureThreshold > SuccessThreshold
                 THEN FailureThreshold ELSE SuccessThreshold

Newest(s) == SubSeq(s, IF Len(s) > HistorySize THEN Len(s) - HistorySize + 1 ELSE 1, Len(s))

\* c moves to phase p and the breaker to record b, having heard the outcomes oks.
Step(c, p, b, oks) ==
  /\ pc' = [pc EXCEPT ![c] = p]
  /\ breaker' = b
  /\ heard' = IF b.state = breaker.state THEN Newest(heard \o oks) ELSE <<>>

Admit(c) ==
  /\ ~UnderWay(c) /\ MayCall(breaker)
  /\ Step(c, "calling", CallAllowed(breaker), <<>>)
  /\ letInBy' = [letInBy EXCEPT ![c] = breaker'.state]
  /\ UNCHANGED lost

RefuseRestartsWindow(c) ==   \* mutant: a refusal counts as a failure time
  /\ ~UnderWay(c) /\ ~MayCall(breaker)
  /\ pc' = [pc EXCEPT ![c] = "refused"]
  /\ breaker' = [breaker EXCEPT !.elapsed = 0]
  /\ UNCHANGED <<heard, letInBy, lost>>

Refuse(c) ==
  /\ ~UnderWay(c) /\ ~MayCall(breaker)
  /\ pc' = [pc EXCEPT ![c] = "refused"]
  /\ UNCHANGED <<breaker, heard, letInBy, lost>>

SucceedSilently(c) ==   \* mutant: only a first load records its success
  /\ UnderWay(c)
  /\ Step(c, "idle", IF pc[c] = "reloading" THEN breaker ELSE RecordSuccess(breaker),
          IF pc[c] = "reloading" THEN <<>> ELSE <<TRUE>>)
  /\ lost' = (lost /\ RecordSuccess(breaker).state # CLOSED)
  /\ UNCHANGED letInBy

Succeed(c) ==
  /\ UnderWay(c)
  /\ Step(c, "idle", RecordSuccess(breaker), <<TRUE>>)
  /\ lost' = (lost /\ breaker'.state # CLOSED)
  /\ UNCHANGED letInBy

Fail(c) ==
  /\ pc[c] = "calling"
  /\ Step(c, "idle", RecordFailure(breaker), <<FALSE>>)
  /\ lost' = TRUE
  /\ UNCHANGED letInBy

\* L2: the load overran its token budget; record it, then reload pruned.
FailAndReload(c) ==
  /\ pc[c] = "calling"
  /\ Step(c, "reloading", RecordFailure(breaker), <<FALSE>>)
  /\ UNCHANGED <<letInBy, lost>>

\* The work ends without an outcome being recorded: an unregistered skill at L2,
\* a reload that raises, an exception out of the executor at L3.
Abandon(c) ==
  /\ UnderWay(c)
  /\ pc' = [pc EXCEPT ![c] = "idle"]
  /\ lost' = (lost \/ pc[c] = "reloading")
  /\ UNCHANGED <<breaker, heard, letInBy>>

Tick ==
  /\ breaker.elapsed < RecoveryTimeout
  /\ breaker' = Aged(breaker)
  /\ UNCHANGED <<pc, heard, letInBy, lost>>

Next ==
  \/ \E c \in Callers :
       \/ Admit(c) \/ Refuse(c)
       \/ Succeed(c) \/ Fail(c) \/ FailAndReload(c) \/ Abandon(c)
  \/ Tick

\* Time passes whatever the callers do.
Spec == Init /\ [][Next]_vars /\ WF_vars(Tick)

-----------------------------------------------------------------------------
(* Properties *)

\* The counters say what the state says: a closed breaker is below the failure
\* threshold, an open or trial one has reached it, and a trial is short of its
\* successes.  record_failure relies on it to reopen a trial on one failure,
\* because it tests only the counter.
CountersAgree ==
  /\ breaker.state = CLOSED <=> breaker.failure_count < FailureThreshold
  /\ breaker.state = HALF_OPEN => breaker.success_count < SuccessThreshold

\* An open breaker does not stay shut because calls admitted before it opened keep
\* failing late: each late failure restarts the recovery window, but no new call is
\* admitted to fail, so the window ends.
WindowEnds == breaker.state = OPEN ~> (breaker.state # OPEN \/ WindowElapsed(breaker))

Reloading == {c \in Callers : pc[c] = "reloading"}

\* engine.py records an overrun as a failure at once and the recovery from it as a success
\* only after the pruned reload.  As long as every failure is followed by its caller's own
\* recovery, what takes a skill's loader out of service is a pile-up: as many requests in
\* their reload at once as it takes failures, in whatever order outcomes are recorded.
OnlyAPileUpTrips ==
  [][breaker.state = CLOSED /\ breaker'.state # CLOSED /\ ~lost'
       => Cardinality(Reloading') >= FailureThreshold]_vars

\* The breaker with its two counters and its timestamp implements the contract
\* that is stated over the outcomes it has heard.
Contract == INSTANCE BreakerContract WITH
  phase    <- CASE breaker.state = CLOSED -> "serving"
                [] breaker.state = OPEN -> "resting"
                [] breaker.state = HALF_OPEN -> "probing",
  rest     <- breaker.elapsed,
  admitted <- {c \in Callers : UnderWay(c)}

ImplementsContract == Contract!ContractSpec

-----------------------------------------------------------------------------
(* Claims of the repository that the code does not keep: see the README. *)

\* circuit_breaker.py:6 calls HALF_OPEN a "trial run to probe recovery": the success
\* that closes the breaker again comes from a call admitted by the trial.
ClosedByATrialCall ==
  [][\A c \in Callers :
       (breaker.state = HALF_OPEN /\ breaker'.state = CLOSED /\ UnderWay(c) /\ ~UnderWay(c)')
         => letInBy[c] = HALF_OPEN]_vars
=============================================================================
