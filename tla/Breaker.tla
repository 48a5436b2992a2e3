------------------------------ MODULE Breaker ------------------------------
(***************************************************************************)
(* The CircuitBreaker object of src/src/execution/circuit_breaker.py as    *)
(* operators on its BreakerStats record.  Every method body runs under the *)
(* breaker's own lock, so each is one indivisible function of the record.  *)
(*                                                                         *)
(* Two bounds keep the record finite, and neither is observable:           *)
(*  - elapsed stands for time.monotonic() - last_failure_time; the code    *)
(*    only compares it with the recovery timeout, so it stops there;       *)
(*  - failure_count keeps growing in the code while late failures arrive;  *)
(*    it is only compared with the threshold, so it stops at CountCap.     *)
(***************************************************************************)
EXTENDS Naturals

CONSTANTS FailureThreshold,  \* failures in a row that open the breaker
          SuccessThreshold,  \* trial successes that close it again
          RecoveryTimeout,   \* clock ticks an open breaker refuses calls
          CountCap           \* where the model stops counting failures

ASSUME BreakerAssumption ==
  /\ FailureThreshold \in Nat \ {0}
  /\ SuccessThreshold \in Nat \ {0}
  /\ RecoveryTimeout \in Nat \ {0}
  /\ CountCap \in Nat /\ CountCap >= FailureThreshold

CLOSED    == "closed"
OPEN      == "open"
HALF_OPEN == "half_open"

BreakerState == {CLOSED, OPEN, HALF_OPEN}

BreakerStats ==
  [state         : BreakerState,
   failure_count : 0..CountCap,
   success_count : 0..SuccessThreshold,
   elapsed       : 0..RecoveryTimeout]

NewStats ==
  [state |-> CLOSED, failure_count |-> 0, success_count |-> 0,
   elapsed |-> RecoveryTimeout]

UpTo(cap, n) == IF n < cap THEN n ELSE cap

\* One tick of the clock as the breaker sees it.
Aged(b) == [b EXCEPT !.elapsed = UpTo(RecoveryTimeout, @ + 1)]

WindowElapsed(b) == b.elapsed >= RecoveryTimeout

\* The boolean call_allowed returns ...
MayCall(b) == b.state = OPEN => WindowElapsed(b)

\* ... and the record it leaves: the first caller after the window starts the trial.
CallAllowedKeepsCount(b) ==   \* mutant: the trial inherits the last trial's successes
  IF b.state = OPEN /\ WindowElapsed(b) THEN [b EXCEPT !.state = HALF_OPEN] ELSE b

CallAllowed(b) ==
  IF b.state = OPEN /\ WindowElapsed(b)
    THEN [b EXCEPT !.state = HALF_OPEN, !.success_count = 0]
    ELSE b

RecordSuccessKeepsFailures(b) ==   \* mutant: closing does not clear the failures
  IF b.state = HALF_OPEN
    THEN [b EXCEPT !.success_count = @ + 1,
                   !.state = IF @ = HALF_OPEN /\ b.success_count + 1 >= SuccessThreshold
                               THEN CLOSED ELSE @]
    ELSE IF b.state = CLOSED THEN [b EXCEPT !.failure_count = 0] ELSE b

RecordSuccessOneTooMany(b) ==   \* mutant: > for >=
  IF b.state = HALF_OPEN
    THEN IF b.success_count + 1 > SuccessThreshold
           THEN [b EXCEPT !.state = CLOSED, !.failure_count = 0]
           ELSE [b EXCEPT !.success_count = @ + 1]
    ELSE IF b.state = CLOSED THEN [b EXCEPT !.failure_count = 0] ELSE b

RecordSuccess(b) ==
  IF b.state = HALF_OPEN
    THEN IF b.success_count + 1 >= SuccessThreshold
           THEN [b EXCEPT !.state = CLOSED, !.failure_count = 0,
                          !.success_count = @ + 1]
           ELSE [b EXCEPT !.success_count = @ + 1]
    ELSE IF b.state = CLOSED THEN [b EXCEPT !.failure_count = 0] ELSE b

RecordFailure(b) ==
  LET n == UpTo(CountCap, b.failure_count + 1)
  IN  [b EXCEPT !.failure_count = n, !.elapsed = 0,
                !.state = IF n >= FailureThreshold THEN OPEN ELSE @]
=============================================================================
