------------------------ MODULE CircuitBreakerProofs ------------------------
(***************************************************************************)
(* CircuitBreaker's type invariant and CountersAgree, for every set of     *)
(* callers and every value of the thresholds.  The two are inductive       *)
(* together: success_count stays in its range only because a trial is      *)
(* short of its successes, which is what CountersAgree says.  On top of    *)
(* them OnlyAPileUpTrips, for any number of callers, and the refinement of *)
(* BreakerContract: the counters are shown to be what the contract reads   *)
(* off the outcomes it heard.                                              *)
(***************************************************************************)
EXTENDS CircuitBreaker, SequenceTheorems, FiniteSetTheorems, TLAPS

\* What the operations keep of one breaker record.
Consistent(b) ==
  /\ b \in BreakerStats
  /\ b.state = CLOSED <=> b.failure_count < FailureThreshold
  /\ b.state = HALF_OPEN => b.success_count < SuccessThreshold

\* A new breaker is consistent.
LEMMA NewConsistent == Consistent(NewStats)
  BY BreakerAssumption
  DEF Consistent, BreakerStats, NewStats, BreakerState, CLOSED, OPEN, HALF_OPEN

\* Time passing keeps the record consistent.
LEMMA AgedConsistent ==
  ASSUME NEW b, Consistent(b) PROVE Consistent(Aged(b))
  BY BreakerAssumption DEF Consistent, BreakerStats, Aged, UpTo

\* call_allowed keeps it: leaving OPEN resets the count of trial successes.
LEMMA CallAllowedConsistent ==
  ASSUME NEW b, Consistent(b) PROVE Consistent(CallAllowed(b))
<1>1. CASE b.state = OPEN /\ WindowElapsed(b)
  <2> DEFINE r == [b EXCEPT !.state = HALF_OPEN, !.success_count = 0]
  <2>1. CallAllowed(b) = r
    BY <1>1 DEF CallAllowed
  <2>2. 0 \in 0..SuccessThreshold /\ HALF_OPEN \in BreakerState /\ 0 < SuccessThreshold
    BY BreakerAssumption DEF BreakerState
  <2>3. r \in BreakerStats
    BY <2>2 DEF Consistent, BreakerStats
  <2>4. r.state = HALF_OPEN /\ r.failure_count = b.failure_count /\ r.success_count = 0
    BY DEF Consistent, BreakerStats
  <2> HIDE DEF r
  <2> QED
    BY <1>1, <2>1, <2>2, <2>3, <2>4 DEF Consistent, CLOSED, OPEN, HALF_OPEN
<1>2. CASE ~(b.state = OPEN /\ WindowElapsed(b))
  BY <1>2 DEF CallAllowed
<1> QED
  BY <1>1, <1>2

\* record_success keeps it: the last success a trial needs resets both counters.
LEMMA RecordSuccessConsistent ==
  ASSUME NEW b, Consistent(b) PROVE Consistent(RecordSuccess(b))
<1> DEFINE n == b.success_count + 1
<1>0. b.state \in BreakerState /\ b.success_count \in 0..SuccessThreshold
  BY DEF Consistent, BreakerStats
<1>1. CASE b.state = HALF_OPEN /\ n >= SuccessThreshold
  <2> DEFINE r == [b EXCEPT !.state = CLOSED, !.failure_count = 0, !.success_count = n]
  <2>1. RecordSuccess(b) = r
    BY <1>1 DEF RecordSuccess
  <2>2. 0 \in 0..CountCap /\ n \in 0..SuccessThreshold /\ CLOSED \in BreakerState
    BY <1>0, <1>1, BreakerAssumption DEF BreakerState, Consistent
  <2>3. r \in BreakerStats
    BY <2>2 DEF Consistent, BreakerStats
  <2>4. r.state = CLOSED /\ r.failure_count = 0
    BY DEF Consistent, BreakerStats
  <2> HIDE DEF r
  <2> QED
    BY <2>1, <2>3, <2>4, BreakerAssumption DEF Consistent, CLOSED, HALF_OPEN
<1>2. CASE b.state = HALF_OPEN /\ ~(n >= SuccessThreshold)
  BY <1>0, <1>2, BreakerAssumption
  DEF RecordSuccess, Consistent, BreakerStats, CLOSED, HALF_OPEN
<1>3. CASE b.state = CLOSED
  BY <1>3, BreakerAssumption DEF RecordSuccess, Consistent, BreakerStats, CLOSED, HALF_OPEN
<1>4. CASE b.state = OPEN
  BY <1>4 DEF RecordSuccess, CLOSED, OPEN, HALF_OPEN
<1> QED
  BY <1>0, <1>1, <1>2, <1>3, <1>4 DEF BreakerState

\* record_failure keeps it: reaching the threshold and opening are one step.
LEMMA RecordFailureConsistent ==
  ASSUME NEW b, Consistent(b) PROVE Consistent(RecordFailure(b))
<1> DEFINE n == UpTo(CountCap, b.failure_count + 1)
           st == IF n >= FailureThreshold THEN OPEN ELSE b.state
           r == [b EXCEPT !.failure_count = n, !.elapsed = 0, !.state = st]
<1>0. b \in BreakerStats /\ b.state \in BreakerState /\ b.failure_count \in 0..CountCap
  BY DEF Consistent, BreakerStats
<1>1. RecordFailure(b) = r
  BY <1>0 DEF RecordFailure, BreakerStats
<1>2. n \in 0..CountCap /\ 0 \in 0..RecoveryTimeout /\ st \in BreakerState
  BY <1>0, BreakerAssumption DEF UpTo, BreakerState
<1>3. r \in BreakerStats
  BY <1>0, <1>2 DEF BreakerStats
<1>4. r.state = st /\ r.failure_count = n /\ r.success_count = b.success_count
  BY <1>0 DEF BreakerStats
<1>5. st = CLOSED <=> n < FailureThreshold
  BY <1>0, BreakerAssumption DEF Consistent, UpTo, CLOSED, OPEN
<1>6. st = HALF_OPEN => b.success_count < SuccessThreshold
  BY DEF Consistent, OPEN, HALF_OPEN
<1> HIDE DEF n, st, r
<1> QED
  BY <1>1, <1>3, <1>4, <1>5, <1>6 DEF Consistent

\* The history keeps only reported outcomes.
LEMMA NewestType ==
  ASSUME NEW s \in Seq(BOOLEAN) PROVE Newest(s) \in Seq(BOOLEAN)
<1>1. Len(s) \in Nat
  OBVIOUS
<1>2. HistorySize \in Nat \ {0}
  BY BreakerAssumption DEF HistorySize
<1>3. \A m \in 1..Len(s)+1 : SubSeq(s, m, Len(s)) \in Seq(BOOLEAN)
  BY <1>1, SubSeqProperties
<1> QED
  BY <1>1, <1>2, <1>3 DEF Newest

IInv == TypeOK /\ CountersAgree

\* A step of a caller through Step keeps the invariant when the record it leaves
\* is consistent.
LEMMA StepKeepsInv ==
  ASSUME IInv, NEW c \in Callers, NEW p \in Phase, NEW b, Consistent(b),
         NEW oks \in Seq(BOOLEAN), Step(c, p, b, oks)
  PROVE  /\ breaker' \in BreakerStats /\ pc' \in [Callers -> Phase]
         /\ heard' \in Seq(BOOLEAN) /\ CountersAgree'
<1>1. heard \o oks \in Seq(BOOLEAN)
  BY DEF IInv, TypeOK
<1>2. Newest(heard \o oks) \in Seq(BOOLEAN)
  BY <1>1, NewestType
<1>0. <<>> \in Seq(BOOLEAN)
  OBVIOUS
<1>3. heard' \in Seq(BOOLEAN)
  BY <1>0, <1>2, Zenon DEF Step
<1>4. pc' \in [Callers -> Phase]
  BY DEF Step, IInv, TypeOK
<1> QED
  BY <1>3, <1>4 DEF Step, CountersAgree, Consistent

\* The initial state satisfies the invariant.
LEMMA InitInv == Init => IInv
<1>1. Init => heard \in Seq(BOOLEAN)
  BY DEF Init
<1>4. Init => lost \in BOOLEAN
  BY Zenon DEF Init
<1>2. Init => CountersAgree /\ breaker \in BreakerStats
  BY NewConsistent DEF Init, CountersAgree, Consistent
<1>3. Init => pc \in [Callers -> Phase] /\ letInBy \in [Callers -> BreakerState]
  BY DEF Init, Phase, BreakerState
<1> QED
  BY <1>1, <1>2, <1>3, <1>4, Zenon DEF IInv, TypeOK

\* Every step keeps it.
LEMMA NextInv == IInv /\ [Next]_vars => IInv'
<1> SUFFICES ASSUME IInv, [Next]_vars PROVE IInv'
  OBVIOUS
<1> USE DEF IInv
<1>0. Consistent(breaker)
  BY DEF TypeOK, CountersAgree, Consistent
<1>p. {"idle", "refused", "calling", "reloading"} \subseteq Phase
  BY DEF Phase
<1>q. <<>> \in Seq(BOOLEAN) /\ <<TRUE>> \in Seq(BOOLEAN) /\ <<FALSE>> \in Seq(BOOLEAN)
  OBVIOUS
<1>1. ASSUME NEW c \in Callers, Admit(c) PROVE IInv'
  <2>1. Consistent(CallAllowed(breaker))
    BY <1>0, CallAllowedConsistent
  <2>2. /\ breaker' \in BreakerStats /\ pc' \in [Callers -> Phase]
        /\ heard' \in Seq(BOOLEAN) /\ CountersAgree'
    BY <1>1, <1>p, <1>q, <2>1, StepKeepsInv DEF Admit
  <2>3. letInBy' \in [Callers -> BreakerState]
    BY <1>1, <2>2 DEF Admit, TypeOK, BreakerStats
  <2>4. lost' \in BOOLEAN
    BY <1>1, Zenon DEF Admit, TypeOK
  <2> QED
    BY <2>2, <2>3, <2>4, Zenon DEF TypeOK
<1>2. ASSUME NEW c \in Callers, Refuse(c) PROVE IInv'
  BY <1>2 DEF Refuse, TypeOK, CountersAgree, Phase
<1>3. ASSUME NEW c \in Callers, Succeed(c) PROVE IInv'
  <2>1. Consistent(RecordSuccess(breaker))
    BY <1>0, RecordSuccessConsistent
  <2> QED
    BY <1>3, <1>p, <1>q, <2>1, StepKeepsInv DEF Succeed, TypeOK
<1>4. ASSUME NEW c \in Callers, Fail(c) \/ FailAndReload(c) PROVE IInv'
  <2>1. Consistent(RecordFailure(breaker))
    BY <1>0, RecordFailureConsistent
  <2> QED
    BY <1>4, <1>p, <1>q, <2>1, StepKeepsInv DEF Fail, FailAndReload, TypeOK
<1>5. ASSUME NEW c \in Callers, Abandon(c) PROVE IInv'
  BY <1>5 DEF Abandon, TypeOK, CountersAgree, Phase
<1>6. CASE Tick
  <2>1. Consistent(Aged(breaker))
    BY <1>0, AgedConsistent
  <2> QED
    BY <1>6, <2>1 DEF Tick, TypeOK, CountersAgree, Consistent
<1>7. CASE UNCHANGED vars
  BY <1>7 DEF vars, TypeOK, CountersAgree
<1> QED
  BY <1>1, <1>2, <1>3, <1>4, <1>5, <1>6, <1>7 DEF Next

\* The breaker's record, the callers and the history always have their types:
\* in particular success_count never passes the success threshold.
THEOREM TypeCorrect == Spec => []TypeOK
<1>1. IInv => TypeOK
  BY DEF IInv
<1> QED
  BY InitInv, NextInv, <1>1, PTL DEF Spec

\* The state of the breaker and its counters never disagree (CountersAgree), so
\* one failure in a trial reopens the breaker whatever its thresholds are.
THEOREM CountersCorrect == Spec => []CountersAgree
<1>1. IInv => CountersAgree
  BY DEF IInv
<1> QED
  BY InitInv, NextInv, <1>1, PTL DEF Spec

-----------------------------------------------------------------------------
\* While no failure is lost, each one that a closed breaker counts is an overrun whose reload
\* is still to succeed.  Only finitely many callers have begun to reload, however many there
\* are.
CountedAreReloading ==
  /\ IsFiniteSet(Reloading)
  /\ ~lost /\ breaker.state = CLOSED => breaker.failure_count <= Cardinality(Reloading)

\* A caller that begins to reload is one more, and one that does anything else is none.
LEMMA ReloadingMoves ==
  ASSUME TypeOK, NEW c \in Callers, NEW p \in Phase, pc' = [pc EXCEPT ![c] = p]
  PROVE  Reloading' = IF p = "reloading" THEN Reloading \cup {c} ELSE Reloading \ {c}
  BY DEF TypeOK, Reloading

\* Initially nothing is counted.
LEMMA InitCounted == Init => CountedAreReloading
<1> SUFFICES ASSUME Init PROVE CountedAreReloading
  OBVIOUS
<1>1. Reloading = {}
  BY DEF Init, Reloading
<1>2. IsFiniteSet(Reloading) /\ Cardinality(Reloading) = 0
  BY <1>1, FS_EmptySet
<1>3. breaker.failure_count = 0
  BY DEF Init, NewStats
<1> QED
  BY <1>2, <1>3 DEF CountedAreReloading

\* Every step keeps the count within the callers that reload, and the one that opens the
\* breaker is of as many of them as its threshold.
LEMMA NextCounted ==
  IInv /\ CountedAreReloading /\ [Next]_vars =>
    /\ CountedAreReloading'
    /\ breaker.state = CLOSED /\ breaker'.state # CLOSED /\ ~lost'
         => Cardinality(Reloading') >= FailureThreshold
<1> DEFINE Opens == breaker.state = CLOSED /\ breaker'.state # CLOSED
           Goal == /\ CountedAreReloading'
                   /\ Opens /\ ~lost' => Cardinality(Reloading') >= FailureThreshold
<1> SUFFICES ASSUME IInv, CountedAreReloading, [Next]_vars PROVE Goal
  OBVIOUS
<1> USE DEF IInv
<1>b. IsFiniteSet(Reloading) /\ Cardinality(Reloading) \in Nat
  BY FS_CardinalityType DEF CountedAreReloading
<1>c. breaker \in BreakerStats /\ breaker.failure_count \in 0..CountCap
  BY DEF TypeOK, BreakerStats
<1>p. {"idle", "refused", "calling", "reloading"} \subseteq Phase
  BY DEF Phase
<1>d. \A c : IsFiniteSet(Reloading \ {c})
  BY <1>b, FS_Difference
<1>1. ASSUME NEW c \in Callers, Admit(c) PROVE Goal
  <2>1. breaker' = CallAllowed(breaker) /\ lost' = lost /\ pc' = [pc EXCEPT ![c] = "calling"]
        /\ ~UnderWay(c)
    BY <1>1 DEF Admit, Step
  <2>2. Reloading' = Reloading \ {c} /\ c \notin Reloading
    BY <1>p, <2>1, ReloadingMoves DEF Reloading, UnderWay
  <2>3. Reloading' = Reloading
    BY <2>2
  <2>4. breaker.state = CLOSED => breaker' = breaker
    BY <2>1 DEF CallAllowed, CLOSED, OPEN
  <2>5. breaker'.state = CLOSED => breaker.state = CLOSED
    BY <1>c, <2>1 DEF CallAllowed, BreakerStats, CLOSED, HALF_OPEN
  <2> QED
    BY <1>b, <2>1, <2>3, <2>4, <2>5 DEF CountedAreReloading
<1>2. ASSUME NEW c \in Callers, Refuse(c) PROVE Goal
  <2>1. /\ pc' = [pc EXCEPT ![c] = "refused"] /\ ~UnderWay(c) /\ breaker' = breaker
        /\ lost' = lost
    BY <1>2 DEF Refuse
  <2>2. Reloading' = Reloading \ {c} /\ c \notin Reloading
    BY <1>p, <2>1, ReloadingMoves DEF Reloading, UnderWay
  <2>3. Reloading' = Reloading
    BY <2>2
  <2> QED
    BY <1>b, <2>1, <2>3 DEF CountedAreReloading
<1>3. ASSUME NEW c \in Callers, Succeed(c) PROVE Goal
  <2>1. breaker' = RecordSuccess(breaker) /\ pc' = [pc EXCEPT ![c] = "idle"]
    BY <1>3 DEF Succeed, Step
  <2>2. IsFiniteSet(Reloading') /\ Cardinality(Reloading') \in Nat
    BY <1>p, <1>d, <2>1, ReloadingMoves, FS_CardinalityType
  <2>3. breaker'.state = CLOSED => breaker'.failure_count = 0
    BY <1>c, <2>1
    DEF RecordSuccess, BreakerStats, BreakerState, CLOSED, OPEN, HALF_OPEN
  <2>4. ~Opens
    BY <1>c, <2>1 DEF RecordSuccess, BreakerStats, CLOSED, HALF_OPEN
  <2> QED
    BY <2>2, <2>3, <2>4 DEF CountedAreReloading
<1>4. ASSUME NEW c \in Callers, Fail(c) PROVE Goal
  <2>1. lost' /\ pc' = [pc EXCEPT ![c] = "idle"]
    BY <1>4 DEF Fail, Step
  <2>2. IsFiniteSet(Reloading')
    BY <1>p, <1>d, <2>1, ReloadingMoves
  <2> QED
    BY <2>1, <2>2 DEF CountedAreReloading
<1>5. ASSUME NEW c \in Callers, FailAndReload(c) PROVE Goal
  <2>1. /\ breaker' = RecordFailure(breaker) /\ lost' = lost /\ pc[c] = "calling"
        /\ pc' = [pc EXCEPT ![c] = "reloading"]
    BY <1>5 DEF FailAndReload, Step
  <2>2. c \notin Reloading /\ Reloading' = Reloading \cup {c}
    BY <1>p, <2>1, ReloadingMoves DEF Reloading
  <2>3. IsFiniteSet(Reloading') /\ Cardinality(Reloading') = Cardinality(Reloading) + 1
    BY <1>b, <2>2, FS_AddElement
  <2> DEFINE n == UpTo(CountCap, breaker.failure_count + 1)
  <2>4. /\ breaker'.failure_count = n
        /\ breaker'.state = IF n >= FailureThreshold THEN OPEN ELSE breaker.state
    BY <1>c, <2>1 DEF RecordFailure, BreakerStats
  <2>5. n <= breaker.failure_count + 1 /\ n \in Nat
    BY <1>c, BreakerAssumption DEF UpTo
  <2> HIDE DEF n
  <2>6. ~lost /\ breaker.state = CLOSED => n <= Cardinality(Reloading')
    BY <1>b, <1>c, <2>3, <2>5 DEF CountedAreReloading
  <2>7. breaker'.state = CLOSED => breaker.state = CLOSED
    BY <2>4 DEF CLOSED, OPEN
  <2>8. Opens => n >= FailureThreshold
    BY <2>4
  <2>9. Opens /\ ~lost' => Cardinality(Reloading') >= FailureThreshold
    BY <1>b, <2>1, <2>3, <2>5, <2>6, <2>8, BreakerAssumption
  <2> QED
    BY <2>1, <2>3, <2>4, <2>6, <2>7, <2>9 DEF CountedAreReloading
<1>6. ASSUME NEW c \in Callers, Abandon(c) PROVE Goal
  <2>1. /\ pc' = [pc EXCEPT ![c] = "idle"] /\ breaker' = breaker
        /\ lost' = (lost \/ pc[c] = "reloading")
    BY <1>6 DEF Abandon
  <2>2. Reloading' = Reloading \ {c} /\ IsFiniteSet(Reloading')
    BY <1>p, <1>d, <2>1, ReloadingMoves
  <2>3. ~lost' => ~lost /\ c \notin Reloading
    BY <2>1 DEF Reloading
  <2>4. ~lost' => Reloading' = Reloading
    BY <2>2, <2>3
  <2> QED
    BY <2>1, <2>2, <2>3, <2>4 DEF CountedAreReloading
<1>7. CASE Tick
  <2>1. breaker'.state = breaker.state /\ breaker'.failure_count = breaker.failure_count
    BY <1>7, <1>c DEF Tick, Aged, BreakerStats
  <2>2. Reloading' = Reloading /\ lost' = lost
    BY <1>7 DEF Tick, Reloading
  <2> QED
    BY <2>1, <2>2 DEF CountedAreReloading
<1>8. CASE UNCHANGED vars
  BY <1>8 DEF vars, CountedAreReloading, Reloading
<1> QED
  BY <1>1, <1>2, <1>3, <1>4, <1>5, <1>6, <1>7, <1>8 DEF Next

\* As long as no failure is lost, a breaker opens only when as many callers as its threshold
\* are in their reload: for every threshold, however many callers there are, and in every
\* order of the outcomes.
THEOREM PileUpsTrip == Spec => OnlyAPileUpTrips
<1>1. IInv /\ CountedAreReloading /\ [Next]_vars =>
        [breaker.state = CLOSED /\ breaker'.state # CLOSED /\ ~lost'
           => Cardinality(Reloading') >= FailureThreshold]_vars
  BY NextCounted
<1>2. IInv /\ CountedAreReloading /\ [Next]_vars => CountedAreReloading'
  BY NextCounted
<1> QED
  BY InitInv, NextInv, InitCounted, <1>1, <1>2, PTL DEF Spec, OnlyAPileUpTrips

-----------------------------------------------------------------------------
(* The refinement of BreakerContract *)

\* The last n outcomes of h are failures, and the one before them is not.
Trailing(h, n) ==
  /\ n \in 0..Len(h)
  /\ \A i \in (Len(h) - n + 1)..Len(h) : h[i] = FALSE
  /\ n < Len(h) => h[Len(h) - n] = TRUE

\* The history is long enough for both thresholds, and is the contract's memory.
LEMMA HistoryIsLongEnough ==
  /\ HistorySize \in Nat /\ Contract!Memory = HistorySize
  /\ FailureThreshold <= HistorySize /\ SuccessThreshold <= HistorySize
  BY BreakerAssumption DEF HistorySize, Contract!Memory

\* Keeping the newest outcomes drops the oldest one of a history that is one too long.
LEMMA NewestOutcomes ==
  ASSUME NEW h \in Seq(BOOLEAN), Len(h) <= HistorySize + 1
  PROVE  /\ Newest(h) \in Seq(BOOLEAN)
         /\ Len(h) <= HistorySize => Newest(h) = h
         /\ Len(h) > HistorySize =>
              /\ Len(Newest(h)) = HistorySize
              /\ \A i \in 1..HistorySize : Newest(h)[i] = h[i + 1]
<1>1. Len(h) \in Nat /\ HistorySize \in Nat
  BY HistoryIsLongEnough
<1>2. CASE Len(h) <= HistorySize
  <2>0. ~(Len(h) > HistorySize)
    BY <1>1, <1>2
  <2>1. Newest(h) = SubSeq(h, 1, Len(h))
    BY <2>0, Zenon DEF Newest
  <2>2. SubSeq(h, 1, Len(h)) = h
    BY SubSeqFull
  <2>3. Newest(h) = h
    BY <2>1, <2>2, Zenon
  <2> QED
    BY <2>0, <2>3, Zenon
<1>3. CASE Len(h) = HistorySize + 1
  <2>1. Newest(h) = SubSeq(h, 2, Len(h))
    BY <1>1, <1>3 DEF Newest
  <2>2. \A i \in 2..Len(h) : h[i] \in BOOLEAN
    BY <1>1
  <2>3. /\ SubSeq(h, 2, Len(h)) \in Seq(BOOLEAN)
        /\ Len(SubSeq(h, 2, Len(h))) = IF 2 <= Len(h) THEN Len(h) - 2 + 1 ELSE 0
        /\ \A i \in 1..Len(h) - 2 + 1 : SubSeq(h, 2, Len(h))[i] = h[2 + i - 1]
    BY <1>1, <2>2, SubSeqProperties
  <2>4. /\ Newest(h) \in Seq(BOOLEAN)
        /\ Len(Newest(h)) = HistorySize
    BY <1>1, <1>3, <2>1, <2>3
  <2>5. ASSUME NEW i \in 1..HistorySize PROVE Newest(h)[i] = h[i + 1]
    <3>1. i \in 1..Len(h) - 2 + 1 /\ 2 + i - 1 = i + 1
      BY <1>1, <1>3
    <3> QED
      BY <2>1, <2>3, <3>1
  <2> QED
    BY <1>1, <1>3, <2>4, <2>5
<1> QED
  BY <1>1, <1>2, <1>3

\* The contract's run of n failures, index by index.
LEMMA RunOfFailures ==
  ASSUME NEW h \in Seq(BOOLEAN), NEW n \in Nat \ {0}
  PROVE  Contract!RunOf(h, n, FALSE) <=>
           Len(h) >= n /\ \A i \in (Len(h) - n + 1)..Len(h) : h[i] = FALSE
<1> DEFINE m == IF Len(h) > n THEN Len(h) - n + 1 ELSE 1
           t == SubSeq(h, m, Len(h))
<1>1. Len(h) \in Nat /\ m \in 1..Len(h) + 1
  OBVIOUS
<1>2. CASE Len(h) >= n
  <2>1. m = Len(h) - n + 1
    BY <1>1, <1>2
  <2>2. \A i \in m..Len(h) : h[i] \in BOOLEAN
    BY <1>1
  <2>3. /\ t \in Seq(BOOLEAN)
        /\ Len(t) = IF m <= Len(h) THEN Len(h) - m + 1 ELSE 0
        /\ \A i \in 1..Len(h) - m + 1 : t[i] = h[m + i - 1]
    BY <1>1, <2>2, SubSeqProperties
  <2>4. Len(h) - m + 1 = n
    BY <1>1, <1>2, <2>1
  <2>5. t \in Seq(BOOLEAN) /\ Len(t) = n /\ \A i \in 1..n : t[i] = h[m + i - 1]
    BY <1>1, <1>2, <2>1, <2>3, <2>4
  <2>6. DOMAIN t = 1..n
    BY <2>5, LenProperties
  <2>7. Contract!RunOf(h, n, FALSE) <=> {t[i] : i \in 1..n} = {FALSE}
    BY <1>2, <2>6 DEF Contract!RunOf, Contract!LastOf, Contract!Range
  <2>8. {t[i] : i \in 1..n} = {FALSE} <=> \A i \in 1..n : t[i] = FALSE
    <3>1. 1 \in 1..n
      OBVIOUS
    <3> HIDE DEF t
    <3> QED
      BY <3>1
  <2>9. (\A i \in 1..n : t[i] = FALSE) <=> (\A i \in m..Len(h) : h[i] = FALSE)
    <3>1. ASSUME \A i \in 1..n : t[i] = FALSE, NEW i \in m..Len(h) PROVE h[i] = FALSE
      <4>1. i - m + 1 \in 1..n /\ m + (i - m + 1) - 1 = i
        BY <1>1, <2>4
      <4> QED
        BY <2>5, <3>1, <4>1
    <3>2. ASSUME \A i \in m..Len(h) : h[i] = FALSE, NEW i \in 1..n PROVE t[i] = FALSE
      <4>1. m + i - 1 \in m..Len(h)
        BY <1>1, <2>4
      <4> QED
        BY <2>5, <3>2, <4>1
    <3> QED
      BY <3>1, <3>2
  <2> QED
    BY <1>2, <2>1, <2>7, <2>8, <2>9
<1>3. CASE ~(Len(h) >= n)
  BY <1>3 DEF Contract!RunOf
<1> QED
  BY <1>2, <1>3

-----------------------------------------------------------------------------
\* A failure makes the trailing run one longer, a success ends it.
LEMMA OutcomeTrails ==
  ASSUME NEW h \in Seq(BOOLEAN)
  PROVE  /\ \A n : Trailing(h, n) => Trailing(h \o <<FALSE>>, n + 1)
         /\ Trailing(h \o <<TRUE>>, 0)
<1>1. ASSUME NEW ok \in BOOLEAN
      PROVE  /\ h \o <<ok>> \in Seq(BOOLEAN) /\ Len(h \o <<ok>>) = Len(h) + 1
             /\ (h \o <<ok>>)[Len(h) + 1] = ok
             /\ \A i \in 1..Len(h) : (h \o <<ok>>)[i] = h[i]
  OBVIOUS
<1>2. Len(h) \in Nat
  OBVIOUS
<1>3. ASSUME NEW n, Trailing(h, n) PROVE Trailing(h \o <<FALSE>>, n + 1)
  <2> DEFINE g == h \o <<FALSE>>
  <2>1. Len(g) = Len(h) + 1 /\ g[Len(h) + 1] = FALSE /\ \A i \in 1..Len(h) : g[i] = h[i]
    BY <1>1
  <2>2. n \in 0..Len(h) /\ n + 1 \in 0..Len(g)
    BY <1>2, <1>3, <2>1 DEF Trailing
  <2> HIDE DEF g
  <2>3. ASSUME NEW i \in (Len(g) - (n + 1) + 1)..Len(g) PROVE g[i] = FALSE
    <3>1. \A j \in (Len(h) - n + 1)..Len(h) : h[j] = FALSE
      BY <1>3 DEF Trailing
    <3>2. CASE i = Len(h) + 1
      BY <2>1, <3>2
    <3>3. CASE i # Len(h) + 1
      <4>1. i \in 1..Len(h) /\ i \in (Len(h) - n + 1)..Len(h)
        BY <1>2, <2>1, <2>2, <3>3
      <4> QED
        BY <2>1, <3>1, <4>1
    <3> QED
      BY <3>2, <3>3
  <2>4. n + 1 < Len(g) => g[Len(g) - (n + 1)] = TRUE
    BY <1>2, <1>3, <2>1, <2>2 DEF Trailing
  <2>5. Trailing(g, n + 1)
    BY <2>2, <2>3, <2>4 DEF Trailing
  <2> QED
    BY <2>5 DEF g
<1>4. Trailing(h \o <<TRUE>>, 0)
  <2> DEFINE g == h \o <<TRUE>>
  <2>1. Len(g) = Len(h) + 1 /\ g[Len(h) + 1] = TRUE
    BY <1>1
  <2> HIDE DEF g
  <2>2. Trailing(g, 0)
    BY <1>2, <2>1 DEF Trailing
  <2> QED
    BY <2>2 DEF g
<1> QED
  BY <1>3, <1>4

\* A run that fits in the history survives the drop of the oldest outcome.
LEMMA NewestTrails ==
  ASSUME NEW h \in Seq(BOOLEAN), Len(h) <= HistorySize + 1,
         NEW n, Trailing(h, n), n <= HistorySize
  PROVE  Trailing(Newest(h), n)
<1>1. Len(h) \in Nat /\ HistorySize \in Nat /\ n \in 0..Len(h)
  BY HistoryIsLongEnough DEF Trailing
<1>2. CASE Len(h) <= HistorySize
  BY <1>2, NewestOutcomes, Zenon
<1>3. CASE Len(h) > HistorySize
  <2> DEFINE g == Newest(h)
  <2>1. Len(g) = HistorySize /\ \A i \in 1..HistorySize : g[i] = h[i + 1]
    BY <1>3, NewestOutcomes
  <2>2. Len(h) = HistorySize + 1
    BY <1>1, <1>3
  <2> HIDE DEF g
  <2>3. ASSUME NEW i \in (Len(g) - n + 1)..Len(g) PROVE g[i] = FALSE
    <3>1. i \in 1..HistorySize /\ i + 1 \in (Len(h) - n + 1)..Len(h)
      BY <1>1, <2>1, <2>2
    <3> QED
      BY <2>1, <3>1 DEF Trailing
  <2>4. ASSUME n < Len(g) PROVE g[Len(g) - n] = TRUE
    <3>1. /\ Len(g) - n \in 1..HistorySize /\ n < Len(h)
          /\ (Len(g) - n) + 1 = Len(h) - n
      BY <1>1, <2>1, <2>2, <2>4
    <3>2. g[Len(g) - n] = h[(Len(g) - n) + 1]
      BY <2>1, <3>1
    <3> QED
      BY <3>1, <3>2 DEF Trailing
  <2>0. n \in 0..Len(g)
    BY <1>1, <2>1
  <2>5. Trailing(g, n)
    BY <2>0, <2>3, <2>4, Zenon DEF Trailing
  <2> QED
    BY <2>5 DEF g
<1> QED
  BY <1>1, <1>2, <1>3

\* The contract's test on the outcomes is the code's test on its counter.
LEMMA RunIsCount ==
  ASSUME NEW h \in Seq(BOOLEAN), NEW n, Trailing(h, n)
  PROVE  Contract!RunOf(h, FailureThreshold, FALSE) <=> n >= FailureThreshold
<1>1. Len(h) \in Nat /\ n \in 0..Len(h) /\ FailureThreshold \in Nat \ {0}
  BY BreakerAssumption DEF Trailing
<1>2. ASSUME n >= FailureThreshold
      PROVE  \A i \in (Len(h) - FailureThreshold + 1)..Len(h) : h[i] = FALSE
  BY <1>1, <1>2 DEF Trailing
<1>3. ASSUME n < FailureThreshold, Len(h) >= FailureThreshold
      PROVE  ~ \A i \in (Len(h) - FailureThreshold + 1)..Len(h) : h[i] = FALSE
  <2>1. h[Len(h) - n] = TRUE /\ Len(h) - n \in (Len(h) - FailureThreshold + 1)..Len(h)
    BY <1>1, <1>3 DEF Trailing
  <2> QED
    BY <2>1
<1>4. Contract!RunOf(h, FailureThreshold, FALSE) <=>
        /\ Len(h) >= FailureThreshold
        /\ \A i \in (Len(h) - FailureThreshold + 1)..Len(h) : h[i] = FALSE
  BY <1>1, RunOfFailures
<1>5. (n >= FailureThreshold \/ n < FailureThreshold) /\ ~(n >= FailureThreshold /\ n < FailureThreshold)
      /\ (n >= FailureThreshold => Len(h) >= FailureThreshold)
  BY <1>1
<1> QED
  BY <1>2, <1>3, <1>4, <1>5, Zenon

-----------------------------------------------------------------------------
\* The counters of record b tell what the outcomes h amount to.
Tell(b, h) ==
  /\ h \in Seq(BOOLEAN) /\ Len(h) <= HistorySize
  /\ b.state = CLOSED => Trailing(h, b.failure_count)
  /\ b.state = HALF_OPEN => Len(h) = b.success_count

\* The outcomes heard in the state of record r, once one more has been reported.
HeardBy(r, h, ok) == IF r.state = breaker.state THEN Newest(h \o <<ok>>) ELSE <<>>

CountersTell == Tell(breaker, heard)

\* The history with one more outcome.
LEMMA OneMore ==
  ASSUME CountersTell, NEW ok \in BOOLEAN
  PROVE  LET g == heard \o <<ok>>
         IN  /\ g \in Seq(BOOLEAN) /\ Len(g) = Len(heard) + 1 /\ Len(heard) \in Nat
             /\ Newest(g) \in Seq(BOOLEAN) /\ Len(Newest(g)) <= HistorySize
             /\ Len(g) <= HistorySize => Newest(g) = g
<1> DEFINE g == heard \o <<ok>>
<1>1. g \in Seq(BOOLEAN) /\ Len(g) = Len(heard) + 1 /\ Len(heard) \in Nat
      /\ Len(heard) <= HistorySize
  BY DEF CountersTell, Tell
<1>2. HistorySize \in Nat
  BY HistoryIsLongEnough
<1> HIDE DEF g
<1>3. Len(g) <= HistorySize + 1 /\ (Len(g) <= HistorySize \/ Len(g) > HistorySize)
  BY <1>1, <1>2
<1>4. Newest(g) \in Seq(BOOLEAN) /\ (Len(g) <= HistorySize => Newest(g) = g)
      /\ (Len(g) > HistorySize => Len(Newest(g)) = HistorySize)
  BY <1>1, <1>3, NewestOutcomes, Zenon
<1>5. Len(Newest(g)) <= HistorySize
  BY <1>2, <1>3, <1>4
<1> QED
  BY <1>1, <1>4, <1>5, Zenon DEF g

\* An empty history goes with counters that have just been reset.
LEMMA EmptyTells ==
  ASSUME NEW b, b.state = CLOSED => b.failure_count = 0,
         b.state = HALF_OPEN => b.success_count = 0
  PROVE  Tell(b, <<>>)
<1>1. <<>> \in Seq(BOOLEAN) /\ Len(<<>>) = 0 /\ HistorySize \in Nat
  BY HistoryIsLongEnough
<1>2. Trailing(<<>>, 0)
  BY DEF Trailing
<1> QED
  BY <1>1, <1>2 DEF Tell

\* record_success, seen from its counters and from the outcomes: the trial ends with
\* as many outcomes as its threshold, and no state is left otherwise.
LEMMA SuccessTells ==
  ASSUME Consistent(breaker), CountersTell
  PROVE  LET r == RecordSuccess(breaker)
         IN  /\ Tell(r, HeardBy(r, heard, TRUE))
             /\ r.elapsed = breaker.elapsed
             /\ breaker.state = HALF_OPEN =>
                  r.state = IF Len(heard \o <<TRUE>>) >= SuccessThreshold THEN CLOSED ELSE HALF_OPEN
             /\ breaker.state # HALF_OPEN => r.state = breaker.state
<1> DEFINE r == RecordSuccess(breaker)
           g == heard \o <<TRUE>>
<1>1. /\ g \in Seq(BOOLEAN) /\ Len(g) = Len(heard) + 1 /\ Len(heard) \in Nat
      /\ Newest(g) \in Seq(BOOLEAN) /\ Len(Newest(g)) <= HistorySize
      /\ Len(g) <= HistorySize => Newest(g) = g
  BY OneMore
<1>2. /\ breaker \in BreakerStats /\ breaker.state \in BreakerState
      /\ breaker.success_count \in 0..SuccessThreshold
      /\ HistorySize \in Nat /\ SuccessThreshold <= HistorySize /\ SuccessThreshold \in Nat \ {0}
  BY HistoryIsLongEnough, BreakerAssumption DEF Consistent, BreakerStats
<1>t. heard \in Seq(BOOLEAN) /\ Len(heard) <= HistorySize
  BY DEF CountersTell, Tell
<1>3. CASE breaker.state = HALF_OPEN
  <2>1. Len(heard) = breaker.success_count /\ breaker.success_count < SuccessThreshold
    BY <1>3 DEF CountersTell, Tell, Consistent
  <2>2. CASE breaker.success_count + 1 >= SuccessThreshold
    <3>1. r.state = CLOSED /\ r.failure_count = 0 /\ r.elapsed = breaker.elapsed
      BY <1>2, <1>3, <2>2 DEF RecordSuccess, BreakerStats
    <3>2. HeardBy(r, heard, TRUE) = <<>>
      BY <1>3, <3>1 DEF HeardBy, CLOSED, HALF_OPEN
    <3>3. Tell(r, <<>>)
      BY <3>1, EmptyTells DEF CLOSED, HALF_OPEN
    <3>4. Len(g) >= SuccessThreshold
      BY <1>1, <2>1, <2>2
    <3> QED
      BY <1>3, <3>1, <3>2, <3>3, <3>4
  <2>3. CASE ~(breaker.success_count + 1 >= SuccessThreshold)
    <3>1. r.state = HALF_OPEN /\ r.success_count = breaker.success_count + 1
          /\ r.elapsed = breaker.elapsed
      BY <1>2, <1>3, <2>3 DEF RecordSuccess, BreakerStats
    <3>2. HeardBy(r, heard, TRUE) = Newest(g)
      BY <1>3, <3>1 DEF HeardBy
    <3>3. ~(Len(g) >= SuccessThreshold) /\ Newest(g) = g
      BY <1>1, <1>2, <2>1, <2>3
    <3>4. Tell(r, g)
      BY <1>1, <2>1, <3>1, <3>3 DEF Tell, CLOSED, HALF_OPEN
    <3> QED
      BY <1>3, <3>1, <3>2, <3>3, <3>4
  <2> QED
    BY <2>2, <2>3
<1>4. CASE breaker.state = CLOSED
  <2>1. r.state = CLOSED /\ r.failure_count = 0 /\ r.elapsed = breaker.elapsed
    BY <1>2, <1>4 DEF RecordSuccess, BreakerStats, CLOSED, HALF_OPEN
  <2>2. HeardBy(r, heard, TRUE) = Newest(g)
    BY <1>4, <2>1 DEF HeardBy
  <2>3. Trailing(g, 0)
    BY <1>t, OutcomeTrails
  <2>4. Len(g) <= HistorySize + 1 /\ 0 <= HistorySize
    BY <1>1, <1>2, <1>t
  <2>5. Trailing(Newest(g), 0)
    BY <1>1, <2>3, <2>4, NewestTrails
  <2>6. Tell(r, Newest(g))
    BY <1>1, <2>1, <2>5 DEF Tell, CLOSED, HALF_OPEN
  <2> QED
    BY <1>4, <2>1, <2>2, <2>6 DEF CLOSED, HALF_OPEN
<1>5. CASE breaker.state = OPEN
  <2>1. r = breaker
    BY <1>5 DEF RecordSuccess, CLOSED, OPEN, HALF_OPEN
  <2>2. HeardBy(r, heard, TRUE) = Newest(g)
    BY <2>1 DEF HeardBy
  <2>3. Tell(r, Newest(g))
    BY <1>1, <1>5, <2>1 DEF Tell, CLOSED, OPEN, HALF_OPEN
  <2> QED
    BY <1>5, <2>1, <2>2, <2>3 DEF CLOSED, OPEN, HALF_OPEN
<1> QED
  BY <1>2, <1>3, <1>4, <1>5 DEF BreakerState

\* record_failure, the same way: a closed breaker opens on the contract's run of
\* failures, a trial on any failure.
LEMMA FailureTells ==
  ASSUME Consistent(breaker), CountersTell
  PROVE  LET r == RecordFailure(breaker)
         IN  /\ Tell(r, HeardBy(r, heard, FALSE))
             /\ r.elapsed = 0
             /\ breaker.state = CLOSED =>
                  r.state = IF Contract!RunOf(heard \o <<FALSE>>, FailureThreshold, FALSE)
                              THEN OPEN ELSE CLOSED
             /\ breaker.state # CLOSED => r.state = OPEN
<1> DEFINE r == RecordFailure(breaker)
           g == heard \o <<FALSE>>
           n == UpTo(CountCap, breaker.failure_count + 1)
<1>1. /\ g \in Seq(BOOLEAN) /\ Len(g) = Len(heard) + 1 /\ Len(heard) \in Nat
      /\ Newest(g) \in Seq(BOOLEAN) /\ Len(Newest(g)) <= HistorySize
  BY OneMore
<1>2. /\ breaker \in BreakerStats /\ breaker.state \in BreakerState
      /\ breaker.failure_count \in 0..CountCap
      /\ HistorySize \in Nat /\ FailureThreshold <= HistorySize
      /\ FailureThreshold \in Nat \ {0} /\ CountCap \in Nat /\ CountCap >= FailureThreshold
  BY HistoryIsLongEnough, BreakerAssumption DEF Consistent, BreakerStats
<1>t. heard \in Seq(BOOLEAN) /\ Len(heard) <= HistorySize
  BY DEF CountersTell, Tell
<1>3. /\ r.failure_count = n /\ r.elapsed = 0
      /\ r.state = IF n >= FailureThreshold THEN OPEN ELSE breaker.state
  BY <1>2 DEF RecordFailure, BreakerStats
<1>4. Tell(r, <<>>) \/ r.state # OPEN
  BY EmptyTells DEF CLOSED, OPEN, HALF_OPEN
<1>5. CASE breaker.state = CLOSED
  <2>1. n = breaker.failure_count + 1 /\ n <= HistorySize
    BY <1>2, <1>5 DEF Consistent, UpTo
  <2>2. Trailing(g, n)
    BY <1>5, <1>t, <2>1, OutcomeTrails DEF CountersTell, Tell
  <2>3. Contract!RunOf(g, FailureThreshold, FALSE) <=> n >= FailureThreshold
    BY <1>1, <2>2, RunIsCount
  <2>4. r.state = IF Contract!RunOf(g, FailureThreshold, FALSE) THEN OPEN ELSE CLOSED
    BY <1>3, <1>5, <2>3
  <2>5. CASE r.state = OPEN
    BY <1>3, <1>4, <1>5, <2>4, <2>5 DEF HeardBy, CLOSED, OPEN
  <2>6. CASE r.state = CLOSED
    <3>1. HeardBy(r, heard, FALSE) = Newest(g)
      BY <1>5, <2>6 DEF HeardBy
    <3>2. Len(g) <= HistorySize + 1
      BY <1>1, <1>2, <1>t
    <3>3. Trailing(Newest(g), n)
      BY <1>1, <2>1, <2>2, <3>2, NewestTrails
    <3>4. Tell(r, Newest(g))
      BY <1>1, <1>3, <2>6, <3>3 DEF Tell, CLOSED, HALF_OPEN
    <3> QED
      BY <1>3, <1>5, <2>4, <3>1, <3>4
  <2> QED
    BY <2>4, <2>5, <2>6
<1>6. CASE breaker.state # CLOSED
  <2>1. n >= FailureThreshold
    BY <1>2, <1>6 DEF Consistent, UpTo
  <2>2. r.state = OPEN
    BY <1>3, <2>1
  <2>3. Tell(r, Newest(g))
    BY <1>1, <2>2 DEF Tell, CLOSED, OPEN, HALF_OPEN
  <2> QED
    BY <1>3, <1>4, <1>6, <2>2, <2>3 DEF HeardBy
<1> QED
  BY <1>5, <1>6

-----------------------------------------------------------------------------
\* The contract's phase of a record.
PhaseOf(b) == CASE b.state = CLOSED -> "serving"
                [] b.state = OPEN -> "resting"
                [] b.state = HALF_OPEN -> "probing"

\* Each state has a phase of its own.
LEMMA Phases ==
  ASSUME NEW b, b.state \in BreakerState
  PROVE  /\ PhaseOf(b) = "serving" <=> b.state = CLOSED
         /\ PhaseOf(b) = "resting" <=> b.state = OPEN
         /\ PhaseOf(b) = "probing" <=> b.state = HALF_OPEN
  BY DEF PhaseOf, BreakerState, CLOSED, OPEN, HALF_OPEN

\* The contract's set of callers whose call has been let through.
Admitted == {c \in Callers : UnderWay(c)}

LinkInv == IInv /\ CountersTell

\* A call_allowed that lets its caller in keeps the outcomes, or starts a trial with none.
LEMMA AdmitTells ==
  ASSUME LinkInv, NEW c \in Callers, Admit(c)
  PROVE  /\ CountersTell' /\ breaker'.elapsed = breaker.elapsed
         /\ \/ breaker.state # OPEN /\ breaker' = breaker /\ heard' = heard
            \/ /\ breaker.state = OPEN /\ breaker.elapsed = RecoveryTimeout
               /\ breaker'.state = HALF_OPEN /\ heard' = <<>>
<1>1. breaker \in BreakerStats /\ breaker.elapsed \in 0..RecoveryTimeout
  BY DEF LinkInv, IInv, TypeOK, BreakerStats
<1>2. heard \in Seq(BOOLEAN) /\ Len(heard) <= HistorySize /\ Tell(breaker, heard)
  BY DEF LinkInv, CountersTell, Tell
<1>3. MayCall(breaker) /\ breaker' = CallAllowed(breaker)
      /\ heard' = IF breaker'.state = breaker.state THEN Newest(heard \o <<>>) ELSE <<>>
  BY DEF Admit, Step
<1>4. CASE breaker.state = OPEN
  <2>1. WindowElapsed(breaker) /\ breaker.elapsed = RecoveryTimeout
    BY <1>1, <1>3, <1>4, BreakerAssumption DEF MayCall, WindowElapsed
  <2>2. breaker'.state = HALF_OPEN /\ breaker'.success_count = 0
        /\ breaker'.elapsed = breaker.elapsed
    BY <1>1, <1>3, <1>4, <2>1 DEF CallAllowed, BreakerStats
  <2>3. heard' = <<>>
    BY <1>3, <1>4, <2>2 DEF OPEN, HALF_OPEN
  <2>4. Tell(breaker', <<>>)
    BY <2>2, EmptyTells DEF CLOSED, HALF_OPEN
  <2>5. CountersTell'
    BY <2>3, <2>4 DEF CountersTell
  <2> QED
    BY <1>4, <2>1, <2>2, <2>3, <2>5
<1>5. CASE breaker.state # OPEN
  <2>1. breaker' = breaker
    BY <1>3, <1>5 DEF CallAllowed
  <2>2. heard \o <<>> = heard
    BY <1>2
  <2>3. Newest(heard) = heard
    BY <1>2, HistoryIsLongEnough, NewestOutcomes
  <2>4. heard' = heard
    BY <1>3, <2>1, <2>2, <2>3
  <2> QED
    BY <1>2, <1>5, <2>1, <2>4 DEF CountersTell
<1> QED
  BY <1>4, <1>5

\* The initial counters tell the empty history.
LEMMA InitLink == Init => LinkInv
<1>1. Init => Tell(breaker, heard)
  BY EmptyTells DEF Init, NewStats, CLOSED, HALF_OPEN
<1> QED
  BY <1>1, InitInv DEF LinkInv, CountersTell

\* Every step keeps them in agreement with the outcomes.
LEMMA NextLink == LinkInv /\ [Next]_vars => LinkInv'
<1> SUFFICES ASSUME LinkInv, [Next]_vars PROVE CountersTell'
  BY NextInv DEF LinkInv
<1>0. Consistent(breaker) /\ CountersTell /\ breaker \in BreakerStats
  BY DEF LinkInv, IInv, TypeOK, CountersAgree, Consistent
<1>1. ASSUME NEW c \in Callers, Admit(c) PROVE CountersTell'
  BY <1>1, AdmitTells
<1>2. ASSUME NEW c \in Callers, Refuse(c) \/ Abandon(c) PROVE CountersTell'
  BY <1>0, <1>2 DEF Refuse, Abandon, CountersTell
<1>3. ASSUME NEW c \in Callers, Succeed(c) PROVE CountersTell'
  <2>1. breaker' = RecordSuccess(breaker) /\ heard' = HeardBy(breaker', heard, TRUE)
    BY <1>3 DEF Succeed, Step, HeardBy
  <2> QED
    BY <1>0, <2>1, SuccessTells DEF CountersTell
<1>4. ASSUME NEW c \in Callers, Fail(c) \/ FailAndReload(c) PROVE CountersTell'
  <2>1. breaker' = RecordFailure(breaker) /\ heard' = HeardBy(breaker', heard, FALSE)
    BY <1>4 DEF Fail, FailAndReload, Step, HeardBy
  <2> QED
    BY <1>0, <2>1, FailureTells DEF CountersTell
<1>5. CASE Tick
  <2>1. /\ breaker'.state = breaker.state /\ breaker'.failure_count = breaker.failure_count
        /\ breaker'.success_count = breaker.success_count /\ heard' = heard
    BY <1>0, <1>5 DEF Tick, Aged, BreakerStats
  <2> QED
    BY <1>0, <2>1 DEF CountersTell, Tell
<1>6. CASE UNCHANGED vars
  BY <1>0, <1>6 DEF vars, CountersTell
<1> QED
  BY <1>1, <1>2, <1>3, <1>4, <1>5, <1>6 DEF Next

-----------------------------------------------------------------------------
\* The contract's actions, over the breaker's own state.
LEMMA Mapping ==
  /\ Contract!CInit <=> /\ PhaseOf(breaker) = "serving" /\ heard = <<>>
                        /\ breaker.elapsed = RecoveryTimeout /\ Admitted = {}
  /\ Contract!Wait <=> /\ breaker.elapsed < RecoveryTimeout
                       /\ breaker'.elapsed = breaker.elapsed + 1
                       /\ PhaseOf(breaker') = PhaseOf(breaker)
                       /\ heard' = heard /\ Admitted' = Admitted
  /\ \A c : Contract!Vanish(c) <=>
       /\ c \in Admitted /\ Admitted' = Admitted \ {c}
       /\ PhaseOf(breaker') = PhaseOf(breaker) /\ heard' = heard
       /\ breaker'.elapsed = breaker.elapsed
  /\ \A c : Contract!Admit(c) <=>
       /\ c \notin Admitted /\ Admitted' = Admitted \cup {c}
       /\ \/ /\ PhaseOf(breaker) # "resting"
             /\ PhaseOf(breaker') = PhaseOf(breaker) /\ heard' = heard
          \/ /\ PhaseOf(breaker) = "resting" /\ breaker.elapsed = RecoveryTimeout
             /\ PhaseOf(breaker') = "probing" /\ heard' = <<>>
       /\ breaker'.elapsed = breaker.elapsed
  /\ \A h, ok : Contract!NextPhase(h, ok) =
       CASE PhaseOf(breaker) = "serving" /\ Contract!RunOf(h, FailureThreshold, FALSE) -> "resting"
         [] PhaseOf(breaker) = "probing" /\ ~ok -> "resting"
         [] PhaseOf(breaker) = "probing" /\ Len(h) >= SuccessThreshold /\ ok -> "serving"
         [] OTHER -> PhaseOf(breaker)
  BY DEF Contract!CInit, Contract!Wait, Contract!Vanish, Contract!Admit,
         Contract!NextPhase, PhaseOf, Admitted

\* Who is admitted after c has moved to phase p.
LEMMA AdmittedMoves ==
  ASSUME IInv, NEW c \in Callers, NEW p \in Phase, pc' = [pc EXCEPT ![c] = p]
  PROVE  Admitted' = IF p \in {"calling", "reloading"} THEN Admitted \cup {c}
                                                       ELSE Admitted \ {c}
  BY DEF IInv, TypeOK, Admitted, UnderWay

\* An outcome recorded by a caller that is under way is a report to the contract.
LEMMA OutcomeIsReport ==
  ASSUME LinkInv, NEW c \in Admitted, NEW ok \in BOOLEAN,
         Admitted' \in {Admitted, Admitted \ {c}},
         breaker' = IF ok THEN RecordSuccess(breaker) ELSE RecordFailure(breaker),
         heard' = HeardBy(breaker', heard, ok)
  PROVE  Contract!Report(c, ok)
<1> DEFINE h == heard \o <<ok>>
<1>0. Consistent(breaker) /\ Consistent(breaker') /\ CountersTell
  <2>1. Consistent(breaker) /\ CountersTell
    BY DEF LinkInv, IInv, TypeOK, CountersAgree, Consistent
  <2> QED
    BY <2>1, RecordSuccessConsistent, RecordFailureConsistent
<1>1. breaker.state \in BreakerState /\ breaker'.state \in BreakerState
  BY <1>0 DEF Consistent, BreakerStats
<1>2. heard \in Seq(BOOLEAN) /\ Append(heard, ok) = h
  BY <1>0 DEF CountersTell, Tell
<1>3. h \in Seq(BOOLEAN) /\ Len(h) = Len(heard) + 1 /\ Len(heard) \in Nat /\ h[Len(h)] = ok
  BY <1>2
<1>4. Newest(h) = Contract!LastOf(h, Contract!Memory)
  BY HistoryIsLongEnough, Zenon DEF Newest, Contract!LastOf
<1>5. breaker'.elapsed = IF ok THEN breaker.elapsed ELSE 0
  BY <1>0, SuccessTells, FailureTells
<1>6. ok => ~Contract!RunOf(h, FailureThreshold, FALSE)
  <2>1. FailureThreshold \in Nat \ {0}
    BY BreakerAssumption
  <2>2. SUFFICES ASSUME ok, \A i \in (Len(h) - FailureThreshold + 1)..Len(h) : h[i] = FALSE,
                        Len(h) >= FailureThreshold
                 PROVE  FALSE
    BY <1>3, <2>1, RunOfFailures
  <2>3. Len(h) \in (Len(h) - FailureThreshold + 1)..Len(h)
    BY <1>3, <2>1
  <2>4. h[Len(h)] = FALSE
    BY <2>2, <2>3
  <2> QED
    BY <1>3, <2>2, <2>4
<1>7. /\ ok /\ breaker.state = HALF_OPEN =>
           breaker'.state = IF Len(h) >= SuccessThreshold THEN CLOSED ELSE HALF_OPEN
      /\ ok /\ breaker.state # HALF_OPEN => breaker'.state = breaker.state
      /\ ~ok /\ breaker.state = CLOSED =>
           breaker'.state = IF Contract!RunOf(h, FailureThreshold, FALSE) THEN OPEN ELSE CLOSED
      /\ ~ok /\ breaker.state # CLOSED => breaker'.state = OPEN
  <2>1. CASE ok
    <3>1. ok = TRUE
      BY <2>1
    <3> QED
      BY <1>0, <3>1, SuccessTells
  <2>2. CASE ~ok
    <3>1. ok = FALSE
      BY <2>2
    <3> QED
      BY <1>0, <3>1, FailureTells
  <2> QED
    BY <2>1, <2>2
<1> HIDE DEF h
<1>8. PhaseOf(breaker') = Contract!NextPhase(h, ok)
  BY <1>1, <1>6, <1>7, Mapping DEF PhaseOf, BreakerState, CLOSED, OPEN, HALF_OPEN
<1>9. PhaseOf(breaker') = PhaseOf(breaker) <=> breaker'.state = breaker.state
  BY <1>1 DEF PhaseOf, BreakerState, CLOSED, OPEN, HALF_OPEN
<1>10. heard' = IF PhaseOf(breaker') = PhaseOf(breaker)
                  THEN Contract!LastOf(h, Contract!Memory) ELSE <<>>
  BY <1>4, <1>9, Zenon DEF HeardBy, h
<1> QED
  BY <1>2, <1>5, <1>8, <1>10 DEF Contract!Report, PhaseOf, Admitted

\* Every step of the breaker and its callers is a step of the contract, or none.
LEMMA StepImplements ==
  LinkInv /\ LinkInv' /\ [Next]_vars => [Contract!CNext]_(Contract!cvars)
<1> SUFFICES ASSUME LinkInv, LinkInv', [Next]_vars
             PROVE  Contract!CNext \/ UNCHANGED Contract!cvars
  OBVIOUS
<1>0. IInv /\ breaker \in BreakerStats /\ breaker.state \in BreakerState /\ breaker'.state \in BreakerState
  BY DEF LinkInv, IInv, TypeOK, BreakerStats
<1>p. \A c : UnderWay(c) /\ c \in Callers <=> c \in Admitted
  BY DEF Admitted
<1>q. {"idle", "refused", "calling", "reloading"} \subseteq Phase
  BY DEF Phase
<1>1. ASSUME NEW c \in Callers, Admit(c) PROVE Contract!Admit(c)
  <2>1. c \notin Admitted /\ pc' = [pc EXCEPT ![c] = "calling"]
    BY <1>1, <1>p DEF Admit, Step
  <2>2. Admitted' = Admitted \cup {c}
    BY <1>0, <1>q, <2>1, AdmittedMoves
  <2>3. /\ breaker'.elapsed = breaker.elapsed
        /\ \/ breaker.state # OPEN /\ breaker' = breaker /\ heard' = heard
           \/ /\ breaker.state = OPEN /\ breaker.elapsed = RecoveryTimeout
              /\ breaker'.state = HALF_OPEN /\ heard' = <<>>
    BY <1>1, AdmitTells
  <2> QED
    BY <1>0, <2>1, <2>2, <2>3, Phases, Mapping
<1>2. ASSUME NEW c \in Callers, Refuse(c) PROVE UNCHANGED Contract!cvars
  <2>1. c \notin Admitted /\ pc' = [pc EXCEPT ![c] = "refused"]
    BY <1>2, <1>p DEF Refuse
  <2>2. Admitted' = Admitted \ {c}
    BY <1>0, <1>q, <2>1, AdmittedMoves
  <2>3. Admitted' = Admitted
    BY <2>1, <2>2
  <2> QED
    BY <1>2, <2>3 DEF Refuse, Contract!cvars, PhaseOf, Admitted
<1>3. ASSUME NEW c \in Callers, Succeed(c) PROVE Contract!Report(c, TRUE)
  <2>1. c \in Admitted /\ pc' = [pc EXCEPT ![c] = "idle"]
        /\ breaker' = RecordSuccess(breaker) /\ heard' = HeardBy(breaker', heard, TRUE)
    BY <1>3, <1>p DEF Succeed, Step, HeardBy
  <2>2. Admitted' = Admitted \ {c}
    BY <1>0, <1>q, <2>1, AdmittedMoves
  <2> QED
    BY <2>1, <2>2, OutcomeIsReport
<1>4. ASSUME NEW c \in Callers, Fail(c) \/ FailAndReload(c) PROVE Contract!Report(c, FALSE)
  <2>1. /\ c \in Admitted /\ \E p \in {"idle", "reloading"} : pc' = [pc EXCEPT ![c] = p]
        /\ breaker' = RecordFailure(breaker) /\ heard' = HeardBy(breaker', heard, FALSE)
    BY <1>4, <1>p DEF Fail, FailAndReload, Step, HeardBy, UnderWay
  <2>2. Admitted' \in {Admitted \ {c}, Admitted \cup {c}}
    BY <1>0, <1>q, <2>1, AdmittedMoves
  <2>3. Admitted \cup {c} = Admitted
    BY <2>1
  <2> QED
    BY <2>1, <2>2, <2>3, OutcomeIsReport
<1>5. ASSUME NEW c \in Callers, Abandon(c) PROVE Contract!Vanish(c)
  <2>1. c \in Admitted /\ pc' = [pc EXCEPT ![c] = "idle"] /\ breaker' = breaker /\ heard' = heard
    BY <1>5, <1>p DEF Abandon
  <2>2. Admitted' = Admitted \ {c}
    BY <1>0, <1>q, <2>1, AdmittedMoves
  <2> QED
    BY <2>1, <2>2, Mapping
<1>6. CASE Tick
  <2>1. /\ breaker.elapsed < RecoveryTimeout /\ breaker'.elapsed = breaker.elapsed + 1
        /\ breaker'.state = breaker.state /\ heard' = heard /\ pc' = pc
    BY <1>0, <1>6, BreakerAssumption DEF Tick, Aged, UpTo, BreakerStats
  <2>2. PhaseOf(breaker') = PhaseOf(breaker) /\ Admitted' = Admitted
    BY <2>1 DEF PhaseOf, Admitted, UnderWay
  <2>3. Contract!Wait
    BY <2>1, <2>2, Mapping
  <2> QED
    BY <2>3 DEF Contract!CNext
<1>7. CASE UNCHANGED vars
  BY <1>7 DEF vars, Contract!cvars, UnderWay
<1> QED
  BY <1>1, <1>2, <1>3, <1>4, <1>5, <1>6, <1>7 DEF Next, Contract!CNext

\* The breaker, with its counters and its timestamp, implements the contract over the
\* outcomes it hears, for every value of its thresholds and every set of callers.
THEOREM ContractKept == Spec => ImplementsContract
<1>1. Init => Contract!CInit
  <2> SUFFICES ASSUME Init PROVE Contract!CInit
    OBVIOUS
  <2>1. breaker.state = CLOSED /\ breaker.elapsed = RecoveryTimeout /\ heard = <<>>
    BY DEF Init, NewStats
  <2>2. PhaseOf(breaker) = "serving"
    BY <2>1, Phases DEF BreakerState
  <2>3. Admitted = {}
    BY DEF Init, Admitted, UnderWay
  <2> QED
    BY <2>1, <2>2, <2>3, Mapping
<1> QED
  BY InitLink, NextLink, StepImplements, <1>1, PTL
  DEF Spec, ImplementsContract, Contract!ContractSpec
=============================================================================
