---------------------------- MODULE EngineProofs ----------------------------
(***************************************************************************)
(* The pipeline and the store behind its two caches.                       *)
(*                                                                         *)
(* The pipeline for any threads, sessions, prompts, regions and skills,    *)
(* any firewall, policy, index and thresholds: what takes the breaker of a *)
(* session or of a skill out of CLOSED, and what an answer carries.  The   *)
(* latter needs an invariant that follows a request's entry                *)
(* from the policy check, through the steps of L2 and L3 that other        *)
(* threads' requests and registrations fall between, into the cache and    *)
(* out of it for another request with the same key.  It holds the types    *)
(* too, and that the counters of each breaker agree with its state.        *)
(*                                                                         *)
(* The store for any keys, values, capacity and time to live: it keeps     *)
(* what was used recently, and implements the contract of a cache.  The    *)
(* invariant relates it to the history of uses: its entries are in the     *)
(* order in which they were used, so that an entry that is evicted was     *)
(* used before as many others as the store holds.                          *)
(***************************************************************************)
EXTENDS Engine, SemanticCache, FiniteSetTheorems, TLAPS

\* What the breaker operations keep of a record: its counters agree with its state.
Consistent(b) ==
  /\ b \in BreakerStats
  /\ b.state = CLOSED <=> b.failure_count < FailureThreshold
  /\ b.state = HALF_OPEN => b.success_count < SuccessThreshold

BreakerRecord == {b \in BreakerStats : Consistent(b)}

\* Where a request is past its policy check.
Checked == {"l2", "load", "reload", "l3", "run", "store"}

\* The output o is one that the key k's requests may get.
Suits(o, k) == o.asked = k[1] /\ o.region = k[2] /\ Permits(o.entry, k[2])

\* What a request brings to its policy check, and has past it.
Sound(c) ==
  /\ c.pc \in Checked \cup {"found", "fetch"} => c.top \in Skills
  /\ c.pc \in Checked => c.entry \in Entries /\ Permits(c.entry, c.region)

\* The requests under way.
Requests ==
  /\ call \in [Threads -> Calls \cup {Nothing}]
  /\ \A t \in Threads : call[t] # Nothing => Sound(call[t])

\* The outputs in the cache.
Stock ==
  /\ DOMAIN cache = Keys
  /\ \A k \in Keys : cache[k] # Nothing => cache[k] \in Outputs /\ Suits(cache[k], k)

IInv ==
  /\ l3 \in [Skills -> BreakerRecord]
  /\ routes \in [Keys -> Routes \cup {Nothing}]
  /\ registry \in [Skills -> Entries \cup {Nothing}]
  /\ Requests /\ Stock

-----------------------------------------------------------------------------
(* Breaker records *)

\* A new breaker is consistent.
LEMMA NewConsistent == Consistent(NewStats)
  BY BreakerAssumption
  DEF Consistent, BreakerStats, NewStats, BreakerState, CLOSED, OPEN, HALF_OPEN

\* Time passing keeps the record consistent.
LEMMA AgedConsistent ==
  ASSUME NEW b, Consistent(b) PROVE Consistent(Aged(b))
  BY BreakerAssumption DEF Consistent, BreakerStats, Aged, UpTo

\* call_allowed keeps it: leaving OPEN resets the count of trial successes.
LEMMA CallAllowedConsistent ==
  ASSUME NEW b, Consistent(b) PROVE Consistent(CallAllowed(b))
<1>1. CASE b.state = OPEN /\ WindowElapsed(b)
  <2> DEFINE r == [b EXCEPT !.state = HALF_OPEN, !.success_count = 0]
  <2>1. CallAllowed(b) = r
    BY <1>1 DEF CallAllowed
  <2>2. 0 \in 0..SuccessThreshold /\ HALF_OPEN \in BreakerState /\ 0 < SuccessThreshold
    BY BreakerAssumption DEF BreakerState
  <2>3. r \in BreakerStats
    BY <2>2 DEF Consistent, BreakerStats
  <2>4. r.state = HALF_OPEN /\ r.failure_count = b.failure_count /\ r.success_count = 0
    BY DEF Consistent, BreakerStats
  <2> HIDE DEF r
  <2> QED
    BY <1>1, <2>1, <2>2, <2>3, <2>4 DEF Consistent, CLOSED, OPEN, HALF_OPEN
<1>2. CASE ~(b.state = OPEN /\ WindowElapsed(b))
  BY <1>2 DEF CallAllowed
<1> QED
  BY <1>1, <1>2

\* record_success keeps it: the last success a trial needs resets both counters.
LEMMA RecordSuccessConsistent ==
  ASSUME NEW b, Consistent(b) PROVE Consistent(RecordSuccess(b))
<1> DEFINE n == b.success_count + 1
<1>0. b.state \in BreakerState /\ b.success_count \in 0..SuccessThreshold
  BY DEF Consistent, BreakerStats
<1>1. CASE b.state = HALF_OPEN /\ n >= SuccessThreshold
  <2> DEFINE r == [b EXCEPT !.state = CLOSED, !.failure_count = 0, !.success_count = n]
  <2>1. RecordSuccess(b) = r
    BY <1>1 DEF RecordSuccess
  <2>2. 0 \in 0..CountCap /\ n \in 0..SuccessThreshold /\ CLOSED \in BreakerState
    BY <1>0, <1>1, BreakerAssumption DEF BreakerState, Consistent
  <2>3. r \in BreakerStats
    BY <2>2 DEF Consistent, BreakerStats
  <2>4. r.state = CLOSED /\ r.failure_count = 0
    BY DEF Consistent, BreakerStats
  <2> HIDE DEF r
  <2> QED
    BY <2>1, <2>3, <2>4, BreakerAssumption DEF Consistent, CLOSED, HALF_OPEN
<1>2. CASE b.state = HALF_OPEN /\ ~(n >= SuccessThreshold)
  BY <1>0, <1>2, BreakerAssumption
  DEF RecordSuccess, Consistent, BreakerStats, CLOSED, HALF_OPEN
<1>3. CASE b.state = CLOSED
  BY <1>3, BreakerAssumption DEF RecordSuccess, Consistent, BreakerStats, CLOSED, HALF_OPEN
<1>4. CASE b.state = OPEN
  BY <1>4 DEF RecordSuccess, CLOSED, OPEN, HALF_OPEN
<1> QED
  BY <1>0, <1>1, <1>2, <1>3, <1>4 DEF BreakerState

\* record_failure keeps it: reaching the threshold and opening are one step.
LEMMA RecordFailureConsistent ==
  ASSUME NEW b, Consistent(b) PROVE Consistent(RecordFailure(b))
<1> DEFINE n == UpTo(CountCap, b.failure_count + 1)
           st == IF n >= FailureThreshold THEN OPEN ELSE b.state
           r == [b EXCEPT !.failure_count = n, !.elapsed = 0, !.state = st]
<1>0. b \in BreakerStats /\ b.state \in BreakerState /\ b.failure_count \in 0..CountCap
  BY DEF Consistent, BreakerStats
<1>1. RecordFailure(b) = r
  BY <1>0 DEF RecordFailure, BreakerStats
<1>2. n \in 0..CountCap /\ 0 \in 0..RecoveryTimeout /\ st \in BreakerState
  BY <1>0, BreakerAssumption DEF UpTo, BreakerState
<1>3. r \in BreakerStats
  BY <1>0, <1>2 DEF BreakerStats
<1>4. r.state = st /\ r.failure_count = n /\ r.success_count = b.success_count
  BY <1>0 DEF BreakerStats
<1>5. st = CLOSED <=> n < FailureThreshold
  BY <1>0, BreakerAssumption DEF Consistent, UpTo, CLOSED, OPEN
<1>6. st = HALF_OPEN => b.success_count < SuccessThreshold
  BY DEF Consistent, OPEN, HALF_OPEN
<1> HIDE DEF n, st, r
<1> QED
  BY <1>1, <1>3, <1>4, <1>5, <1>6 DEF Consistent

\* None but a recorded failure takes a breaker out of CLOSED.
LEMMA OnlyFailuresTrip ==
  ASSUME NEW b \in BreakerRecord
  PROVE  /\ CallAllowed(b) \in BreakerRecord
         /\ RecordSuccess(b) \in BreakerRecord
         /\ Aged(b) \in BreakerRecord
         /\ b.state = CLOSED => /\ CallAllowed(b).state = CLOSED
                               /\ RecordSuccess(b).state = CLOSED
                               /\ Aged(b).state = CLOSED
<1>1. Consistent(b) /\ b \in BreakerStats
  BY DEF BreakerRecord
<1>2. Consistent(CallAllowed(b)) /\ Consistent(RecordSuccess(b)) /\ Consistent(Aged(b))
  BY <1>1, CallAllowedConsistent, RecordSuccessConsistent, AgedConsistent
<1>3. ASSUME b.state = CLOSED
      PROVE  CallAllowed(b).state = CLOSED /\ RecordSuccess(b).state = CLOSED
  <2>1. CallAllowed(b) = b
    BY <1>3 DEF CallAllowed, CLOSED, OPEN
  <2>2. RecordSuccess(b) = [b EXCEPT !.failure_count = 0]
    BY <1>3 DEF RecordSuccess, CLOSED, HALF_OPEN
  <2> QED
    BY <1>1, <1>3, <2>1, <2>2 DEF BreakerStats
<1>4. Aged(b).state = b.state
  BY <1>1 DEF Aged, BreakerStats
<1> QED
  BY <1>2, <1>3, <1>4 DEF BreakerRecord, Consistent

\* A recorded failure keeps a record consistent.
LEMMA FailureKeepsShape ==
  ASSUME NEW b \in BreakerRecord PROVE RecordFailure(b) \in BreakerRecord
  BY RecordFailureConsistent DEF BreakerRecord, Consistent

-----------------------------------------------------------------------------
(* Requests *)

\* A request moved on is a request, with everything but its pc as it was.
LEMMA MovedOn ==
  ASSUME NEW c \in Calls,
         NEW pc \in {"intent", "cache", "l1", "find", "missed", "found", "fetch", "l2", "load",
                     "reload", "l3", "run", "store"}
  PROVE  LET d == [c EXCEPT !.pc = pc]
         IN  /\ d \in Calls /\ d.pc = pc
             /\ d.top = c.top /\ d.entry = c.entry /\ d.region = c.region
BY DEF Calls

\* What keeps Requests: one thread's request becomes a sound one, or ends.
LEMMA RequestMoves ==
  ASSUME Requests, NEW t \in Threads, NEW c \in Calls \cup {Nothing},
         call' = [call EXCEPT ![t] = c],
         c # Nothing => Sound(c)
  PROVE  Requests' /\ call'[t] = c
<1>1. call' \in [Threads -> Calls \cup {Nothing}] /\ call'[t] = c
  BY DEF Requests
<1>2. \A u \in Threads : u # t => call'[u] = call[u]
  BY DEF Requests
<1> QED
  BY <1>1, <1>2 DEF Requests

\* An answer ends the request.
LEMMA AnswerEnds ==
  ASSUME Requests, NEW t \in Threads, NEW x, NEW o, NEW r, NEW h, Replies(t, x, o, r, h)
  PROVE  Requests'
<1>1. call' = [call EXCEPT ![t] = Nothing]
  BY DEF Replies
<1> QED
  BY <1>1, RequestMoves

\* Going to a step past the check takes a request that has passed it.
LEMMA GoingKeeps ==
  ASSUME Requests, NEW t \in Threads, call[t] # Nothing,
         NEW pc \in {"intent", "cache", "l1", "find", "missed", "found", "fetch", "l2", "load",
                     "reload", "l3", "run", "store"},
         Goes(t, pc), pc # "found", pc = "fetch" => call[t].pc = "found",
         pc \in Checked => call[t].pc \in Checked
  PROVE  Requests' /\ call'[t] \in Calls
<1> DEFINE d == [call[t] EXCEPT !.pc = pc]
<1>1. call[t] \in Calls
  BY DEF Requests
<1>2. /\ d \in Calls /\ d.pc = pc
      /\ d.top = call[t].top /\ d.entry = call[t].entry /\ d.region = call[t].region
  BY <1>1, MovedOn
<1>3. call' = [call EXCEPT ![t] = d]
  BY DEF Goes, Proceeds
<1>4. /\ pc = "fetch" => call[t].top \in Skills
      /\ pc \in Checked => /\ call[t].top \in Skills /\ call[t].entry \in Entries
                           /\ Permits(call[t].entry, call[t].region)
  BY DEF Requests, Sound
<1> HIDE DEF d
<1> QED
  BY <1>2, <1>3, <1>4, RequestMoves DEF Sound

-----------------------------------------------------------------------------
(* What takes a skill out of service *)

\* The step, as TripsAreOwnFault asks it to be.
OwnFault ==
  \A s \in Skills :
    (l3[s].state = CLOSED /\ l3'[s].state # CLOSED)
      => \E t \in Threads : At(t, "run") /\ call[t].top = s /\ Answered(t)

\* An operation that leaves a CLOSED breaker CLOSED, on one of the skills' breakers.
LEMMA HarmlessAtL3 ==
  ASSUME NEW f \in [Skills -> BreakerRecord], f = l3, NEW s, NEW b,
         l3' = [l3 EXCEPT ![s] = b],
         s \in Skills => b \in BreakerRecord /\ (l3[s].state = CLOSED => b.state = CLOSED)
  PROVE  l3' \in [Skills -> BreakerRecord] /\ OwnFault
<1>1. l3' \in [Skills -> BreakerRecord]
  OBVIOUS
<1>2. \A u \in Skills : l3'[u] = IF u = s THEN b ELSE l3[u]
  OBVIOUS
<1>3. OwnFault
  BY <1>2 DEF OwnFault
<1> QED
  BY <1>1, <1>3

\* A run that fails trips the breaker of its own skill if any, and answers.
LEMMA FailedRunTripsItsOwn ==
  ASSUME IInv, NEW t \in Threads, RunFails(t)
  PROVE  l3' \in [Skills -> BreakerRecord] /\ OwnFault
<1> DEFINE s == call[t].top
           b == RecordFailure(l3[s])
<1>1. At(t, "run") /\ Fails(t, "L3")
  BY Zenon DEF RunFails
<1>2. l3' = [l3 EXCEPT ![s] = b]
  BY DEF RunFails
<1>3. call' = [call EXCEPT ![t] = Nothing] /\ call[t] # Nothing
  BY <1>1 DEF Fails, Replies, At
<1>4. call'[t] = Nothing
  BY <1>3 DEF IInv, Requests
<1>5. Answered(t)
  BY <1>3, <1>4 DEF Answered
<1>6. s \in Skills => b \in BreakerRecord
  BY FailureKeepsShape DEF IInv
<1> HIDE DEF b
<1>7. l3' \in [Skills -> BreakerRecord] /\ \A u \in Skills : u # s => l3'[u] = l3[u]
  BY <1>2, <1>6 DEF IInv
<1>8. OwnFault
  BY <1>1, <1>5, <1>7, Zenon DEF OwnFault
<1> QED
  BY <1>7, <1>8

\* Every step keeps the breakers' shape and is as TripsAreOwnFault asks.
LEMMA L3Steps ==
  ASSUME IInv, [Next]_vars
  PROVE  l3' \in [Skills -> BreakerRecord] /\ OwnFault
<1>0. l3 \in [Skills -> BreakerRecord]
  BY DEF IInv
<1>u. ASSUME UNCHANGED l3 PROVE l3' \in [Skills -> BreakerRecord] /\ OwnFault
  BY <1>0, <1>u DEF OwnFault
<1>1. ASSUME NEW t \in Threads, Step(t)
      PROVE  l3' \in [Skills -> BreakerRecord] /\ OwnFault
  <2> DEFINE s == call[t].top
  <2>1. CASE L3Admit(t)
    <3>1. l3' = [l3 EXCEPT ![s] = CallAllowed(l3[s])]
      BY <2>1 DEF L3Admit
    <3>2. s \in Skills => /\ CallAllowed(l3[s]) \in BreakerRecord
                          /\ l3[s].state = CLOSED => CallAllowed(l3[s]).state = CLOSED
      BY <1>0, OnlyFailuresTrip
    <3> QED
      BY <1>0, <3>1, <3>2, HarmlessAtL3
  <2>2. CASE RunSucceeds(t)
    <3>1. l3' = [l3 EXCEPT ![s] = RecordSuccess(l3[s])]
      BY <2>2 DEF RunSucceeds
    <3>2. s \in Skills => /\ RecordSuccess(l3[s]) \in BreakerRecord
                          /\ l3[s].state = CLOSED => RecordSuccess(l3[s]).state = CLOSED
      BY <1>0, OnlyFailuresTrip
    <3> QED
      BY <1>0, <3>1, <3>2, HarmlessAtL3
  <2>3. CASE RunFails(t)
    BY <2>3, FailedRunTripsItsOwn
  <2>4. CASE ~(L3Admit(t) \/ RunSucceeds(t) \/ RunFails(t))
    <3>1. UNCHANGED l3
      BY <1>1, <2>4, Zenon
      DEF Step, RecordIntent, CacheLookup, L1Admit, FindNone, Find, FoundRecorded,
          MissRecorded, FetchAndCheck, L2Admit,
          LoadMissing, LoadFits, LoadOverruns, ReloadFits, ReloadRaises, RunRaises, Store
    <3> QED
      BY <3>1, <1>u
  <2> QED
    BY <2>1, <2>2, <2>3, <2>4
<1>2. ASSUME NEW t \in Threads, NEW s \in Sessions, NEW p \in Prompts, NEW g \in Regions,
             Receive(t, s, p, g)
      PROVE  UNCHANGED l3
  BY <1>2, Zenon DEF Receive
<1>3. ASSUME NEW k \in Keys, CacheForget(k) PROVE UNCHANGED l3
  BY <1>3, Zenon DEF CacheForget
<1>4. ASSUME NEW s \in Skills, NEW e \in Entries, Register(s, e) PROVE UNCHANGED l3
  BY <1>4, Zenon DEF Register
<1>5. CASE Tick
  <2>1. l3' = [x \in Skills |-> Aged(l3[x])]
    BY <1>0, <1>5 DEF Tick, AllAged
  <2>2. \A x \in Skills : /\ Aged(l3[x]) \in BreakerRecord
                          /\ l3[x].state = CLOSED => Aged(l3[x]).state = CLOSED
    BY <1>0, OnlyFailuresTrip
  <2> QED
    BY <2>1, <2>2 DEF OwnFault
<1>6. CASE UNCHANGED vars
  BY <1>6, <1>u DEF vars
<1> QED
  BY <1>1, <1>2, <1>3, <1>4, <1>5, <1>6, <1>u, Zenon DEF Next

-----------------------------------------------------------------------------
(* What an answer carries *)

\* The key of a request's lookups and of its output is one of the cache's.
LEMMA KeyOfRequest ==
  ASSUME NEW c \in Calls
  PROVE  /\ Key(c.prompt, c.region) \in Keys
         /\ Key(c.prompt, c.region)[1] = Norm[c.prompt]
         /\ Key(c.prompt, c.region)[2] = c.region
<1>1. c.prompt \in Prompts /\ c.region \in Regions
  BY DEF Calls
<1> QED
  BY <1>1 DEF Key, Keys

\* Retrieval gives a skill and a flag, from the routes or from the index.
LEMMA RetrievedIsRoute ==
  ASSUME IInv, NEW c \in Calls, NEW r \in Retrieved(c.prompt, c.region)
  PROVE  r \in Routes
<1>1. CASE routes[Key(c.prompt, c.region)] # Nothing
  BY <1>1, KeyOfRequest DEF Retrieved, IInv
<1>2. CASE routes[Key(c.prompt, c.region)] = Nothing
  <2>1. PICK s \in Best(c.prompt, c.region) :
          r = [skill |-> s, review |-> Score[<<c.prompt, s>>] = "review"]
    BY <1>2 DEF Retrieved
  <2>2. s \in Skills
    BY DEF Best, Candidates
  <2>3. (Score[<<c.prompt, s>>] = "review") \in BOOLEAN
    BY Zenon
  <2> QED
    BY <2>1, <2>2, <2>3 DEF Routes
<1> QED
  BY <1>1, <1>2

\* A request that has found a skill is not past the check yet.
LEMMA FindKeeps ==
  ASSUME IInv, NEW t \in Threads, Find(t)
  PROVE  Requests' /\ call'[t] \in Calls /\ routes' \in [Keys -> Routes \cup {Nothing}]
<1> DEFINE c == call[t]
<1>1. c \in Calls
  BY DEF Find, At, IInv, Requests
<1>2. PICK r \in Retrieved(c.prompt, c.region) :
        /\ Proceeds(t, [c EXCEPT !.pc = "found", !.top = r.skill, !.review = r.review])
        /\ routes' = [routes EXCEPT ![Key(c.prompt, c.region)] = r]
  BY Zenon DEF Find
<1>3. r \in Routes
  BY <1>1, RetrievedIsRoute
<1>4. r.skill \in Skills /\ r.review \in BOOLEAN
  BY <1>3 DEF Routes
<1> DEFINE d == [c EXCEPT !.pc = "found", !.top = r.skill, !.review = r.review]
<1>5. d \in Calls /\ d.pc = "found" /\ d.top \in Skills
  BY <1>1, <1>4 DEF Calls
<1>6. call' = [call EXCEPT ![t] = d]
  BY <1>2 DEF Proceeds
<1> HIDE DEF d
<1>7. Requests' /\ call'[t] \in Calls
  BY <1>5, <1>6, RequestMoves DEF IInv, Sound, Checked
<1>8. routes' \in [Keys -> Routes \cup {Nothing}]
  BY <1>2, <1>3 DEF IInv
<1> QED
  BY <1>7, <1>8

\* The check lets a request past with an entry that permits its region.
LEMMA CheckKeeps ==
  ASSUME IInv, NEW t \in Threads, FetchAndCheck(t)
  PROVE  Requests' /\ (Fails(t, "L1") \/ Fails(t, "security") \/ call'[t] \in Calls)
<1> DEFINE c == call[t]
           e == registry[c.top]
           d == [c EXCEPT !.pc = "l2", !.entry = e]
<1>1. c \in Calls /\ Requests
  BY DEF FetchAndCheck, At, IInv, Requests
<1>2. CASE Fails(t, "L1") \/ Fails(t, "security")
  BY <1>1, <1>2, AnswerEnds DEF Fails
<1>3. CASE e # Nothing /\ Permits(e, c.region) /\ Proceeds(t, d)
  <2>1. c.top \in Skills
    BY DEF FetchAndCheck, At, IInv, Requests, Sound
  <2>2. e \in Entries
    BY <1>3, <2>1 DEF IInv
  <2>3. d \in Calls /\ d.pc = "l2" /\ d.top = c.top /\ d.entry = e /\ d.region = c.region
    BY <1>1, <2>2 DEF Calls
  <2>4. call' = [call EXCEPT ![t] = d]
    BY <1>3 DEF Proceeds
  <2> HIDE DEF d
  <2> QED
    BY <1>1, <1>3, <2>1, <2>2, <2>3, <2>4, RequestMoves DEF Sound
<1> QED
  BY <1>2, <1>3, Zenon DEF FetchAndCheck

\* Every step keeps the requests sound.
LEMMA RequestsKept ==
  ASSUME IInv, [Next]_vars
  PROVE  Requests'
<1>0. Requests
  BY DEF IInv
<1>1. ASSUME NEW t \in Threads, Step(t) PROVE Requests'
  <2>1. CASE Find(t)
    BY <2>1, FindKeeps
  <2>2. CASE FetchAndCheck(t)
    BY <2>2, CheckKeeps
  <2>3. ASSUME NEW x, NEW o, NEW r, NEW h, Replies(t, x, o, r, h) PROVE Requests'
    BY <1>0, <2>3, AnswerEnds
  <2>4. ASSUME NEW x, Fails(t, x) PROVE Requests'
    BY <2>3, <2>4 DEF Fails
  <2>5. ASSUME NEW pc \in {"cache", "l1"}, call[t] # Nothing, Goes(t, pc) PROVE Requests'
    BY <1>0, <2>5, GoingKeeps DEF Checked
  <2>6. ASSUME NEW pc \in {"find", "missed"}, call[t] # Nothing, Goes(t, pc) PROVE Requests'
    BY <1>0, <2>6, GoingKeeps DEF Checked
  <2>14. CASE FoundRecorded(t)
    BY <1>0, <2>14, GoingKeeps DEF FoundRecorded, At, Checked
  <2>7. ASSUME NEW pc \in Checked, call[t] # Nothing, call[t].pc \in Checked, Goes(t, pc)
        PROVE  Requests'
    BY <1>0, <2>7, GoingKeeps DEF Checked
  <2>8. CASE RecordIntent(t) \/ CacheLookup(t)
    BY <2>3, <2>4, <2>5, <2>8 DEF RecordIntent, CacheLookup, At
  <2>9. CASE L1Admit(t) \/ FindNone(t) \/ MissRecorded(t)
    BY <2>4, <2>6, <2>9 DEF L1Admit, FindNone, MissRecorded, At
  <2>10. CASE L2Admit(t) \/ LoadMissing(t) \/ LoadFits(t) \/ LoadOverruns(t)
    BY <2>4, <2>7, <2>10 DEF L2Admit, LoadMissing, LoadFits, LoadOverruns, At, Checked
  <2>11. CASE ReloadFits(t) \/ ReloadRaises(t)
    BY <2>4, <2>7, <2>11 DEF ReloadFits, ReloadRaises, At, Checked
  <2>12. CASE L3Admit(t) \/ RunSucceeds(t)
    BY <2>4, <2>7, <2>12 DEF L3Admit, RunSucceeds, At, Checked
  <2>13. CASE RunFails(t) \/ RunRaises(t) \/ Store(t)
    BY <2>3, <2>4, <2>13, Zenon DEF RunFails, RunRaises, Store
  <2> QED
    BY <1>1, <2>1, <2>2, <2>8, <2>9, <2>10, <2>11, <2>12, <2>13, <2>14, Zenon DEF Step
<1>2. ASSUME NEW t \in Threads, NEW s \in Sessions, NEW p \in Prompts, NEW g \in Regions,
             Receive(t, s, p, g)
      PROVE  Requests'
  <2> DEFINE c == [pc |-> "intent", session |-> s, prompt |-> p, region |-> g,
                   top |-> Nothing, review |-> FALSE, entry |-> Nothing]
  <2>1. CASE Fails(t, "firewall")
    BY <1>0, <2>1, AnswerEnds DEF Fails
  <2>2. CASE Proceeds(t, c)
    <3>1. c \in Calls /\ c.pc = "intent"
      BY DEF Calls
    <3>2. call' = [call EXCEPT ![t] = c]
      BY <2>2 DEF Proceeds
    <3> HIDE DEF c
    <3> QED
      BY <1>0, <3>1, <3>2, RequestMoves DEF Sound, Checked
  <2> QED
    BY <1>2, <2>1, <2>2, Zenon DEF Receive
<1>3. ASSUME UNCHANGED call PROVE Requests'
  BY <1>0, <1>3 DEF Requests
<1>4. ASSUME NEW k \in Keys, CacheForget(k) PROVE Requests'
  BY <1>3, <1>4, Zenon DEF CacheForget
<1>5. ASSUME NEW s \in Skills, NEW e \in Entries, Register(s, e) PROVE Requests'
  BY <1>3, <1>5, Zenon DEF Register
<1>6. CASE Tick
  BY <1>3, <1>6, Zenon DEF Tick
<1>7. CASE UNCHANGED vars
  BY <1>3, <1>7 DEF vars
<1> QED
  BY <1>1, <1>2, <1>4, <1>5, <1>6, <1>7, Zenon DEF Next

\* An output suits the key it is stored under, and is answered as it is stored.
LEMMA StoredOutputSuits ==
  ASSUME IInv, NEW t \in Threads, Store(t)
  PROVE  LET k == Key(call[t].prompt, call[t].region)
         IN  /\ k \in Keys
             /\ \E o \in Outputs : /\ cache' = [cache EXCEPT ![k] = o] /\ Suits(o, k)
                                  /\ answer' = [tier |-> "ok", output |-> o, was_cached |-> FALSE,
                                                requires_review |-> call[t].review]
<1> DEFINE c == call[t]
           k == Key(c.prompt, c.region)
           o == [skill |-> c.top, asked |-> Norm[c.prompt], region |-> c.region,
                 review |-> c.review, entry |-> c.entry]
<1>1. /\ c \in Calls /\ c.top \in Skills /\ c.entry \in Entries
      /\ Permits(c.entry, c.region)
  BY DEF Store, At, IInv, Requests, Sound, Checked
<1>2. k \in Keys /\ k[1] = Norm[c.prompt] /\ k[2] = c.region
  BY <1>1, KeyOfRequest
<1>3. Suits(o, k) /\ o \in Outputs
  BY <1>1, <1>2 DEF Suits, Outputs, Calls
<1>4. cache' = [cache EXCEPT ![k] = o] /\ Replies(t, "ok", o, c.review, FALSE)
  BY Zenon DEF Store
<1> HIDE DEF o, k
<1>5. answer' = [tier |-> "ok", output |-> o, was_cached |-> FALSE,
                 requires_review |-> c.review]
  BY <1>4 DEF Replies
<1>6. /\ k \in Keys
      /\ \E x \in Outputs : /\ cache' = [cache EXCEPT ![k] = x] /\ Suits(x, k)
                            /\ answer' = [tier |-> "ok", output |-> x, was_cached |-> FALSE,
                                          requires_review |-> c.review]
  BY <1>2, <1>3, <1>4, <1>5, Zenon
<1> QED
  BY <1>6, Zenon DEF k

\* Every step keeps the stock.
LEMMA StockKept ==
  ASSUME IInv, [Next]_vars
  PROVE  Stock'
<1>0. Stock
  BY DEF IInv
<1>1. ASSUME NEW k \in Keys, NEW o, cache' = [cache EXCEPT ![k] = o],
             o # Nothing => o \in Outputs /\ Suits(o, k)
      PROVE  Stock'
  <2>1. DOMAIN cache' = Keys /\ cache'[k] = o /\ \A x \in Keys : x # k => cache'[x] = cache[x]
    BY <1>0, <1>1 DEF Stock
  <2> QED
    BY <1>0, <1>1, <2>1 DEF Stock
<1>2. ASSUME UNCHANGED cache PROVE Stock'
  BY <1>0, <1>2 DEF Stock
<1>3. ASSUME NEW t \in Threads, Step(t) PROVE Stock'
  <2>1. CASE Store(t)
    BY <1>1, <2>1, StoredOutputSuits
  <2>2. CASE ~Store(t)
    <3>1. UNCHANGED cache
      BY <1>3, <2>2, Zenon
      DEF Step, RecordIntent, CacheLookup, L1Admit, FindNone, Find, FoundRecorded,
          MissRecorded, FetchAndCheck, L2Admit,
          LoadMissing, LoadFits, LoadOverruns, ReloadFits, ReloadRaises, L3Admit,
          RunSucceeds, RunFails, RunRaises
    <3> QED
      BY <1>2, <3>1
  <2> QED
    BY <2>1, <2>2
<1>4. ASSUME NEW t \in Threads, NEW s \in Sessions, NEW p \in Prompts, NEW g \in Regions,
             Receive(t, s, p, g)
      PROVE  Stock'
  BY <1>2, <1>4, Zenon DEF Receive
<1>5. ASSUME NEW k \in Keys, CacheForget(k) PROVE Stock'
  <2>1. cache' = [cache EXCEPT ![k] = Nothing]
    BY <1>5, Zenon DEF CacheForget
  <2> QED
    BY <1>1, <2>1
<1>6. ASSUME NEW s \in Skills, NEW e \in Entries, Register(s, e) PROVE Stock'
  BY <1>2, <1>6, Zenon DEF Register
<1>7. CASE Tick
  BY <1>2, <1>7, Zenon DEF Tick
<1>8. CASE UNCHANGED vars
  BY <1>2, <1>8 DEF vars
<1> QED
  BY <1>3, <1>4, <1>5, <1>6, <1>7, <1>8, Zenon DEF Next

\* Every step keeps the types of the routes and of the registry.
LEMMA TablesKept ==
  ASSUME IInv, [Next]_vars
  PROVE  /\ routes' \in [Keys -> Routes \cup {Nothing}]
         /\ registry' \in [Skills -> Entries \cup {Nothing}]
<1>1. CASE UNCHANGED <<routes, registry>>
  BY <1>1 DEF IInv
<1>2. ASSUME NEW t \in Threads, Find(t)
      PROVE  routes' \in [Keys -> Routes \cup {Nothing}] /\ UNCHANGED registry
  <2>1. UNCHANGED registry
    BY <1>2, Zenon DEF Find
  <2> QED
    BY <1>2, <2>1, FindKeeps
<1>3. ASSUME NEW s \in Skills, NEW e \in Entries, Register(s, e)
      PROVE  registry' \in [Skills -> Entries \cup {Nothing}] /\ UNCHANGED routes
  BY <1>3 DEF Register, IInv
<1>4. ASSUME NEW t \in Threads, Step(t), ~Find(t) PROVE UNCHANGED <<routes, registry>>
  BY <1>4, Zenon
  DEF Step, RecordIntent, CacheLookup, L1Admit, FindNone, FoundRecorded, MissRecorded, FetchAndCheck,
      L2Admit, LoadMissing, LoadFits, LoadOverruns, ReloadFits, ReloadRaises, L3Admit, RunSucceeds, RunFails,
      RunRaises, Store
<1>5. ASSUME NEW t \in Threads, NEW s \in Sessions, NEW p \in Prompts, NEW g \in Regions,
             Receive(t, s, p, g)
      PROVE  UNCHANGED <<routes, registry>>
  BY <1>5, Zenon DEF Receive
<1>6. ASSUME NEW k \in Keys, CacheForget(k) PROVE UNCHANGED <<routes, registry>>
  BY <1>6, Zenon DEF CacheForget
<1>7. CASE Tick
  BY <1>1, <1>7, Zenon DEF Tick
<1>8. CASE UNCHANGED vars
  BY <1>1, <1>8 DEF vars
<1>9. routes \in [Keys -> Routes \cup {Nothing}] /\ registry \in [Skills -> Entries \cup {Nothing}]
  BY DEF IInv
<1> QED
  BY <1>1, <1>2, <1>3, <1>4, <1>5, <1>6, <1>7, <1>8, <1>9, Zenon DEF Next

\* The initial state satisfies the invariant.
LEMMA InitInv == Init => IInv
<1> SUFFICES ASSUME Init PROVE IInv
  OBVIOUS
<1>1. NewStats \in BreakerRecord
  BY NewConsistent DEF BreakerRecord, Consistent
<1>2. l3 \in [Skills -> BreakerRecord]
  BY <1>1 DEF Init
<1>3. routes \in [Keys -> Routes \cup {Nothing}] /\ Stock
  BY DEF Init, Stock
<1>4. registry \in [Skills -> Entries \cup {Nothing}]
  BY EngineAssumption DEF Init
<1>5. Requests
  BY DEF Init, Requests
<1> QED
  BY <1>2, <1>3, <1>4, <1>5, Zenon DEF IInv

\* Every step keeps it.
LEMMA NextInv == IInv /\ [Next]_vars => IInv'
<1> SUFFICES ASSUME IInv, [Next]_vars PROVE IInv'
  OBVIOUS
<1> QED
  BY L3Steps, RequestsKept, StockKept, TablesKept, Zenon DEF IInv

-----------------------------------------------------------------------------
(* The theorems *)

\* The invariant, for every pipeline.
THEOREM Invariant == Spec => []IInv
<1> QED
  BY InitInv, NextInv, PTL DEF Spec

\* What TripsAreOwnFault asks of a step holds of each.
LEMMA StepsTripTheirOwn ==
  IInv /\ [Next]_vars =>
    [\A s \in Skills :
       (l3[s].state = CLOSED /\ l3'[s].state # CLOSED)
         => \E t \in Threads : At(t, "run") /\ call[t].top = s /\ Answered(t)]_vars
<1> QED
  BY L3Steps, Zenon DEF OwnFault

\* A request that gets an answer with an output gets the one in the cache or the one it has
\* just stored.
LEMMA OkAnswers ==
  ASSUME IInv, NEW t \in Threads, Step(t), Answered(t), answer'.tier = "ok"
  PROVE  CacheLookup(t) \/ Store(t)
<1>1. ASSUME NEW x \in Tiers, Fails(t, x) PROVE FALSE
  <2>1. answer'.tier = x
    BY <1>1 DEF Fails, Replies
  <2> QED
    BY <2>1 DEF Tiers
<1>2. ASSUME call'[t] \in Calls PROVE FALSE
  BY <1>2, NothingAssumption DEF Answered
<1>3. ASSUME NEW pc \in {"cache", "find", "missed", "fetch", "load", "reload", "l3", "run", "store"},
             Goes(t, pc)
      PROVE  FALSE
  <2>1. call[t] \in Calls
    BY DEF Answered, IInv, Requests
  <2>2. [call[t] EXCEPT !.pc = pc] \in Calls
    BY <2>1, MovedOn
  <2>3. call'[t] = [call[t] EXCEPT !.pc = pc]
    BY <1>3 DEF Goes, Proceeds, IInv, Requests
  <2> QED
    BY <1>2, <2>2, <2>3
<1>4. ~Find(t)
  BY <1>2, FindKeeps
<1>5. ~FetchAndCheck(t)
  BY <1>1, <1>2, CheckKeeps DEF Tiers
<1>6. ~RecordIntent(t) /\ ~L1Admit(t) /\ ~FindNone(t) /\ ~FoundRecorded(t) /\ ~MissRecorded(t)
  BY <1>1, <1>3 DEF RecordIntent, L1Admit, FindNone, FoundRecorded, MissRecorded, Tiers
<1>7. ~L2Admit(t) /\ ~LoadMissing(t) /\ ~LoadFits(t) /\ ~LoadOverruns(t)
  BY <1>1, <1>3 DEF L2Admit, LoadMissing, LoadFits, LoadOverruns, Tiers
<1>8. ~ReloadFits(t) /\ ~ReloadRaises(t) /\ ~L3Admit(t)
  BY <1>1, <1>3 DEF ReloadFits, ReloadRaises, L3Admit, Tiers
<1>9. ~RunSucceeds(t) /\ ~RunFails(t) /\ ~RunRaises(t)
  BY <1>1, <1>3 DEF RunSucceeds, RunFails, RunRaises, Tiers
<1> QED
  BY <1>4, <1>5, <1>6, <1>7, <1>8, <1>9, Zenon DEF Step

\* A thread's request is ended by the thread's own step.
LEMMA OwnStepAnswers ==
  ASSUME IInv, [Next]_vars, NEW t \in Threads, Answered(t)
  PROVE  Step(t)
<1>0. call \in [Threads -> Calls \cup {Nothing}]
  BY DEF IInv, Requests
<1>1. ASSUME UNCHANGED call PROVE FALSE
  BY <1>1 DEF Answered
<1>2. ASSUME NEW u \in Threads, NEW c, call' = [call EXCEPT ![u] = c] PROVE u = t
  BY <1>0, <1>2 DEF Answered
<1>3. ASSUME NEW u \in Threads, Step(u) PROVE u = t
  <2>1. \E c : call' = [call EXCEPT ![u] = c]
    BY <1>3, Zenon
    DEF Step, RecordIntent, CacheLookup, L1Admit, FindNone, Find, FoundRecorded,
          MissRecorded, FetchAndCheck, L2Admit,
        LoadMissing, LoadFits, LoadOverruns, ReloadFits, ReloadRaises, L3Admit, RunSucceeds,
        RunFails, RunRaises, Store, Goes, Proceeds, Fails, Replies
  <2> QED
    BY <1>2, <2>1
<1>4. ASSUME NEW u \in Threads, NEW s \in Sessions, NEW p \in Prompts, NEW g \in Regions,
             Receive(u, s, p, g)
      PROVE  FALSE
  <2>1. call[u] = Nothing
    BY <1>4, Zenon DEF Receive
  <2>2. \E c : call' = [call EXCEPT ![u] = c]
    BY <1>4, Zenon DEF Receive, Fails, Replies, Proceeds
  <2> QED
    BY <1>2, <2>1, <2>2 DEF Answered
<1>5. ASSUME NEW k \in Keys, CacheForget(k) PROVE FALSE
  BY <1>1, <1>5, Zenon DEF CacheForget
<1>6. ASSUME NEW s \in Skills, NEW e \in Entries, Register(s, e) PROVE FALSE
  BY <1>1, <1>6, Zenon DEF Register
<1>7. ~Tick
  BY <1>1, Zenon DEF Tick
<1>8. ~UNCHANGED vars
  BY <1>1 DEF vars
<1> QED
  BY <1>3, <1>4, <1>5, <1>6, <1>7, <1>8, Zenon DEF Next

\* What OutputsArePermitted asks of a step holds of each.
LEMMA AnswersArePermitted ==
  ASSUME IInv, [Next]_vars, NEW t \in Threads, Answered(t), answer'.tier = "ok"
  PROVE  LET o == answer'.output
         IN  /\ o.region = call[t].region /\ o.asked = Norm[call[t].prompt]
             /\ Permits(o.entry, call[t].region)
<1> DEFINE c == call[t]
           k == Key(c.prompt, c.region)
<1>1. c \in Calls
  BY DEF Answered, IInv, Requests
<1>2. k \in Keys /\ k[1] = Norm[c.prompt] /\ k[2] = c.region
  BY <1>1, KeyOfRequest
<1>3. Step(t)
  BY OwnStepAnswers
<1>4. Suits(answer'.output, k)
  <2>1. CASE Store(t)
    BY <2>1, StoredOutputSuits
  <2>2. CASE CacheLookup(t)
    <3>1. CASE Goes(t, "l1")
      <4>1. [c EXCEPT !.pc = "l1"] \in Calls
        BY <1>1, MovedOn
      <4>2. call'[t] = [c EXCEPT !.pc = "l1"]
        BY <3>1 DEF Goes, Proceeds, IInv, Requests
      <4> QED
        BY <4>1, <4>2, NothingAssumption DEF Answered
    <3>2. CASE cache[k] # Nothing /\ Replies(t, "ok", cache[k], FALSE, TRUE)
      <4>1. answer'.output = cache[k]
        BY <3>2 DEF Replies
      <4> QED
        BY <1>2, <3>2, <4>1, Zenon DEF IInv, Stock
    <3> QED
      BY <2>2, <3>1, <3>2, Zenon DEF CacheLookup
  <2> QED
    BY <1>3, <2>1, <2>2, OkAnswers
<1> HIDE DEF k
<1> QED
  BY <1>2, <1>4, Zenon DEF Suits

\* The same of all the threads at once.
LEMMA StepsAnswerPermitted ==
  IInv /\ [Next]_vars =>
    [\A t \in Threads :
       (Answered(t) /\ answer'.tier = "ok")
         => LET o == answer'.output
            IN  /\ o.region = call[t].region /\ o.asked = Norm[call[t].prompt]
                /\ Permits(o.entry, call[t].region)]_vars
<1> QED
  BY AnswersArePermitted, Zenon

\* A skill is taken out of service by failures of its own runs alone, whatever the other
\* requests, the clock and the registry do meanwhile.
THEOREM SkillsFailAlone == Spec => TripsAreOwnFault
<1> QED
  BY Invariant, StepsTripTheirOwn, PTL DEF Spec, TripsAreOwnFault

\* No request is handed an output that was made for another region or prompt, or by a skill
\* the policy did not permit there: not out of the cache, and not after any registration or
\* other requests' steps between the check and the answer.
THEOREM AnswersStayPermitted == Spec => OutputsArePermitted
<1> QED
  BY Invariant, StepsAnswerPermitted, PTL DEF Spec, OutputsArePermitted

-----------------------------------------------------------------------------
(* All the breakers, and the types *)

\* A session's L1 breaker leaves CLOSED only over a retrieval for that session that found
\* no skill.
SessionTripsAreOwn ==
  [][\A n \in Sessions :
       (l1[n].state = CLOSED /\ l1'[n].state # CLOSED)
         => \E t \in Threads : At(t, "missed") /\ call[t].session = n /\ Answered(t)]_vars

\* A skill's L2 breaker leaves CLOSED only over a load of that skill that overran.
LoaderTripsAreOwn ==
  [][\A s \in Skills :
       (l2[s].state = CLOSED /\ l2'[s].state # CLOSED)
         => s \in MayOverrun /\ \E t \in Threads : At(t, "load") /\ call[t].top = s]_vars

\* The counters of every breaker agree with its state.
BreakersAgree ==
  /\ \A n \in Sessions : Consistent(l1[n])
  /\ \A s \in Skills : Consistent(l2[s]) /\ Consistent(l3[s])

\* The steps, as the two ask them to be.
SessionFault ==
  \A n \in Sessions :
    (l1[n].state = CLOSED /\ l1'[n].state # CLOSED)
      => \E t \in Threads : At(t, "missed") /\ call[t].session = n /\ Answered(t)

LoaderFault ==
  \A s \in Skills :
    (l2[s].state = CLOSED /\ l2'[s].state # CLOSED)
      => s \in MayOverrun /\ \E t \in Threads : At(t, "load") /\ call[t].top = s

TypeInv ==
  /\ IInv
  /\ l1 \in [Sessions -> BreakerRecord] /\ l2 \in [Skills -> BreakerRecord]
  /\ answer # Nothing => answer \in Answers

\* One breaker of a table of breakers is replaced by what an operation makes of it.
LEMMA TableStep ==
  ASSUME NEW S, NEW f \in [S -> BreakerRecord], NEW s, NEW b,
         s \in S => b \in BreakerRecord
  PROVE  /\ [f EXCEPT ![s] = b] \in [S -> BreakerRecord]
         /\ \A u \in S : [f EXCEPT ![s] = b][u] = IF u = s THEN b ELSE f[u]
  OBVIOUS

LEMMA L1Steps ==
  ASSUME TypeInv, [Next]_vars
  PROVE  l1' \in [Sessions -> BreakerRecord] /\ SessionFault
<1>0. l1 \in [Sessions -> BreakerRecord] /\ call \in [Threads -> Calls \cup {Nothing}]
  BY DEF TypeInv, IInv, Requests
<1>u. ASSUME UNCHANGED l1 PROVE l1' \in [Sessions -> BreakerRecord] /\ SessionFault
  BY <1>0, <1>u DEF SessionFault
<1>h. ASSUME NEW n, NEW b, l1' = [l1 EXCEPT ![n] = b],
             n \in Sessions => b \in BreakerRecord /\ (l1[n].state = CLOSED => b.state = CLOSED)
      PROVE  l1' \in [Sessions -> BreakerRecord] /\ SessionFault
  BY <1>0, <1>h, TableStep DEF SessionFault
<1>1. ASSUME NEW t \in Threads, Step(t)
      PROVE  l1' \in [Sessions -> BreakerRecord] /\ SessionFault
  <2> DEFINE n == call[t].session
  <2>1. CASE L1Admit(t)
    <3>1. l1' = [l1 EXCEPT ![n] = CallAllowed(l1[n])]
      BY <2>1 DEF L1Admit
    <3>2. n \in Sessions => /\ CallAllowed(l1[n]) \in BreakerRecord
                            /\ l1[n].state = CLOSED => CallAllowed(l1[n]).state = CLOSED
      BY <1>0, OnlyFailuresTrip
    <3> QED
      BY <1>h, <3>1, <3>2
  <2>2. CASE FoundRecorded(t)
    <3>1. l1' = [l1 EXCEPT ![n] = RecordSuccess(l1[n])]
      BY <2>2 DEF FoundRecorded
    <3>2. n \in Sessions => /\ RecordSuccess(l1[n]) \in BreakerRecord
                            /\ l1[n].state = CLOSED => RecordSuccess(l1[n]).state = CLOSED
      BY <1>0, OnlyFailuresTrip
    <3> QED
      BY <1>h, <3>1, <3>2
  <2>3. CASE MissRecorded(t)
    <3> DEFINE b == RecordFailure(l1[n])
    <3>1. l1' = [l1 EXCEPT ![n] = b] /\ At(t, "missed") /\ Fails(t, "L1")
      BY <2>3 DEF MissRecorded
    <3>2. n \in Sessions => b \in BreakerRecord
      BY <1>0, FailureKeepsShape
    <3>3. Answered(t)
      BY <1>0, <3>1 DEF Answered, At, Fails, Replies
    <3> HIDE DEF b
    <3>4. /\ l1' \in [Sessions -> BreakerRecord]
          /\ \A u \in Sessions : u # n => l1'[u] = l1[u]
      BY <1>0, <3>1, <3>2, TableStep
    <3> QED
      BY <3>1, <3>3, <3>4, Zenon DEF SessionFault
  <2>4. CASE ~(L1Admit(t) \/ FoundRecorded(t) \/ MissRecorded(t))
    <3>1. UNCHANGED l1
      BY <1>1, <2>4, Zenon
      DEF Step, RecordIntent, CacheLookup, Find, FindNone, FetchAndCheck, L2Admit, LoadMissing, LoadFits,
          LoadOverruns, ReloadFits, ReloadRaises, L3Admit, RunSucceeds, RunFails, RunRaises,
          Store
    <3> QED
      BY <3>1, <1>u
  <2> QED
    BY <2>1, <2>2, <2>3, <2>4
<1>2. ASSUME NEW t \in Threads, NEW s \in Sessions, NEW p \in Prompts, NEW g \in Regions,
             Receive(t, s, p, g)
      PROVE  UNCHANGED l1
  BY <1>2, Zenon DEF Receive
<1>3. ASSUME NEW k \in Keys, CacheForget(k) PROVE UNCHANGED l1
  BY <1>3, Zenon DEF CacheForget
<1>4. ASSUME NEW s \in Skills, NEW e \in Entries, Register(s, e) PROVE UNCHANGED l1
  BY <1>4, Zenon DEF Register
<1>5. CASE Tick
  <2>1. l1' = [x \in Sessions |-> Aged(l1[x])]
    BY <1>0, <1>5 DEF Tick, AllAged
  <2>2. \A x \in Sessions : /\ Aged(l1[x]) \in BreakerRecord
                            /\ l1[x].state = CLOSED => Aged(l1[x]).state = CLOSED
    BY <1>0, OnlyFailuresTrip
  <2> QED
    BY <2>1, <2>2 DEF SessionFault
<1>6. CASE UNCHANGED vars
  BY <1>6, <1>u DEF vars
<1> QED
  BY <1>1, <1>2, <1>3, <1>4, <1>5, <1>6, <1>u, Zenon DEF Next

LEMMA L2Steps ==
  ASSUME TypeInv, [Next]_vars
  PROVE  l2' \in [Skills -> BreakerRecord] /\ LoaderFault
<1>0. l2 \in [Skills -> BreakerRecord]
  BY DEF TypeInv
<1>u. ASSUME UNCHANGED l2 PROVE l2' \in [Skills -> BreakerRecord] /\ LoaderFault
  BY <1>0, <1>u DEF LoaderFault
<1>h. ASSUME NEW s, NEW b, l2' = [l2 EXCEPT ![s] = b],
             s \in Skills => b \in BreakerRecord /\ (l2[s].state = CLOSED => b.state = CLOSED)
      PROVE  l2' \in [Skills -> BreakerRecord] /\ LoaderFault
  BY <1>0, <1>h, TableStep DEF LoaderFault
<1>1. ASSUME NEW t \in Threads, Step(t)
      PROVE  l2' \in [Skills -> BreakerRecord] /\ LoaderFault
  <2> DEFINE s == call[t].top
  <2>1. CASE L2Admit(t)
    <3>1. l2' = [l2 EXCEPT ![s] = CallAllowed(l2[s])]
      BY <2>1 DEF L2Admit
    <3>2. s \in Skills => /\ CallAllowed(l2[s]) \in BreakerRecord
                          /\ l2[s].state = CLOSED => CallAllowed(l2[s]).state = CLOSED
      BY <1>0, OnlyFailuresTrip
    <3> QED
      BY <1>h, <3>1, <3>2
  <2>2. CASE LoadFits(t) \/ ReloadFits(t)
    <3>1. l2' = [l2 EXCEPT ![s] = RecordSuccess(l2[s])]
      BY <2>2 DEF LoadFits, ReloadFits
    <3>2. s \in Skills => /\ RecordSuccess(l2[s]) \in BreakerRecord
                          /\ l2[s].state = CLOSED => RecordSuccess(l2[s]).state = CLOSED
      BY <1>0, OnlyFailuresTrip
    <3> QED
      BY <1>h, <3>1, <3>2
  <2>3. CASE LoadOverruns(t)
    <3> DEFINE b == RecordFailure(l2[s])
    <3>1. l2' = [l2 EXCEPT ![s] = b] /\ At(t, "load") /\ s \in MayOverrun
      BY <2>3 DEF LoadOverruns
    <3>2. s \in Skills => b \in BreakerRecord
      BY <1>0, FailureKeepsShape
    <3> HIDE DEF b
    <3>3. /\ l2' \in [Skills -> BreakerRecord]
          /\ \A u \in Skills : u # s => l2'[u] = l2[u]
      BY <1>0, <3>1, <3>2, TableStep
    <3> QED
      BY <3>1, <3>3, Zenon DEF LoaderFault
  <2>4. CASE ~(L2Admit(t) \/ LoadFits(t) \/ ReloadFits(t) \/ LoadOverruns(t))
    <3>1. UNCHANGED l2
      BY <1>1, <2>4, Zenon
      DEF Step, RecordIntent, CacheLookup, L1Admit, FindNone, Find, FoundRecorded,
          MissRecorded, FetchAndCheck,
          LoadMissing, ReloadRaises, L3Admit, RunSucceeds, RunFails, RunRaises, Store
    <3> QED
      BY <3>1, <1>u
  <2> QED
    BY <2>1, <2>2, <2>3, <2>4
<1>2. ASSUME NEW t \in Threads, NEW s \in Sessions, NEW p \in Prompts, NEW g \in Regions,
             Receive(t, s, p, g)
      PROVE  UNCHANGED l2
  BY <1>2, Zenon DEF Receive
<1>3. ASSUME NEW k \in Keys, CacheForget(k) PROVE UNCHANGED l2
  BY <1>3, Zenon DEF CacheForget
<1>4. ASSUME NEW s \in Skills, NEW e \in Entries, Register(s, e) PROVE UNCHANGED l2
  BY <1>4, Zenon DEF Register
<1>5. CASE Tick
  <2>1. l2' = [x \in Skills |-> Aged(l2[x])]
    BY <1>0, <1>5 DEF Tick, AllAged
  <2>2. \A x \in Skills : /\ Aged(l2[x]) \in BreakerRecord
                          /\ l2[x].state = CLOSED => Aged(l2[x]).state = CLOSED
    BY <1>0, OnlyFailuresTrip
  <2> QED
    BY <2>1, <2>2 DEF LoaderFault
<1>6. CASE UNCHANGED vars
  BY <1>6, <1>u DEF vars
<1> QED
  BY <1>1, <1>2, <1>3, <1>4, <1>5, <1>6, <1>u, Zenon DEF Next

\* Every reply is an answer: one of the tiers, with an output of the cache or a new one.
LEMMA AnswersKept ==
  ASSUME TypeInv, [Next]_vars
  PROVE  answer' # Nothing => answer' \in Answers
<1>f. ASSUME NEW t, NEW x \in Tiers, Fails(t, x) PROVE answer' \in Answers
  BY <1>f DEF Fails, Replies, Answers
<1>1. ASSUME NEW t \in Threads, CacheLookup(t) PROVE answer' = Nothing \/ answer' \in Answers
  <2> DEFINE k == Key(call[t].prompt, call[t].region)
  <2>1. call[t] \in Calls
    BY <1>1 DEF CacheLookup, At, TypeInv, IInv, Requests
  <2>2. k \in Keys
    BY <2>1, KeyOfRequest
  <2>3. CASE cache[k] # Nothing /\ Replies(t, "ok", cache[k], FALSE, TRUE)
    <3>1. cache[k] \in Outputs
      BY <2>2, <2>3 DEF TypeInv, IInv, Stock
    <3> QED
      BY <2>3, <3>1 DEF Replies, Answers
  <2>4. CASE answer' = Nothing
    BY <2>4
  <2> QED
    BY <1>1, <2>3, <2>4, Zenon DEF CacheLookup, Goes, Proceeds
<1>2. ASSUME NEW t \in Threads, Store(t) PROVE answer' \in Answers
  <2>1. PICK o \in Outputs :
          answer' = [tier |-> "ok", output |-> o, was_cached |-> FALSE,
                     requires_review |-> call[t].review]
    BY <1>2, StoredOutputSuits DEF TypeInv
  <2>2. call[t].review \in BOOLEAN
    BY <1>2 DEF Store, At, TypeInv, IInv, Requests, Calls
  <2> QED
    BY <2>1, <2>2 DEF Answers
<1>3. ASSUME NEW t \in Threads, Step(t), ~CacheLookup(t), ~Store(t)
      PROVE  answer' = Nothing \/ \E x \in Tiers : Fails(t, x)
  <2>1. {"firewall", "intent_loop", "L1", "security", "L2", "L3", "circuit_breaker"} \subseteq Tiers
    BY DEF Tiers
  <2>2. CASE RecordIntent(t) \/ L1Admit(t) \/ FindNone(t) \/ Find(t)
    BY <2>1, <2>2 DEF RecordIntent, L1Admit, FindNone, Find, Goes, Proceeds
  <2>6. CASE FoundRecorded(t) \/ MissRecorded(t)
    BY <2>1, <2>6 DEF FoundRecorded, MissRecorded, Goes, Proceeds
  <2>3. CASE FetchAndCheck(t) \/ L2Admit(t) \/ LoadMissing(t) \/ LoadFits(t)
    BY <2>1, <2>3 DEF FetchAndCheck, L2Admit, LoadMissing, LoadFits, Goes, Proceeds
  <2>4. CASE LoadOverruns(t) \/ ReloadFits(t) \/ ReloadRaises(t) \/ L3Admit(t)
    BY <2>1, <2>4 DEF LoadOverruns, ReloadFits, ReloadRaises, L3Admit, Goes, Proceeds
  <2>5. CASE RunSucceeds(t) \/ RunFails(t) \/ RunRaises(t)
    BY <2>1, <2>5 DEF RunSucceeds, RunFails, RunRaises, Goes, Proceeds
  <2> QED
    BY <1>3, <2>2, <2>3, <2>4, <2>5, <2>6, Zenon DEF Step
<1>4. ASSUME NEW t \in Threads, NEW s \in Sessions, NEW p \in Prompts, NEW g \in Regions,
             Receive(t, s, p, g)
      PROVE  answer' = Nothing \/ Fails(t, "firewall")
  BY <1>4, Zenon DEF Receive, Proceeds
<1>5. "firewall" \in Tiers
  BY DEF Tiers
<1>6. ASSUME \/ \E k \in Keys : CacheForget(k)
             \/ \E s \in Skills, e \in Entries : Register(s, e)
             \/ Tick
      PROVE  answer' = Nothing
  BY <1>6, Zenon DEF CacheForget, Register, Tick
<1>7. CASE UNCHANGED vars
  BY <1>7 DEF vars, TypeInv
<1> QED
  BY <1>f, <1>1, <1>2, <1>3, <1>4, <1>5, <1>6, <1>7, Zenon DEF Next

LEMMA TypeInitInv == Init => TypeInv
<1> SUFFICES ASSUME Init PROVE TypeInv
  OBVIOUS
<1>1. NewStats \in BreakerRecord
  BY NewConsistent DEF BreakerRecord, Consistent
<1>2. l1 \in [Sessions -> BreakerRecord] /\ l2 \in [Skills -> BreakerRecord] /\ answer = Nothing
  BY <1>1 DEF Init
<1> QED
  BY <1>2, InitInv DEF TypeInv

LEMMA TypeNextInv == TypeInv /\ [Next]_vars => TypeInv' /\ SessionFault /\ LoaderFault
<1> SUFFICES ASSUME TypeInv, [Next]_vars PROVE TypeInv' /\ SessionFault /\ LoaderFault
  OBVIOUS
<1>1. IInv'
  BY NextInv DEF TypeInv
<1> QED
  BY <1>1, L1Steps, L2Steps, AnswersKept, Zenon DEF TypeInv

LEMMA TypeInvariance == Spec => []TypeInv
<1>1. TypeInv /\ [Next]_vars => TypeInv'
  BY TypeNextInv
<1> QED
  BY <1>1, TypeInitInv, PTL DEF Spec

LEMMA TypesMean == TypeInv => TypeOK
<1> SUFFICES ASSUME TypeInv PROVE TypeOK
  OBVIOUS
<1>1. l1 \in [Sessions -> BreakerStats] /\ l2 \in [Skills -> BreakerStats]
      /\ l3 \in [Skills -> BreakerStats]
  BY DEF TypeInv, IInv, BreakerRecord
<1>2. /\ \A k \in Keys : routes[k] # Nothing => routes[k] \in Routes
      /\ \A s \in Skills : registry[s] # Nothing => registry[s] \in Entries
      /\ \A t \in Threads : call[t] # Nothing => call[t] \in Calls
  BY DEF TypeInv, IInv, Requests
<1>3. \A k \in Keys : cache[k] # Nothing => cache[k] \in Outputs
  BY DEF TypeInv, IInv, Stock
<1> QED
  BY <1>1, <1>2, <1>3, Zenon DEF TypeInv, TypeOK

\* Every table of the engine, every request under way and every answer keeps its type, for
\* any threads, sessions, prompts, skills and registrations.
THEOREM EngineTypeCorrect == Spec => []TypeOK
<1> QED
  BY TypeInvariance, TypesMean, PTL

LEMMA AgreementMeans == TypeInv => BreakersAgree
  BY DEF TypeInv, IInv, BreakerRecord, BreakersAgree

\* Every breaker of the engine keeps its counters in agreement with its state, however the
\* requests of all threads interleave on it: the pipeline calls it in no order of its own.
THEOREM BreakersAlwaysAgree == Spec => []BreakersAgree
<1> QED
  BY TypeInvariance, AgreementMeans, PTL

LEMMA StepsTripTheirSession ==
  TypeInv /\ [Next]_vars =>
    [\A n \in Sessions :
       (l1[n].state = CLOSED /\ l1'[n].state # CLOSED)
         => \E t \in Threads : At(t, "missed") /\ call[t].session = n /\ Answered(t)]_vars
  BY TypeNextInv, Zenon DEF SessionFault

LEMMA StepsTripTheirLoader ==
  TypeInv /\ [Next]_vars =>
    [\A s \in Skills :
       (l2[s].state = CLOSED /\ l2'[s].state # CLOSED)
         => s \in MayOverrun /\ \E t \in Threads : At(t, "load") /\ call[t].top = s]_vars
  BY TypeNextInv, Zenon DEF LoaderFault

\* A session loses L1 by its own retrievals that find nothing, whatever the other sessions,
\* the skills and the clock do meanwhile.
THEOREM SessionsFailAlone == Spec => SessionTripsAreOwn
<1> QED
  BY TypeInvariance, StepsTripTheirSession, PTL DEF Spec, SessionTripsAreOwn

\* A skill is shut out of L2 by overruns of its own instructions alone.
THEOREM LoadersFailAlone == Spec => LoaderTripsAreOwn
<1> QED
  BY TypeInvariance, StepsTripTheirLoader, PTL DEF Spec, LoaderTripsAreOwn

-----------------------------------------------------------------------------
(* Overruns that the reload recovers from *)

\* The threads that reload s after an overrun.
Reloaders(s) == {t \in Threads : At(t, "reload") /\ call[t].top = s}

\* No request is lost in the pruned reload of s.
ReloadsFit(s) == [][\A t \in Threads : ReloadRaises(t) => call[t].top # s]_vars

\* The loader of s opens only while a whole threshold of threads reload s at once.
OnlyPileUpsShut(s) ==
  [][(l2[s].state = CLOSED /\ l2'[s].state # CLOSED)
       => Cardinality(Reloaders(s)') >= FailureThreshold]_vars

\* As long as the loader is closed, no more failures are counted against it than threads
\* reload, each of which is still to record its success.
Backed(s) ==
  /\ IsFiniteSet(Reloaders(s))
  /\ l2[s].state = CLOSED => l2[s].failure_count <= Cardinality(Reloaders(s))

\* The step, as ReloadsFit and OnlyPileUpsShut ask it to be.
FitsReload(s) == \A t \in Threads : ReloadRaises(t) => call[t].top # s

PilesUp(s) ==
  (l2[s].state = CLOSED /\ l2'[s].state # CLOSED)
    => Cardinality(Reloaders(s)') >= FailureThreshold

\* A step by which t's request becomes c, and who reloads s after it.
LEMMA ReloadersAre ==
  ASSUME Requests, NEW t \in Threads, NEW c, call' = [call EXCEPT ![t] = c], NEW s
  PROVE  Reloaders(s)' = IF c # Nothing /\ c.pc = "reload" /\ c.top = s
                           THEN Reloaders(s) \cup {t} ELSE Reloaders(s) \ {t}
<1>1. call'[t] = c /\ \A u \in Threads : u # t => call'[u] = call[u]
  BY DEF Requests
<1> QED
  BY <1>1 DEF Reloaders, At

\* Going somewhere else than to the reload, t no longer reloads.
LEMMA GoingElsewhere ==
  ASSUME Requests, NEW t \in Threads, call[t] # Nothing, NEW s,
         NEW pc \in {"intent", "cache", "l1", "find", "missed", "found", "fetch", "l2", "load",
                     "l3", "run", "store"},
         Goes(t, pc)
  PROVE  Reloaders(s)' = Reloaders(s) \ {t}
<1> DEFINE d == [call[t] EXCEPT !.pc = pc]
<1>1. call[t] \in Calls
  BY DEF Requests
<1>2. d.pc = pc
  BY <1>1 DEF Calls
<1>3. call' = [call EXCEPT ![t] = d]
  BY DEF Goes, Proceeds
<1> HIDE DEF d
<1> QED
  BY <1>2, <1>3, ReloadersAre

\* Nor does it after an answer.
LEMMA AnsweredElsewhere ==
  ASSUME Requests, NEW t \in Threads, NEW s, NEW x, NEW o, NEW r, NEW h, Replies(t, x, o, r, h)
  PROVE  Reloaders(s)' = Reloaders(s) \ {t}
<1>1. call' = [call EXCEPT ![t] = Nothing]
  BY DEF Replies
<1> QED
  BY <1>1, ReloadersAre

\* The steps away from L2 change neither the count nor who reloads.
LEMMA AwayFromL2 ==
  ASSUME TypeInv, NEW t \in Threads,
         \/ RecordIntent(t) \/ CacheLookup(t) \/ L1Admit(t) \/ FindNone(t) \/ Find(t)
         \/ FoundRecorded(t) \/ MissRecorded(t) \/ FetchAndCheck(t) \/ LoadMissing(t)
         \/ L3Admit(t) \/ RunSucceeds(t) \/ RunFails(t) \/ RunRaises(t) \/ Store(t)
  PROVE  UNCHANGED l2 /\ \A s : Reloaders(s)' = Reloaders(s)
<1>0. Requests
  BY DEF TypeInv, IInv
<1>1. UNCHANGED l2 /\ call[t] # Nothing /\ ~At(t, "reload")
  BY Zenon DEF RecordIntent, CacheLookup, L1Admit, FindNone, Find, FoundRecorded, MissRecorded,
               FetchAndCheck, LoadMissing, L3Admit, RunSucceeds, RunFails, RunRaises, Store, At
<1>2. ASSUME NEW s PROVE Reloaders(s)' = Reloaders(s) \ {t}
  <2>1. ASSUME NEW x, NEW o, NEW r, NEW h, Replies(t, x, o, r, h)
        PROVE  Reloaders(s)' = Reloaders(s) \ {t}
    BY <1>0, <2>1, AnsweredElsewhere
  <2>2. ASSUME NEW x, Fails(t, x) PROVE Reloaders(s)' = Reloaders(s) \ {t}
    BY <2>1, <2>2 DEF Fails
  <2>3. ASSUME NEW pc \in {"cache", "l1", "find", "missed", "fetch", "l3", "run", "store"},
               Goes(t, pc)
        PROVE  Reloaders(s)' = Reloaders(s) \ {t}
    BY <1>0, <1>1, <2>3, GoingElsewhere
  <2>4. CASE RecordIntent(t) \/ CacheLookup(t) \/ L1Admit(t)
    BY <2>1, <2>2, <2>3, <2>4 DEF RecordIntent, CacheLookup, L1Admit
  <2>9. CASE FindNone(t) \/ FoundRecorded(t) \/ MissRecorded(t)
    BY <2>2, <2>3, <2>9 DEF FindNone, FoundRecorded, MissRecorded
  <2>5. CASE LoadMissing(t) \/ L3Admit(t) \/ RunSucceeds(t)
    BY <2>2, <2>3, <2>5 DEF LoadMissing, L3Admit, RunSucceeds
  <2>6. CASE RunFails(t) \/ RunRaises(t) \/ Store(t)
    BY <2>1, <2>2, <2>6, Zenon DEF RunFails, RunRaises, Store
  <2>7. CASE Find(t)
    <3> DEFINE d(r) == [call[t] EXCEPT !.pc = "found", !.top = r.skill, !.review = r.review]
    <3>1. call[t] \in Calls
      BY <1>0, <1>1 DEF Requests
    <3>2. PICK r \in Retrieved(call[t].prompt, call[t].region) :
            call' = [call EXCEPT ![t] = d(r)]
      BY <2>7 DEF Find, Proceeds
    <3>3. r \in Routes
      BY <2>7, <3>1, <3>2, RetrievedIsRoute DEF TypeInv, IInv
    <3>4. d(r) \in Calls /\ d(r).pc = "found"
      BY <3>1, <3>3 DEF Calls, Routes
    <3> HIDE DEF d
    <3> QED
      BY <1>0, <3>2, <3>4, ReloadersAre
  <2>8. CASE FetchAndCheck(t)
    <3> DEFINE d == [call[t] EXCEPT !.pc = "l2", !.entry = registry[call[t].top]]
    <3>1. CASE Proceeds(t, d)
      <4>1. call[t] \in Calls
        BY <1>0, <1>1 DEF Requests
      <4>2. call' = [call EXCEPT ![t] = d] /\ d.pc = "l2"
        BY <3>1, <4>1 DEF Proceeds, Calls
      <4> HIDE DEF d
      <4> QED
        BY <1>0, <4>2, ReloadersAre
    <3>2. CASE \E x : Fails(t, x)
      BY <2>2, <3>2
    <3> QED
      BY <2>8, <3>1, <3>2, Zenon DEF FetchAndCheck
  <2> QED
    BY <2>4, <2>5, <2>6, <2>7, <2>8, <2>9
<1>3. \A s : t \notin Reloaders(s)
  BY <1>1 DEF Reloaders
<1> QED
  BY <1>1, <1>2, <1>3

\* What is said of s does not change where neither the loader nor who reloads does.
LEMMA Unmoved ==
  ASSUME NEW s \in Skills, Backed(s), l2'[s] = l2[s], Reloaders(s)' = Reloaders(s)
  PROVE  Backed(s)' /\ PilesUp(s)
  BY DEF Backed, PilesUp

\* At L2, a request of another skill.
LEMMA AtOthersL2 ==
  ASSUME TypeInv, NEW s \in Skills, Backed(s), NEW t \in Threads,
         L2Admit(t) \/ LoadFits(t) \/ LoadOverruns(t) \/ ReloadFits(t) \/ ReloadRaises(t),
         call[t].top # s
  PROVE  Backed(s)' /\ PilesUp(s)
<1>0. Requests /\ l2 \in [Skills -> BreakerRecord]
  BY DEF TypeInv, IInv
<1>1. call[t] \in Calls /\ call[t] # Nothing
  BY <1>0 DEF L2Admit, LoadFits, LoadOverruns, ReloadFits, ReloadRaises, At, Requests
<1>2. l2'[s] = l2[s]
  <2>1. UNCHANGED l2 \/ \E b : l2' = [l2 EXCEPT ![call[t].top] = b]
    BY Zenon DEF L2Admit, LoadFits, LoadOverruns, ReloadFits, ReloadRaises
  <2> QED
    BY <1>0, <2>1
<1>3. Reloaders(s)' = Reloaders(s) \ {t}
  <2>1. ASSUME NEW x, Fails(t, x) PROVE Reloaders(s)' = Reloaders(s) \ {t}
    BY <1>0, <2>1, AnsweredElsewhere DEF Fails
  <2>2. ASSUME NEW pc \in {"load", "reload", "l3"}, Goes(t, pc)
        PROVE  Reloaders(s)' = Reloaders(s) \ {t}
    <3> DEFINE d == [call[t] EXCEPT !.pc = pc]
    <3>1. d.top # s /\ call' = [call EXCEPT ![t] = d]
      BY <1>1, <2>2, MovedOn DEF Goes, Proceeds
    <3> HIDE DEF d
    <3> QED
      BY <1>0, <3>1, ReloadersAre
  <2> QED
    BY <2>1, <2>2 DEF L2Admit, LoadFits, LoadOverruns, ReloadFits, ReloadRaises
<1>4. t \notin Reloaders(s)
  BY DEF Reloaders
<1> QED
  BY <1>2, <1>3, <1>4, Unmoved

\* At L2, a request of s: an overrun that counts is of a thread that reloads from then on, and
\* a reload that ends has cleared the count.
LEMMA AtOwnL2 ==
  ASSUME TypeInv, TypeInv', NEW s \in Skills, Backed(s), FitsReload(s), NEW t \in Threads,
         L2Admit(t) \/ LoadFits(t) \/ LoadOverruns(t) \/ ReloadFits(t) \/ ReloadRaises(t),
         call[t].top = s
  PROVE  Backed(s)' /\ PilesUp(s)
<1>0. Requests /\ l2 \in [Skills -> BreakerRecord] /\ l2' \in [Skills -> BreakerRecord]
  BY DEF TypeInv, IInv
<1>1. call[t] \in Calls /\ call[t] # Nothing
  BY <1>0 DEF L2Admit, LoadFits, LoadOverruns, ReloadFits, ReloadRaises, At, Requests
<1>2. /\ l2[s] \in BreakerRecord /\ l2[s] \in BreakerStats /\ l2[s].failure_count \in 0..CountCap
      /\ l2'[s].state = CLOSED <=> l2'[s].failure_count < FailureThreshold
  BY <1>0 DEF BreakerRecord, BreakerStats, Consistent
<1>3. IsFiniteSet(Reloaders(s)) /\ Cardinality(Reloaders(s)) \in Nat
  BY FS_CardinalityType DEF Backed
<1>4. CASE L2Admit(t)
  <2>1. l2'[s] = CallAllowed(l2[s])
    BY <1>0, <1>4 DEF L2Admit
  <2>2. t \notin Reloaders(s)
    BY <1>4 DEF L2Admit, At, Reloaders
  <2>3. Reloaders(s)' = Reloaders(s)
    <3>1. ASSUME Goes(t, "load") PROVE Reloaders(s)' = Reloaders(s) \ {t}
      BY <1>0, <1>1, <3>1, GoingElsewhere
    <3>2. ASSUME Fails(t, "circuit_breaker") PROVE Reloaders(s)' = Reloaders(s) \ {t}
      BY <1>0, <3>2, AnsweredElsewhere DEF Fails
    <3>3. Goes(t, "load") \/ Fails(t, "circuit_breaker")
      BY <1>4, Zenon DEF L2Admit
    <3> QED
      BY <2>2, <3>1, <3>2, <3>3
  <2>4. CASE l2[s].state = OPEN /\ WindowElapsed(l2[s])
    <3>1. l2'[s].state = HALF_OPEN
      BY <1>2, <2>1, <2>4 DEF CallAllowed, BreakerStats
    <3> QED
      BY <1>3, <2>3, <2>4, <3>1 DEF Backed, PilesUp, CLOSED, OPEN, HALF_OPEN
  <2>5. CASE ~(l2[s].state = OPEN /\ WindowElapsed(l2[s]))
    BY <2>1, <2>3, <2>5, Unmoved DEF CallAllowed
  <2> QED
    BY <2>4, <2>5
<1>5. CASE LoadFits(t) \/ ReloadFits(t)
  <2>1. l2'[s] = RecordSuccess(l2[s]) /\ Goes(t, "l3")
    BY <1>0, <1>5 DEF LoadFits, ReloadFits
  <2>2. Reloaders(s)' = Reloaders(s) \ {t}
    BY <1>0, <1>1, <2>1, GoingElsewhere
  <2>3. IsFiniteSet(Reloaders(s)') /\ Cardinality(Reloaders(s)') \in Nat
    BY <1>3, <2>2, FS_RemoveElement, FS_CardinalityType
  <2>4. l2'[s].state = CLOSED => l2'[s].failure_count = 0
    BY <1>2, <2>1 DEF RecordSuccess, BreakerStats, BreakerState, CLOSED, OPEN, HALF_OPEN
  <2>5. l2[s].state = CLOSED => l2'[s].state = CLOSED
    BY <1>2, <2>1, OnlyFailuresTrip
  <2> QED
    BY <2>3, <2>4, <2>5 DEF Backed, PilesUp
<1>6. CASE LoadOverruns(t)
  <2> DEFINE d == [call[t] EXCEPT !.pc = "reload"]
  <2>1. l2'[s] = RecordFailure(l2[s]) /\ Goes(t, "reload")
    BY <1>0, <1>6 DEF LoadOverruns
  <2>2. d \in Calls /\ d.pc = "reload" /\ d.top = s /\ call' = [call EXCEPT ![t] = d]
    BY <1>1, <2>1, MovedOn DEF Goes, Proceeds
  <2> HIDE DEF d
  <2>3. Reloaders(s)' = Reloaders(s) \cup {t} /\ t \notin Reloaders(s)
    <3>1. t \notin Reloaders(s)
      BY <1>6 DEF LoadOverruns, At, Reloaders
    <3>2. Reloaders(s)' = Reloaders(s) \cup {t}
      BY <1>0, <2>2, NothingAssumption, ReloadersAre
    <3> QED
      BY <3>1, <3>2
  <2>4. /\ IsFiniteSet(Reloaders(s)')
        /\ Cardinality(Reloaders(s)') = Cardinality(Reloaders(s)) + 1
    BY <1>3, <2>3, FS_AddElement
  <2>5. l2'[s].failure_count = UpTo(CountCap, l2[s].failure_count + 1)
    BY <1>2, <2>1 DEF RecordFailure, BreakerStats
  <2>6. l2[s].state = CLOSED => l2'[s].failure_count <= Cardinality(Reloaders(s)')
    BY <1>2, <1>3, <2>4, <2>5, BreakerAssumption DEF UpTo, Backed
  <2>7. l2[s].state = CLOSED /\ l2'[s].state # CLOSED => l2'[s].failure_count >= FailureThreshold
    BY <1>2, <2>5, BreakerAssumption DEF UpTo
  <2>8. l2'[s].state = CLOSED => l2[s].state = CLOSED
    BY <1>2, <2>1, BreakerAssumption
    DEF RecordFailure, BreakerRecord, BreakerStats, Consistent, UpTo, CLOSED, OPEN
  <2>9. l2'[s].failure_count \in Int
    BY <1>2, <2>5, BreakerAssumption DEF UpTo
  <2> QED
    BY <1>3, <2>4, <2>6, <2>7, <2>8, <2>9, BreakerAssumption DEF Backed, PilesUp
<1>7. ~ReloadRaises(t)
  BY DEF FitsReload
<1> QED
  BY <1>4, <1>5, <1>6, <1>7

\* Every step keeps the failures that count backed by reloads.
LEMMA NextBacked ==
  ASSUME TypeInv, TypeInv', NEW s \in Skills, Backed(s), [Next]_vars, FitsReload(s)
  PROVE  Backed(s)' /\ PilesUp(s)
<1>u. ASSUME UNCHANGED <<l2, call>> PROVE Backed(s)' /\ PilesUp(s)
  BY <1>u, Unmoved DEF Reloaders, At
<1>1. ASSUME NEW t \in Threads, Step(t) PROVE Backed(s)' /\ PilesUp(s)
  <2>1. CASE L2Admit(t) \/ LoadFits(t) \/ LoadOverruns(t) \/ ReloadFits(t) \/ ReloadRaises(t)
    BY <2>1, AtOwnL2, AtOthersL2
  <2>2. CASE ~(L2Admit(t) \/ LoadFits(t) \/ LoadOverruns(t) \/ ReloadFits(t) \/ ReloadRaises(t))
    <3>1. UNCHANGED l2 /\ \A x : Reloaders(x)' = Reloaders(x)
      BY <1>1, <2>2, AwayFromL2, Zenon DEF Step
    <3> QED
      BY <3>1, Unmoved
  <2> QED
    BY <2>1, <2>2
<1>2. ASSUME NEW t \in Threads, NEW n \in Sessions, NEW p \in Prompts, NEW g \in Regions,
             Receive(t, n, p, g)
      PROVE  Backed(s)' /\ PilesUp(s)
  <2> DEFINE c == [pc |-> "intent", session |-> n, prompt |-> p, region |-> g,
                   top |-> Nothing, review |-> FALSE, entry |-> Nothing]
  <2>0. Requests /\ UNCHANGED l2 /\ t \notin Reloaders(s)
    BY <1>2, Zenon DEF Receive, TypeInv, IInv, Reloaders, At
  <2>1. ASSUME Fails(t, "firewall") PROVE Reloaders(s)' = Reloaders(s) \ {t}
    BY <2>0, <2>1, AnsweredElsewhere DEF Fails
  <2>2. ASSUME Proceeds(t, c) PROVE Reloaders(s)' = Reloaders(s) \ {t}
    <3>1. call' = [call EXCEPT ![t] = c] /\ c.pc = "intent"
      BY <2>2 DEF Proceeds
    <3> HIDE DEF c
    <3> QED
      BY <2>0, <3>1, ReloadersAre
  <2>3. Fails(t, "firewall") \/ Proceeds(t, c)
    BY <1>2, Zenon DEF Receive
  <2>4. Reloaders(s)' = Reloaders(s)
    BY <2>0, <2>1, <2>2, <2>3
  <2> QED
    BY <2>0, <2>4, Unmoved
<1>3. ASSUME NEW k \in Keys, CacheForget(k) PROVE Backed(s)' /\ PilesUp(s)
  BY <1>3, <1>u, Zenon DEF CacheForget
<1>4. ASSUME NEW x \in Skills, NEW e \in Entries, Register(x, e) PROVE Backed(s)' /\ PilesUp(s)
  BY <1>4, <1>u, Zenon DEF Register
<1>5. CASE Tick
  <2>1. l2[s] \in BreakerStats /\ l2 \in [Skills -> BreakerRecord] /\ UNCHANGED call
    BY <1>5 DEF Tick, TypeInv, BreakerRecord
  <2>2. l2'[s].failure_count = l2[s].failure_count /\ l2'[s].state = l2[s].state
    BY <1>5, <2>1 DEF Tick, AllAged, Aged, BreakerStats
  <2> QED
    BY <2>1, <2>2 DEF Backed, PilesUp, Reloaders, At
<1>6. CASE UNCHANGED vars
  BY <1>6, <1>u DEF vars
<1> QED
  BY <1>1, <1>2, <1>3, <1>4, <1>5, <1>6, Zenon DEF Next

\* A skill whose pruned reloads fit is shut out of L2 only by a pile-up: at that step as many
\* threads as the failure threshold have overrun it and not reloaded yet, since each overrun
\* that counts is of such a thread, and the first of them to reload clears the count.
THEOREM OnlyPileUpsShutLoaders ==
  ASSUME NEW s \in Skills PROVE Spec /\ ReloadsFit(s) => OnlyPileUpsShut(s)
<1>1. Init => Backed(s)
  <2> SUFFICES ASSUME Init PROVE Backed(s)
    OBVIOUS
  <2>1. Reloaders(s) = {}
    BY DEF Init, Reloaders, At
  <2>2. l2[s].failure_count = 0
    BY DEF Init, NewStats
  <2> QED
    BY <2>1, <2>2, FS_EmptySet DEF Backed
<1>2. TypeInv /\ TypeInv' /\ Backed(s) /\ [Next]_vars
        /\ [\A t \in Threads : ReloadRaises(t) => call[t].top # s]_vars
        => /\ Backed(s)'
           /\ [(l2[s].state = CLOSED /\ l2'[s].state # CLOSED)
                 => Cardinality(Reloaders(s)') >= FailureThreshold]_vars
  <2>1. ASSUME TypeInv, TypeInv', Backed(s), [Next]_vars, FitsReload(s)
        PROVE  Backed(s)' /\ PilesUp(s)
    BY <2>1, NextBacked
  <2>2. ASSUME Backed(s), UNCHANGED vars PROVE Backed(s)'
    BY <2>2, Unmoved DEF vars, Reloaders, At
  <2> QED
    BY <2>1, <2>2, Zenon DEF FitsReload, PilesUp
<1> QED
  BY <1>1, <1>2, TypeInvariance, PTL DEF Spec, ReloadsFit, OnlyPileUpsShut

-----------------------------------------------------------------------------
(* The cache store: its invariant *)

Uses == [key : CacheKeys, until : Nat]

\* No two records of s have the same key.
Distinct(s) == \A i, j \in 1..Len(s) : s[i].key = s[j].key => i = j

\* Everything in s is in u, with the same time, and in the same order.
InUseOrder(s, u) ==
  /\ \A i \in 1..Len(s) : \E p \in 1..Len(u) : u[p] = [key |-> s[i].key, until |-> s[i].expires_at]
  /\ \A i, j \in 1..Len(s), p, q \in 1..Len(u) :
       s[i].key = u[p].key /\ s[j].key = u[q].key /\ i < j => p < q

CacheInv ==
  /\ now \in 0..LastTick /\ found \in Values \cup {None}
  /\ store \in Seq(Entry) /\ Len(store) <= Capacity /\ Distinct(store)
  /\ used \in Seq(Uses) /\ Distinct(used)
  /\ InUseOrder(store, used)
  /\ RecentlyUsedStay

-----------------------------------------------------------------------------
(* Taking a key out *)

\* Where the i-th record of what is left after taking out the q-th was.
Skip(q, i) == IF i < q THEN i ELSE i + 1

LEMMA RemoveAtSkips ==
  ASSUME NEW S, NEW s \in Seq(S), NEW q \in 1..Len(s)
  PROVE  /\ RemoveAt(s, q) \in Seq(S)
         /\ Len(RemoveAt(s, q)) = Len(s) - 1
         /\ \A i \in 1..(Len(s) - 1) : RemoveAt(s, q)[i] = s[Skip(q, i)]
<1> DEFINE a == SubSeq(s, 1, q - 1)
           b == SubSeq(s, q + 1, Len(s))
<1>1. a \in Seq(S) /\ Len(a) = q - 1 /\ \A i \in 1..(q - 1) : a[i] = s[i]
  OBVIOUS
<1>2. b \in Seq(S) /\ Len(b) = Len(s) - q /\ \A i \in 1..(Len(s) - q) : b[i] = s[q + i]
  OBVIOUS
<1>3. RemoveAt(s, q) = a \o b
  BY DEF RemoveAt
<1> HIDE DEF a, b
<1>4. a \o b \in Seq(S) /\ Len(a \o b) = Len(s) - 1
  <2>1. a \in Seq(S) /\ b \in Seq(S)
    BY <1>1, <1>2
  <2>2. a \o b \in Seq(S) /\ Len(a \o b) = Len(a) + Len(b)
    BY ONLY <2>1
  <2> QED
    BY <1>1, <1>2, <2>2
<1>5. ASSUME NEW i \in 1..(Len(s) - 1) PROVE (a \o b)[i] = s[Skip(q, i)]
  <2>1. CASE i < q
    BY <2>1, <1>1, <1>2 DEF Skip
  <2>2. CASE ~(i < q)
    <3>1. i - (q - 1) \in 1..(Len(s) - q)
      BY <2>2
    <3>2. (a \o b)[i] = b[i - (q - 1)]
      BY <2>2, <1>1, <1>2
    <3> QED
      BY <3>1, <3>2, <2>2, <1>2 DEF Skip
  <2> QED
    BY <2>1, <2>2
<1> QED
  BY <1>3, <1>4, <1>5

\* What is left of s without k: m says where it was, in the same order.
Left(s, k, t, m) ==
  /\ \A i \in 1..Len(t) : m[i] \in 1..Len(s) /\ t[i] = s[m[i]] /\ t[i].key # k
  /\ \A i, j \in 1..Len(t) : i < j => m[i] < m[j]
  /\ \A p \in 1..Len(s) : s[p].key # k => \E i \in 1..Len(t) : m[i] = p
  /\ \A i \in 1..Len(t) : Len(s) - m[i] <= Len(t) + 1 - i

LEMMA WithoutLeaves ==
  ASSUME NEW S, NEW s \in Seq(S), NEW k, Distinct(s)
  PROVE  /\ Without(s, k) \in Seq(S)
         /\ ~Has(Without(s, k), k)
         /\ Len(Without(s, k)) = IF Has(s, k) THEN Len(s) - 1 ELSE Len(s)
         /\ \E m : Left(s, k, Without(s, k), m)
<1> DEFINE t == Without(s, k)
<1>1. CASE Has(s, k)
  <2> DEFINE q == Place(s, k)
             m == [i \in 1..(Len(s) - 1) |-> Skip(q, i)]
  <2>1. q \in 1..Len(s) /\ s[q].key = k
    BY <1>1 DEF Has, Place
  <2>2. t = RemoveAt(s, q)
    BY <1>1 DEF Without
  <2> HIDE DEF q
  <2>3. t \in Seq(S) /\ Len(t) = Len(s) - 1 /\ \A i \in 1..(Len(s) - 1) : t[i] = s[Skip(q, i)]
    BY <2>1, <2>2, RemoveAtSkips
  <2> HIDE DEF t
  <2>4. \A i \in 1..(Len(s) - 1) : m[i] = Skip(q, i) /\ Skip(q, i) \in 1..Len(s) /\ Skip(q, i) # q
    BY <2>1 DEF Skip
  <2> HIDE DEF m
  <2>5. \A i \in 1..Len(t) : m[i] \in 1..Len(s) /\ t[i] = s[m[i]] /\ t[i].key # k
    BY <2>1, <2>3, <2>4 DEF Distinct
  <2>6. \A i, j \in 1..Len(t) : i < j => m[i] < m[j]
    BY <2>1, <2>3, <2>4 DEF Skip
  <2>7. ASSUME NEW p \in 1..Len(s), s[p].key # k PROVE \E i \in 1..Len(t) : m[i] = p
    <3>1. p # q
      BY <2>1, <2>7
    <3>2. CASE p < q
      BY <2>1, <2>3, <2>4, <3>2 DEF Skip
    <3>3. CASE p > q
      <4>1. p - 1 \in 1..Len(t) /\ m[p - 1] = p
        BY <2>1, <2>3, <2>4, <3>3 DEF Skip
      <4> QED
        BY <4>1
    <3> QED
      BY <3>1, <3>2, <3>3, <2>1
  <2>8. \A i \in 1..Len(t) : Len(s) - m[i] <= Len(t) + 1 - i
    BY <2>1, <2>3, <2>4 DEF Skip
  <2>9. Left(s, k, t, m)
    BY <2>5, <2>6, <2>7, <2>8 DEF Left
  <2> QED
    BY <1>1, <2>3, <2>5, <2>9 DEF Has, t
<1>2. CASE ~Has(s, k)
  <2> DEFINE m == [i \in 1..Len(s) |-> i]
  <2>1. t = s
    BY <1>2 DEF Without
  <2>2. Left(s, k, s, m)
    BY <1>2 DEF Left, Has
  <2> QED
    BY <1>2, <2>1, <2>2
<1> QED
  BY <1>1, <1>2

\* Records that are left are in different places.
LEMMA WithoutDistinct ==
  ASSUME NEW S, NEW s \in Seq(S), NEW k, Distinct(s)
  PROVE  Distinct(Without(s, k))
<1> PICK m : Left(s, k, Without(s, k), m)
  BY WithoutLeaves
<1> DEFINE t == Without(s, k)
<1>1. /\ t \in Seq(S)
      /\ \A i \in 1..Len(t) : m[i] \in 1..Len(s) /\ t[i] = s[m[i]]
      /\ \A i, j \in 1..Len(t) : i < j => m[i] < m[j]
  BY WithoutLeaves DEF Left
<1> HIDE DEF t
<1>2. ASSUME NEW i \in 1..Len(t), NEW j \in 1..Len(t), t[i].key = t[j].key PROVE i = j
  <2>1. m[i] \in 1..Len(s) /\ m[j] \in 1..Len(s) /\ s[m[i]].key = s[m[j]].key
    BY <1>1, <1>2
  <2>2. m[i] = m[j]
    BY <2>1 DEF Distinct
  <2>3. ~(i < j) /\ ~(j < i)
    BY <2>2, <1>1
  <2> QED
    BY <2>3, <1>1
<1> QED
  BY <1>2 DEF Distinct, t

\* Adding k at the end of what is left without it.
LEMMA MovedDistinct ==
  ASSUME NEW S, NEW s \in Seq(S), Distinct(s), NEW e \in S
  PROVE  LET t == Append(Without(s, e.key), e)
         IN  t \in Seq(S) /\ Distinct(t) /\ \A x : Has(t, x) <=> x = e.key \/ Has(s, x)
<1> DEFINE k == e.key
           t == Without(s, k)
           u == Append(t, e)
<1> PICK m : Left(s, k, t, m)
  BY WithoutLeaves
<1>1. /\ t \in Seq(S) /\ Distinct(t) /\ ~Has(t, k)
      /\ \A i \in 1..Len(t) : m[i] \in 1..Len(s) /\ t[i] = s[m[i]]
      /\ \A p \in 1..Len(s) : s[p].key # k => \E i \in 1..Len(t) : m[i] = p
  BY WithoutLeaves, WithoutDistinct DEF Left
<1> HIDE DEF t
<1>2. u \in Seq(S) /\ Len(u) = Len(t) + 1 /\ u[Len(t) + 1] = e /\ \A i \in 1..Len(t) : u[i] = t[i]
  BY <1>1
<1> HIDE DEF u
<1>3. ASSUME NEW i \in 1..Len(u), NEW j \in 1..Len(u), u[i].key = u[j].key PROVE i = j
  <2>1. \A h \in 1..Len(u) : h \in 1..Len(t) \/ h = Len(t) + 1
    BY <1>1, <1>2
  <2>2. \A h \in 1..Len(t) : u[h].key # k
    BY <1>1, <1>2 DEF Has
  <2>3. CASE i \in 1..Len(t) /\ j \in 1..Len(t)
    BY <2>3, <1>1, <1>2, <1>3 DEF Distinct
  <2>4. CASE i = Len(t) + 1 \/ j = Len(t) + 1
    BY <2>1, <2>2, <2>4, <1>2, <1>3
  <2> QED
    BY <2>1, <2>3, <2>4
<1>4. ASSUME NEW x PROVE Has(u, x) <=> x = k \/ Has(s, x)
  <2>1. ASSUME Has(u, x) PROVE x = k \/ Has(s, x)
    <3>1. PICK i \in 1..Len(u) : u[i].key = x
      BY <2>1 DEF Has
    <3>2. CASE i = Len(t) + 1
      BY <3>1, <3>2, <1>2
    <3>3. CASE i # Len(t) + 1
      <4>1. i \in 1..Len(t)
        BY <3>3, <1>1, <1>2
      <4> QED
        BY <4>1, <3>1, <1>1, <1>2 DEF Has
    <3> QED
      BY <3>2, <3>3
  <2>2. x = k => Has(u, x)
    BY <1>1, <1>2 DEF Has
  <2>3. ASSUME Has(s, x), x # k PROVE Has(u, x)
    <3>1. PICK p \in 1..Len(s) : s[p].key = x
      BY <2>3 DEF Has
    <3>2. PICK i \in 1..Len(t) : m[i] = p
      BY <3>1, <2>3, <1>1
    <3>3. i \in 1..Len(u) /\ u[i].key = x
      BY <3>1, <3>2, <1>1, <1>2
    <3> QED
      BY <3>3 DEF Has
  <2> QED
    BY <2>1, <2>2, <2>3
<1>5. Distinct(u)
  BY <1>3 DEF Distinct
<1> QED
  BY <1>2, <1>4, <1>5 DEF u, t

LEMMA WithoutHas ==
  ASSUME NEW S, NEW s \in Seq(S), Distinct(s), NEW k
  PROVE  \A x : Has(Without(s, k), x) <=> x # k /\ Has(s, x)
<1> DEFINE t == Without(s, k)
<1> PICK m : Left(s, k, t, m)
  BY WithoutLeaves
<1>1. /\ t \in Seq(S) /\ ~Has(t, k)
      /\ \A i \in 1..Len(t) : m[i] \in 1..Len(s) /\ t[i] = s[m[i]]
      /\ \A p \in 1..Len(s) : s[p].key # k => \E i \in 1..Len(t) : m[i] = p
  BY WithoutLeaves DEF Left
<1> HIDE DEF t
<1>2. ASSUME NEW x, Has(t, x) PROVE x # k /\ Has(s, x)
  BY <1>1, <1>2 DEF Has
<1>3. ASSUME NEW x, Has(s, x), x # k PROVE Has(t, x)
  <2>1. PICK p \in 1..Len(s) : s[p].key = x
    BY <1>3 DEF Has
  <2>2. PICK i \in 1..Len(t) : m[i] = p
    BY <2>1, <1>3, <1>1
  <2>3. t[i].key = x
    BY <2>1, <2>2, <1>1
  <2> QED
    BY <2>3 DEF Has
<1> QED
  BY <1>2, <1>3 DEF t

\* The i-th record with the key k is the one Place finds.
LEMMA PlaceIs ==
  ASSUME NEW S, NEW s \in Seq(S), Distinct(s), NEW i \in 1..Len(s)
  PROVE  Place(s, s[i].key) = i
  BY DEF Place, Distinct

-----------------------------------------------------------------------------
(* The order of use *)

LEMMA LeftOrder ==
  ASSUME NEW s \in Seq(Entry), NEW u \in Seq(Uses), Distinct(s), InUseOrder(s, u), NEW k
  PROVE  InUseOrder(Without(s, k), u)
<1> DEFINE t == Without(s, k)
<1> PICK m : Left(s, k, t, m)
  BY WithoutLeaves
<1>1. /\ \A i \in 1..Len(t) : m[i] \in 1..Len(s) /\ t[i] = s[m[i]]
      /\ \A i, j \in 1..Len(t) : i < j => m[i] < m[j]
  BY DEF Left
<1> HIDE DEF t
<1>2. ASSUME NEW i \in 1..Len(t)
      PROVE  \E p \in 1..Len(u) : u[p] = [key |-> t[i].key, until |-> t[i].expires_at]
  BY <1>1 DEF InUseOrder
<1>3. ASSUME NEW i \in 1..Len(t), NEW j \in 1..Len(t), NEW p \in 1..Len(u), NEW q \in 1..Len(u),
             t[i].key = u[p].key, t[j].key = u[q].key, i < j
      PROVE  p < q
  <2>1. /\ m[i] \in 1..Len(s) /\ m[j] \in 1..Len(s) /\ m[i] < m[j]
        /\ t[i] = s[m[i]] /\ t[j] = s[m[j]]
    BY <1>1, <1>3
  <2> QED
    BY <2>1, <1>3 DEF InUseOrder
<1>4. InUseOrder(t, u)
  BY <1>2, <1>3 DEF InUseOrder
<1> QED
  BY <1>4 DEF t

\* The entry and the use of a key move to the end together.
LEMMA MovedOrder ==
  ASSUME NEW s \in Seq(Entry), NEW u \in Seq(Uses), Distinct(s), Distinct(u), InUseOrder(s, u),
         NEW e \in Entry
  PROVE  InUseOrder(Append(Without(s, e.key), e),
                    Append(Without(u, e.key), [key |-> e.key, until |-> e.expires_at]))
<1> DEFINE k == e.key
           d == [key |-> k, until |-> e.expires_at]
           t == Without(s, k)
           v == Without(u, k)
           tt == Append(t, e)
           vv == Append(v, d)
<1>m. PICK m : Left(s, k, t, m)
  BY WithoutLeaves
<1>n. PICK n : Left(u, k, v, n)
  BY WithoutLeaves
<1>1. /\ t \in Seq(Entry) /\ v \in Seq(Uses)
      /\ \A i \in 1..Len(t) : m[i] \in 1..Len(s) /\ t[i] = s[m[i]] /\ t[i].key # k
      /\ \A i, j \in 1..Len(t) : i < j => m[i] < m[j]
      /\ \A i \in 1..Len(v) : n[i] \in 1..Len(u) /\ v[i] = u[n[i]] /\ v[i].key # k
      /\ \A i, j \in 1..Len(v) : i < j => n[i] < n[j]
      /\ \A p \in 1..Len(u) : u[p].key # k => \E i \in 1..Len(v) : n[i] = p
  BY <1>m, <1>n, WithoutLeaves DEF Left
<1> HIDE DEF t, v
<1>2. /\ Len(tt) = Len(t) + 1 /\ tt[Len(t) + 1] = e /\ \A i \in 1..Len(t) : tt[i] = t[i]
      /\ Len(vv) = Len(v) + 1 /\ vv[Len(v) + 1] = d /\ \A i \in 1..Len(v) : vv[i] = v[i]
      /\ Len(t) \in Nat /\ Len(v) \in Nat
  BY <1>1
<1> HIDE DEF tt, vv
<1>3. ASSUME NEW i \in 1..Len(tt)
      PROVE  \E p \in 1..Len(vv) : vv[p] = [key |-> tt[i].key, until |-> tt[i].expires_at]
  <2>1. CASE i = Len(t) + 1
    <3>1. vv[Len(v) + 1] = [key |-> tt[i].key, until |-> tt[i].expires_at]
      BY <2>1, <1>2
    <3> QED
      BY <3>1, <1>2
  <2>2. CASE i # Len(t) + 1
    <3>a. i \in 1..Len(t) /\ tt[i] = t[i]
      BY <2>2, <1>2
    <3>1. i \in 1..Len(t) /\ tt[i] = s[m[i]] /\ tt[i].key # k
      BY <3>a, <1>1
    <3>2. PICK p \in 1..Len(u) : u[p] = [key |-> tt[i].key, until |-> tt[i].expires_at]
      BY <3>1, <1>1 DEF InUseOrder
    <3>3. PICK r \in 1..Len(v) : n[r] = p
      BY <3>1, <3>2, <1>1
    <3>4. r \in 1..Len(vv) /\ vv[r] = u[p]
      BY <3>3, <1>1, <1>2
    <3> QED
      BY <3>2, <3>4
  <2> QED
    BY <2>1, <2>2
<1>4. ASSUME NEW i \in 1..Len(tt), NEW j \in 1..Len(tt), NEW p \in 1..Len(vv), NEW q \in 1..Len(vv),
             tt[i].key = vv[p].key, tt[j].key = vv[q].key, i < j
      PROVE  p < q
  <2>a. i \in 1..Len(t) /\ tt[i] = t[i]
    BY <1>2, <1>4
  <2>1. i \in 1..Len(t) /\ tt[i] = s[m[i]] /\ tt[i].key # k
    BY <2>a, <1>1
  <2>2. p # Len(v) + 1
    BY <2>1, <1>2, <1>4
  <2>3. p \in 1..Len(v) /\ vv[p] = u[n[p]]
    BY <2>2, <1>1, <1>2
  <2>4. CASE q = Len(v) + 1
    BY <2>3, <2>4
  <2>5. CASE q # Len(v) + 1
    <3>a. q \in 1..Len(v) /\ vv[q] = v[q]
      BY <2>5, <1>2
    <3>1. q \in 1..Len(v) /\ vv[q] = u[n[q]] /\ vv[q].key # k
      BY <3>a, <1>1
    <3>2. j # Len(t) + 1
      BY <3>1, <1>2, <1>4
    <3>3. j \in 1..Len(t) /\ tt[j] = s[m[j]]
      BY <3>2, <1>1, <1>2
    <3>4. m[i] < m[j] /\ m[i] \in 1..Len(s) /\ m[j] \in 1..Len(s)
          /\ n[p] \in 1..Len(u) /\ n[q] \in 1..Len(u)
      BY <2>1, <2>3, <3>1, <3>3, <1>1, <1>4
    <3>5. n[p] < n[q]
      BY <3>4, <2>1, <2>3, <3>1, <3>3, <1>4 DEF InUseOrder
    <3>6. ~(q < p) /\ p # q
      BY <3>5, <3>4, <2>3, <3>1, <1>1
    <3> QED
      BY <3>6
  <2> QED
    BY <2>4, <2>5
<1>5. InUseOrder(tt, vv)
  BY <1>3, <1>4 DEF InUseOrder
<1> QED
  BY <1>5 DEF tt, vv, t, v

\* n different numbers in order are spread over n - 1 at least.
LEMMA Spread ==
  ASSUME NEW n \in Nat \ {0}, NEW f \in [1..n -> Int], \A i, j \in 1..n : i < j => f[i] < f[j]
  PROVE  f[n] - f[1] >= n - 1
<1> DEFINE T == f[1]..f[n]
<1>1. f[1] \in Int /\ f[n] \in Int
  OBVIOUS
<1>2. \A i \in 1..n : f[i] \in T
  <2> TAKE i \in 1..n
  <2>1. f[i] \in Int /\ (i = 1 \/ f[1] < f[i]) /\ (i = n \/ f[i] < f[n])
    OBVIOUS
  <2> QED
    BY <1>1, <2>1
<1>3. \A i, j \in 1..n : f[i] = f[j] => i = j
  <2> TAKE i, j \in 1..n
  <2>1. f[i] \in Int /\ f[j] \in Int /\ (i < j => f[i] < f[j]) /\ (j < i => f[j] < f[i])
    OBVIOUS
  <2> QED
    BY <2>1
<1>4. f \in Injection(1..n, T)
  BY <1>2, <1>3 DEF Injection, IsInjective
<1>5. /\ IsFiniteSet(T) /\ Cardinality(T) = IF f[1] > f[n] THEN 0 ELSE f[n] - f[1] + 1
      /\ Cardinality(1..n) = n
  BY <1>1, FS_Interval
<1>6. Cardinality(1..n) <= Cardinality(T)
  BY <1>4, <1>5, FS_Injection
<1> QED
  BY <1>1, <1>5, <1>6

\* Of more entries than Capacity, the first has been used longer ago than Capacity others.
LEMMA FirstIsOld ==
  ASSUME NEW s \in Seq(Entry), NEW u \in Seq(Uses), InUseOrder(s, u), Len(s) > Capacity,
         NEW i \in 1..Len(u), u[i].key = s[1].key
  PROVE  Len(u) - i >= Capacity
<1> DEFINE n == Len(s)
           PosOf(j) == CHOOSE p \in 1..Len(u) : u[p].key = s[j].key
           g == [j \in 1..n |-> IF j = 1 THEN i ELSE PosOf(j)]
<1>1. n \in Nat \ {0} /\ n >= Capacity + 1
  BY CacheAssumption
<1>2. \A j \in 1..n : PosOf(j) \in 1..Len(u) /\ u[PosOf(j)].key = s[j].key
  <2> TAKE j \in 1..n
  <2>1. PICK p \in 1..Len(u) : u[p] = [key |-> s[j].key, until |-> s[j].expires_at]
    BY DEF InUseOrder
  <2>2. u[p].key = s[j].key
    BY <2>1
  <2> QED
    BY <2>2
<1> HIDE DEF PosOf
<1>3. \A j \in 1..n : g[j] \in 1..Len(u) /\ u[g[j]].key = s[j].key
  BY <1>2
<1>4. g \in [1..n -> Int]
  BY <1>2
<1> HIDE DEF g
<1>5. \A j, k \in 1..n : j < k => g[j] < g[k]
  BY <1>3 DEF InUseOrder
<1>6. g[n] - g[1] >= n - 1
  BY <1>1, <1>4, <1>5, Spread
<1>7. g[1] = i /\ g[n] \in 1..Len(u)
  <2>1. 1 \in 1..n /\ n \in 1..n
    BY <1>1
  <2>2. g[1] = i
    BY <2>1 DEF g
  <2> QED
    BY <2>1, <2>2, <1>3
<1> QED
  BY <1>1, <1>6, <1>7, CacheAssumption

\* A key that moves to the end keeps those that were used recently.
LEMMA MovedRecent ==
  ASSUME CacheInv, NEW e \in Entry
  PROVE  LET s == Append(Without(store, e.key), e)
             u == Newest(e.key, e.expires_at)
         IN  \A i \in 1..Len(u) :
               Len(u) - i < Capacity /\ now <= u[i].until => Has(s, u[i].key)
<1> DEFINE k == e.key
           v == Without(used, k)
           s == Append(Without(store, k), e)
           u == Newest(k, e.expires_at)
<1>1. /\ store \in Seq(Entry) /\ Distinct(store) /\ used \in Seq(Uses) /\ Distinct(used)
      /\ \A i \in 1..Len(used) :
           Len(used) - i < Capacity /\ now <= used[i].until => Has(store, used[i].key)
  BY DEF CacheInv, RecentlyUsedStay, Holds
<1>n. PICK n : Left(used, k, v, n)
  BY <1>1, WithoutLeaves
<1>2. /\ v \in Seq(Uses)
      /\ \A i \in 1..Len(v) : /\ n[i] \in 1..Len(used) /\ v[i] = used[n[i]]
                              /\ Len(used) - n[i] <= Len(v) + 1 - i
  BY <1>1, <1>n, WithoutLeaves DEF Left
<1>3. \A x : Has(s, x) <=> x = k \/ Has(store, x)
  BY <1>1, MovedDistinct
<1> HIDE DEF s, v
<1>4. /\ Len(u) = Len(v) + 1 /\ Len(v) \in Nat /\ u[Len(v) + 1].key = k
      /\ \A i \in 1..Len(v) : u[i] = v[i]
  BY <1>2 DEF Newest, v
<1> HIDE DEF u
<1>5. ASSUME NEW i \in 1..Len(u), Len(u) - i < Capacity, now <= u[i].until
      PROVE  Has(s, u[i].key)
  <2>1. CASE i = Len(v) + 1
    BY <2>1, <1>3, <1>4
  <2>2. CASE i # Len(v) + 1
    <3>1. i \in 1..Len(v) /\ u[i] = v[i]
      BY <2>2, <1>4
    <3>2. n[i] \in 1..Len(used) /\ u[i] = used[n[i]] /\ Len(used) - n[i] <= Len(u) - i
      BY <3>1, <1>2, <1>4
    <3>3. Len(used) - n[i] < Capacity
      BY <3>2, <1>5, <1>4, <1>1, CacheAssumption
    <3> QED
      BY <3>2, <3>3, <1>1, <1>3, <1>5
  <2> QED
    BY <2>1, <2>2
<1> QED
  BY <1>5 DEF s, u

-----------------------------------------------------------------------------
(* The steps *)

LEMMA CacheInitInv == CacheInit => CacheInv
  BY CacheAssumption DEF CacheInit, CacheInv, Distinct, InUseOrder, RecentlyUsedStay

LEMMA EntryOfKey ==
  ASSUME store \in Seq(Entry), NEW k, Holds(k)
  PROVE  EntryOf(k) \in Entry /\ EntryOf(k).key = k
  BY DEF Holds, Has, EntryOf, Place

LEMMA ExpireInv ==
  ASSUME CacheInv, NEW k \in CacheKeys, Expire(k)
  PROVE  CacheInv'
<1>1. /\ store' = Without(store, k) /\ found' = None /\ now' = now /\ used' = used
      /\ Holds(k) /\ now > EntryOf(k).expires_at
  BY DEF Expire, Expired
<1>2. /\ store \in Seq(Entry) /\ Len(store) <= Capacity /\ Distinct(store)
      /\ used \in Seq(Uses) /\ Distinct(used) /\ InUseOrder(store, used) /\ now \in 0..LastTick
      /\ \A i \in 1..Len(used) :
           Len(used) - i < Capacity /\ now <= used[i].until => Has(store, used[i].key)
  BY DEF CacheInv, RecentlyUsedStay, Holds
<1>3. store' \in Seq(Entry) /\ Distinct(store') /\ Len(store') <= Capacity
  <2>1. Len(store') = IF Has(store, k) THEN Len(store) - 1 ELSE Len(store)
    BY <1>1, <1>2, WithoutLeaves
  <2> QED
    BY <1>1, <1>2, <2>1, WithoutLeaves, WithoutDistinct, CacheAssumption
<1>4. InUseOrder(store', used')
  BY <1>1, <1>2, LeftOrder
<1>5. RecentlyUsedStay'
  <2> SUFFICES ASSUME NEW i \in 1..Len(used), Len(used) - i < Capacity, now <= used[i].until
               PROVE  Has(store', used[i].key)
    BY <1>1 DEF RecentlyUsedStay, Holds
  <2>1. Has(store, used[i].key)
    BY <1>2
  <2>2. used[i].key # k
    <3> SUFFICES ASSUME used[i].key = k PROVE FALSE
      OBVIOUS
    <3>1. PICK j \in 1..Len(store) : store[j].key = k /\ EntryOf(k) = store[j]
      BY <1>1, <1>2, PlaceIs DEF Holds, Has, EntryOf
    <3>2. PICK p \in 1..Len(used) : used[p] = [key |-> store[j].key, until |-> store[j].expires_at]
      BY <1>2 DEF InUseOrder
    <3>3. p = i
      BY <1>2, <3>1, <3>2 DEF Distinct
    <3>4. EntryOf(k).expires_at \in Nat
      BY <1>1, <1>2, EntryOfKey, CacheAssumption DEF Entry
    <3> QED
      BY <1>1, <1>2, <3>1, <3>2, <3>3, <3>4
  <2> QED
    BY <1>1, <1>2, <2>1, <2>2, WithoutHas
<1> QED
  BY <1>1, <1>2, <1>3, <1>4, <1>5 DEF CacheInv

LEMMA HitInv ==
  ASSUME CacheInv, NEW k \in CacheKeys, Hit(k)
  PROVE  CacheInv'
<1> DEFINE e == EntryOf(k)
<1>1. /\ Holds(k) /\ found' = e.value /\ now' = now
      /\ store' = Append(Without(store, k), e) /\ used' = Newest(k, e.expires_at)
  BY DEF Hit
<1>2. /\ store \in Seq(Entry) /\ Len(store) <= Capacity /\ Distinct(store)
      /\ used \in Seq(Uses) /\ Distinct(used) /\ InUseOrder(store, used) /\ now \in 0..LastTick
  BY DEF CacheInv
<1>3. e \in Entry /\ e.key = k
  BY <1>1, <1>2, EntryOfKey
<1> HIDE DEF e
<1> DEFINE d == [key |-> k, until |-> e.expires_at]
<1>4. d \in Uses /\ d.key = k /\ used' = Append(Without(used, k), d)
  BY <1>1, <1>3, CacheAssumption DEF Entry, Uses, Newest
<1> HIDE DEF d
<1>5. store' \in Seq(Entry) /\ Distinct(store')
  BY <1>1, <1>2, <1>3, MovedDistinct
<1>6. used' \in Seq(Uses) /\ Distinct(used')
  BY <1>2, <1>4, MovedDistinct
<1>7. Len(store') <= Capacity
  <2>1. Without(store, k) \in Seq(Entry) /\ Len(Without(store, k)) = Len(store) - 1
    BY <1>1, <1>2, WithoutLeaves DEF Holds
  <2> QED
    BY <1>1, <1>2, <2>1
<1>8. InUseOrder(store', used')
  BY <1>1, <1>2, <1>3, <1>4, MovedOrder DEF d
<1>9. RecentlyUsedStay'
  BY <1>1, <1>3, MovedRecent DEF RecentlyUsedStay, Holds
<1> QED
  BY <1>1, <1>2, <1>3, <1>5, <1>6, <1>7, <1>8, <1>9 DEF CacheInv, Entry

LEMMA SetInv ==
  ASSUME CacheInv, NEW k \in CacheKeys, NEW v \in Values, Set(k, v)
  PROVE  CacheInv'
<1> DEFINE e == [key |-> k, value |-> v, expires_at |-> now + Ttl]
           s == Append(Without(store, k), e)
<1>1. /\ found' = found /\ now' = now
      /\ store' = Trimmed(s) /\ used' = Newest(k, now + Ttl)
  BY DEF Set
<1>2. /\ store \in Seq(Entry) /\ Len(store) <= Capacity /\ Distinct(store)
      /\ used \in Seq(Uses) /\ Distinct(used) /\ InUseOrder(store, used) /\ now \in 0..LastTick
      /\ found \in Values \cup {None}
  BY DEF CacheInv
<1>3. e \in Entry /\ e.key = k /\ e.expires_at = now + Ttl
  BY <1>2, CacheAssumption DEF Entry
<1> DEFINE d == [key |-> k, until |-> now + Ttl]
<1>4. d \in Uses /\ d.key = k /\ used' = Append(Without(used, k), d)
  BY <1>1, <1>2, CacheAssumption DEF Uses, Newest
<1> HIDE DEF e, d
<1>5. s \in Seq(Entry) /\ Distinct(s)
  BY <1>2, <1>3, MovedDistinct
<1>6. used' \in Seq(Uses) /\ Distinct(used')
  BY <1>2, <1>4, MovedDistinct
<1>7. Len(s) <= Capacity + 1
  <2>1. /\ Without(store, k) \in Seq(Entry)
        /\ Len(Without(store, k)) = IF Has(store, k) THEN Len(store) - 1 ELSE Len(store)
    BY <1>2, WithoutLeaves
  <2>2. Len(s) = Len(Without(store, k)) + 1
    BY <2>1
  <2> QED
    BY <1>2, <2>1, <2>2, CacheAssumption
<1>8. InUseOrder(s, used')
  BY <1>2, <1>3, <1>4, MovedOrder DEF d
<1>9. \A i \in 1..Len(used') :
        Len(used') - i < Capacity /\ now <= used'[i].until => Has(s, used'[i].key)
  BY <1>1, <1>3, MovedRecent
<1> HIDE DEF s
<1>10. CASE Len(s) <= Capacity
  <2>1. store' = s
    BY <1>1, <1>5, <1>10, CacheAssumption DEF Trimmed
  <2> QED
    BY <2>1, <1>1, <1>2, <1>5, <1>6, <1>8, <1>9, <1>10 DEF CacheInv, RecentlyUsedStay, Holds
<1>11. CASE Len(s) > Capacity
  <2>1. Len(s) = Capacity + 1
    BY <1>5, <1>7, <1>11, CacheAssumption
  <2>2. store' = SubSeq(s, 2, Len(s))
    BY <1>1, <2>1, CacheAssumption DEF Trimmed
  <2>3. /\ store' \in Seq(Entry) /\ Len(store') = Capacity
        /\ \A i \in 1..Capacity : store'[i] = s[i + 1] /\ i + 1 \in 1..Len(s)
    BY <2>1, <2>2, <1>5, CacheAssumption
  <2>4. Distinct(store')
    BY <2>3, <1>5, CacheAssumption DEF Distinct
  <2>5. InUseOrder(store', used')
    <3>1. ASSUME NEW i \in 1..Capacity
          PROVE  \E p \in 1..Len(used') :
                   used'[p] = [key |-> store'[i].key, until |-> store'[i].expires_at]
      BY <2>3, <1>8 DEF InUseOrder
    <3>2. ASSUME NEW i \in 1..Capacity, NEW j \in 1..Capacity,
                 NEW p \in 1..Len(used'), NEW q \in 1..Len(used'),
                 store'[i].key = used'[p].key, store'[j].key = used'[q].key, i < j
          PROVE  p < q
      <4>1. /\ s[i + 1].key = used'[p].key /\ s[j + 1].key = used'[q].key /\ i + 1 < j + 1
            /\ i + 1 \in 1..Len(s) /\ j + 1 \in 1..Len(s)
        BY <2>3, <3>2
      <4> QED
        BY <4>1, <1>8 DEF InUseOrder
    <3> QED
      BY <2>3, <3>1, <3>2 DEF InUseOrder
  <2>6. RecentlyUsedStay'
    <3> SUFFICES ASSUME NEW i \in 1..Len(used'), Len(used') - i < Capacity, now <= used'[i].until
                 PROVE  Has(store', used'[i].key)
      BY <1>1 DEF RecentlyUsedStay, Holds
    <3>1. PICK j \in 1..Len(s) : s[j].key = used'[i].key
      BY <1>9 DEF Has
    <3>2. j # 1
      <4> SUFFICES ASSUME j = 1 PROVE FALSE
        OBVIOUS
      <4>1. Len(used') - i >= Capacity
        BY <1>5, <1>6, <1>8, <1>11, <3>1, FirstIsOld
      <4> QED
        BY <4>1, <1>6, CacheAssumption
    <3>3. j - 1 \in 1..Capacity /\ (j - 1) + 1 = j
      BY <3>2, <2>1, CacheAssumption
    <3>4. store'[j - 1] = s[j]
      BY <3>3, <2>3
    <3> QED
      BY <3>1, <3>3, <3>4, <2>3 DEF Has
  <2> QED
    BY <2>3, <2>4, <2>5, <2>6, <1>1, <1>2, <1>6, CacheAssumption DEF CacheInv
<1> QED
  BY <1>5, <1>10, <1>11, CacheAssumption

LEMMA CacheNextInv == CacheInv /\ [CacheNext]_cacheVars => CacheInv'
<1> SUFFICES ASSUME CacheInv, [CacheNext]_cacheVars PROVE CacheInv'
  OBVIOUS
<1>1. ASSUME NEW k \in CacheKeys, Miss(k) PROVE CacheInv'
  BY <1>1 DEF Miss, CacheInv, RecentlyUsedStay, Holds
<1>2. ASSUME NEW k \in CacheKeys, Get(k) PROVE CacheInv'
  BY <1>1, <1>2, ExpireInv, HitInv DEF Get
<1>3. ASSUME NEW k \in CacheKeys, NEW v \in Values, Set(k, v) PROVE CacheInv'
  BY <1>3, SetInv
<1>4. CASE Invalidate
  BY <1>4, CacheAssumption DEF Invalidate, CacheInv, Distinct, InUseOrder, RecentlyUsedStay
<1>5. CASE CacheTick
  <2>1. now \in 0..LastTick /\ now' = now + 1 /\ now' \in 0..LastTick
        /\ store' = store /\ found' = found /\ used' = used
    BY <1>5, CacheAssumption DEF CacheTick, CacheInv
  <2>2. used \in Seq(Uses) /\ \A i \in 1..Len(used) : used[i].until \in Nat
    <3>1. used \in Seq(Uses)
      BY DEF CacheInv
    <3>2. \A d \in Uses : d.until \in Nat
      BY DEF Uses
    <3> QED
      BY <3>1, <3>2
  <2>3. RecentlyUsedStay'
    <3> SUFFICES ASSUME NEW i \in 1..Len(used), Len(used) - i < Capacity, now + 1 <= used[i].until
                 PROVE  Has(store, used[i].key)
      BY <2>1 DEF RecentlyUsedStay, Holds
    <3>1. now <= used[i].until
      BY <2>1, <2>2
    <3> QED
      BY <3>1 DEF CacheInv, RecentlyUsedStay, Holds
  <2> QED
    BY <2>1, <2>3 DEF CacheInv
<1>6. CASE UNCHANGED cacheVars
  BY <1>6 DEF cacheVars, CacheInv, RecentlyUsedStay, Holds
<1> QED
  BY <1>2, <1>3, <1>4, <1>5, <1>6 DEF CacheNext

LEMMA CacheInvariance == CacheSpec => []CacheInv
  BY CacheInitInv, CacheNextInv, PTL DEF CacheSpec

\* The store has each key once and stays within its capacity.
THEOREM CacheTypeCorrect == CacheSpec => []CacheTypeOK
<1>1. CacheInv => CacheTypeOK
  BY DEF CacheInv, CacheTypeOK, Distinct
<1> QED
  BY <1>1, CacheInvariance, PTL

\* A live entry that is among the Capacity keys used last is still there, for every
\* capacity and time to live.
THEOREM RecentKeysStay == CacheSpec => []RecentlyUsedStay
<1>1. CacheInv => RecentlyUsedStay
  BY DEF CacheInv
<1> QED
  BY <1>1, CacheInvariance, PTL

-----------------------------------------------------------------------------
(* The contract *)

\* What the store s knows of a key, as the contract sees it.
KnownIn(s, k) ==
  IF Has(s, k) THEN [value |-> s[Place(s, k)].value, at |-> s[Place(s, k)].expires_at - Ttl]
               ELSE None

\* A store t all of whose records are records of s, or of the key k.
OnlyFrom(t, s, k) ==
  \A i \in 1..Len(t) : t[i].key = k \/ \E j \in 1..Len(s) : t[i] = s[j]

LEMMA KnownFrom ==
  ASSUME NEW s \in Seq(Entry), NEW t \in Seq(Entry), Distinct(s), Distinct(t), NEW k,
         OnlyFrom(t, s, k), NEW x, x # k, Has(t, x)
  PROVE  KnownIn(t, x) = KnownIn(s, x)
<1>1. PICK i \in 1..Len(t) : t[i].key = x
  BY DEF Has
<1>2. PICK j \in 1..Len(s) : t[i] = s[j]
  BY <1>1 DEF OnlyFrom
<1>3. Place(t, x) = i /\ Place(s, x) = j
  BY <1>1, <1>2, PlaceIs
<1> QED
  BY <1>1, <1>2, <1>3 DEF KnownIn, Has

LEMMA WithoutFrom ==
  ASSUME NEW s \in Seq(Entry), Distinct(s), NEW k
  PROVE  /\ \A i \in 1..Len(Without(s, k)) : \E j \in 1..Len(s) : Without(s, k)[i] = s[j]
         /\ \A e \in Entry : e.key = k => OnlyFrom(Append(Without(s, k), e), s, k)
<1> DEFINE t == Without(s, k)
<1> PICK m : Left(s, k, t, m)
  BY WithoutLeaves
<1>1. t \in Seq(Entry) /\ \A i \in 1..Len(t) : m[i] \in 1..Len(s) /\ t[i] = s[m[i]]
  BY WithoutLeaves DEF Left
<1> HIDE DEF t
<1>2. ASSUME NEW e \in Entry, e.key = k PROVE OnlyFrom(Append(t, e), s, k)
  <2>1. /\ Len(Append(t, e)) = Len(t) + 1 /\ Append(t, e)[Len(t) + 1] = e
        /\ \A i \in 1..Len(t) : Append(t, e)[i] = t[i]
    BY <1>1
  <2>2. ASSUME NEW i \in 1..(Len(t) + 1)
        PROVE  Append(t, e)[i].key = k \/ \E j \in 1..Len(s) : Append(t, e)[i] = s[j]
    <3>1. CASE i = Len(t) + 1
      BY <3>1, <2>1, <1>2
    <3>2. CASE i # Len(t) + 1
      <4>1. i \in 1..Len(t)
        BY <3>2, <1>1
      <4> QED
        BY <4>1, <2>1, <1>1
    <3> QED
      BY <3>1, <3>2
  <2> QED
    BY <2>1, <2>2 DEF OnlyFrom
<1> QED
  BY <1>1, <1>2 DEF t

\* The contract's operations in terms of the store.
LEMMA ContractTerms ==
  /\ Contract!CInit <=> now = 0 /\ [k \in CacheKeys |-> KnownIn(store, k)] = [k \in CacheKeys |-> None]
                        /\ found = None
  /\ \A f : Contract!MayForget(f) <=>
       \E lost \in SUBSET CacheKeys :
         [k \in CacheKeys |-> KnownIn(store', k)] = [k \in CacheKeys |-> IF k \in lost THEN None ELSE f[k]]
  /\ \A k, v : Contract!CSet(k, v) <=>
       /\ Contract!MayForget([[x \in CacheKeys |-> KnownIn(store, x)] EXCEPT ![k] = [value |-> v, at |-> now]])
       /\ now' = now /\ found' = found
  /\ \A k : Contract!CGet(k) <=>
       /\ \/ found' = None
          \/ /\ [x \in CacheKeys |-> KnownIn(store, x)][k] # None
             /\ now <= [x \in CacheKeys |-> KnownIn(store, x)][k].at + Ttl
             /\ found' = [x \in CacheKeys |-> KnownIn(store, x)][k].value
       /\ Contract!MayForget([x \in CacheKeys |-> KnownIn(store, x)])
       /\ now' = now
  /\ Contract!CForget <=> Contract!MayForget([x \in CacheKeys |-> KnownIn(store, x)])
                          /\ now' = now /\ found' = found
  BY DEF Contract!CInit, Contract!MayForget, Contract!CSet, Contract!CGet, Contract!CForget,
         KnownIn, Holds, EntryOf

\* It is enough that what the store still has is what f says.
LEMMA ForgetsOnly ==
  ASSUME NEW f, \A x \in CacheKeys : Has(store', x) => KnownIn(store', x) = f[x]
  PROVE  Contract!MayForget(f)
<1> DEFINE lost == {x \in CacheKeys : ~Has(store', x)}
<1>1. ASSUME NEW x \in CacheKeys
      PROVE  KnownIn(store', x) = IF x \in lost THEN None ELSE f[x]
  BY DEF KnownIn
<1>2. lost \in SUBSET CacheKeys
  OBVIOUS
<1> HIDE DEF lost
<1>3. [k \in CacheKeys |-> KnownIn(store', k)] = [k \in CacheKeys |-> IF k \in lost THEN None ELSE f[k]]
  BY <1>1
<1> QED
  BY <1>2, <1>3, ContractTerms

LEMMA KeepsMayForget ==
  ASSUME CacheInv, CacheInv', NEW k,
         \A i \in 1..Len(store') : \E j \in 1..Len(store) : store'[i] = store[j]
  PROVE  Contract!MayForget([x \in CacheKeys |-> KnownIn(store, x)])
<1>1. /\ store \in Seq(Entry) /\ Distinct(store)
      /\ store' \in Seq(Entry) /\ Distinct(store')
  BY DEF CacheInv
<1>2. ASSUME NEW x \in CacheKeys, Has(store', x) PROVE KnownIn(store', x) = KnownIn(store, x)
  <2>1. OnlyFrom(store', store, CacheKeys)
    BY DEF OnlyFrom
  <2>2. PICK i \in 1..Len(store') : store'[i].key = x
    BY <1>2 DEF Has
  <2>3. PICK j \in 1..Len(store) : store'[i] = store[j]
    OBVIOUS
  <2>4. Place(store', x) = i /\ Place(store, x) = j
    BY <1>1, <2>2, <2>3, PlaceIs
  <2> QED
    BY <2>2, <2>3, <2>4 DEF KnownIn, Has
<1> QED
  BY <1>2, ForgetsOnly

LEMMA CacheStepImplements ==
  CacheInv /\ CacheInv' /\ [CacheNext]_cacheVars => [Contract!CNext]_(Contract!cvars)
<1> SUFFICES ASSUME CacheInv, CacheInv', [CacheNext]_cacheVars
             PROVE  Contract!CNext \/ UNCHANGED Contract!cvars
  OBVIOUS
<1> DEFINE known == [x \in CacheKeys |-> KnownIn(store, x)]
<1>0. /\ store \in Seq(Entry) /\ Distinct(store) /\ now \in 0..LastTick
      /\ store' \in Seq(Entry) /\ Distinct(store')
  BY DEF CacheInv
<1>1. ASSUME NEW k \in CacheKeys, Miss(k) PROVE Contract!CGet(k)
  <2>1. store' = store /\ found' = None /\ now' = now
    BY <1>1 DEF Miss
  <2>2. Contract!MayForget(known)
    BY <2>1, KeepsMayForget
  <2> QED
    BY <2>1, <2>2, ContractTerms
<1>2. ASSUME NEW k \in CacheKeys, Expire(k) PROVE Contract!CGet(k)
  <2>1. store' = Without(store, k) /\ found' = None /\ now' = now
    BY <1>2 DEF Expire
  <2>2. Contract!MayForget(known)
    BY <1>0, <2>1, WithoutFrom, KeepsMayForget
  <2> QED
    BY <2>1, <2>2, ContractTerms
<1>3. ASSUME NEW k \in CacheKeys, Hit(k) PROVE Contract!CGet(k)
  <2> DEFINE e == EntryOf(k)
  <2>1. /\ Has(store, k) /\ ~(now > e.expires_at) /\ found' = e.value /\ now' = now
        /\ store' = Append(Without(store, k), e)
    BY <1>3 DEF Hit, Expired, Holds
  <2>2. e \in Entry /\ e.key = k
    BY <1>0, <2>1, EntryOfKey DEF Holds
  <2>3. \E j \in 1..Len(store) : e = store[j]
    BY <1>0, <2>1 DEF EntryOf, Has, Place
  <2>4. known[k] = [value |-> e.value, at |-> e.expires_at - Ttl]
    BY <2>1 DEF KnownIn, EntryOf
  <2> HIDE DEF e
  <2>5. Contract!MayForget(known)
    <3>1. Without(store, k) \in Seq(Entry)
      BY <1>0, WithoutLeaves
    <3>2. ASSUME NEW i \in 1..Len(store') PROVE \E j \in 1..Len(store) : store'[i] = store[j]
      <4>1. CASE i = Len(Without(store, k)) + 1
        BY <4>1, <3>1, <2>1, <2>2, <2>3
      <4>2. CASE i # Len(Without(store, k)) + 1
        <5>1. i \in 1..Len(Without(store, k)) /\ store'[i] = Without(store, k)[i]
          BY <4>2, <3>1, <2>1, <2>2
        <5> QED
          BY <5>1, <1>0, WithoutFrom
      <4> QED
        BY <4>1, <4>2
    <3> QED
      BY <3>2, KeepsMayForget
  <2>6. e.expires_at \in Ttl..(LastTick + Ttl) /\ e.value \in Values
    BY <2>2 DEF Entry
  <2>7. now <= (e.expires_at - Ttl) + Ttl
    BY <1>0, <2>1, <2>6, CacheAssumption
  <2>8. known[k] # None
    <3>1. e.expires_at - Ttl \in 0..LastTick
      BY <2>6, CacheAssumption
    <3> QED
      BY <2>4, <2>6, <3>1, CacheAssumption
  <2> QED
    BY <2>1, <2>4, <2>5, <2>7, <2>8, ContractTerms
<1>4. ASSUME NEW k \in CacheKeys, NEW v \in Values, Set(k, v) PROVE Contract!CSet(k, v)
  <2> DEFINE e == [key |-> k, value |-> v, expires_at |-> now + Ttl]
             s == Append(Without(store, k), e)
             f == [known EXCEPT ![k] = [value |-> v, at |-> now]]
  <2>1. store' = Trimmed(s) /\ found' = found /\ now' = now
    BY <1>4 DEF Set
  <2>2. e \in Entry /\ e.key = k
    BY <1>0, CacheAssumption DEF Entry
  <2>3. e.value = v /\ e.expires_at - Ttl = now
    BY <1>0, CacheAssumption
  <2> HIDE DEF e
  <2>4. s \in Seq(Entry) /\ Distinct(s) /\ OnlyFrom(s, store, k)
    BY <1>0, <2>2, MovedDistinct, WithoutFrom
  <2>5. s[Len(s)] = e /\ Len(s) \in 1..Len(s)
    <3>1. Without(store, k) \in Seq(Entry)
      BY <1>0, WithoutLeaves
    <3> QED
      BY <3>1, <2>2
  <2> HIDE DEF s
  <2>6. \A i \in 1..Len(store') : \E j \in 1..Len(s) : store'[i] = s[j]
    BY <2>1, <2>4, CacheAssumption DEF Trimmed
  <2>7. ASSUME NEW x \in CacheKeys, Has(store', x) PROVE KnownIn(store', x) = f[x]
    <3>1. PICK i \in 1..Len(store') : store'[i].key = x
      BY <2>7 DEF Has
    <3>2. PICK j \in 1..Len(s) : store'[i] = s[j]
      BY <2>6
    <3>3. Place(store', x) = i /\ Place(s, x) = j
      BY <1>0, <2>4, <3>1, <3>2, PlaceIs
    <3>4. KnownIn(store', x) = KnownIn(s, x) /\ Has(s, x)
      BY <3>1, <3>2, <3>3 DEF KnownIn, Has
    <3>5. CASE x = k
      <4>1. Place(s, k) = Len(s)
        BY <2>2, <2>4, <2>5, PlaceIs
      <4>2. KnownIn(s, k) = [value |-> v, at |-> now]
        BY <3>4, <3>5, <4>1, <2>3, <2>5 DEF KnownIn
      <4> QED
        BY <3>4, <3>5, <4>2
    <3>6. CASE x # k
      BY <1>0, <2>4, <3>4, <3>6, KnownFrom
    <3> QED
      BY <3>5, <3>6
  <2>8. Contract!MayForget(f)
    BY <2>7, ForgetsOnly
  <2> QED
    BY <2>1, <2>8, ContractTerms
<1>5. CASE Invalidate
  <2>1. store' = <<>> /\ now' = now /\ found' = found
    BY <1>5 DEF Invalidate
  <2>2. Contract!MayForget(known)
    BY <2>1, KeepsMayForget
  <2>3. Contract!CForget
    BY <2>1, <2>2, ContractTerms
  <2> QED
    BY <2>3 DEF Contract!CNext
<1>6. CASE CacheTick
  BY <1>6 DEF CacheTick, Contract!CNext, Contract!CTick, Holds, EntryOf
<1>7. CASE UNCHANGED cacheVars
  BY <1>7 DEF cacheVars, Contract!cvars, Holds, EntryOf
<1> QED
  BY <1>1, <1>2, <1>3, <1>4, <1>5, <1>6, <1>7 DEF CacheNext, Get, Contract!CNext

\* The store implements the contract of a cache with a time to live, for every capacity,
\* time to live and sets of keys and values.
THEOREM CacheContractKept == CacheSpec => ImplementsCache
<1>1. CacheInit => Contract!CInit
  <2> SUFFICES ASSUME CacheInit PROVE Contract!CInit
    OBVIOUS
  <2>1. \A k : KnownIn(store, k) = None
    BY DEF CacheInit, KnownIn, Has
  <2> QED
    BY <2>1, ContractTerms DEF CacheInit
<1> QED
  BY <1>1, CacheInvariance, CacheStepImplements, PTL
  DEF CacheSpec, ImplementsCache, Contract!ContractSpec
=============================================================================
