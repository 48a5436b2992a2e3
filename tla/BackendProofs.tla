--------------------------- MODULE BackendProofs ---------------------------
(***************************************************************************)
(* The two halves of the backend, which share no state: the orchestrator   *)
(* of agents, tasks and budget, and the store of telemetry window and      *)
(* database.                                                               *)
(*                                                                         *)
(* The orchestrator, for any requests, agents, objects and tasks and any   *)
(* budget: a task is in one place only, which its own history decides, and *)
(* agents leave the registry only with the heap empty.  The latter holds   *)
(* because the budget never runs out, and it never does because nothing    *)
(* is ever taken from it.                                                  *)
(*                                                                         *)
(* The database and the endpoints that write to it, for any agents, trust  *)
(* scores, clients and addresses: the tables keep their types, no client's *)
(* update is lost, and the trail names an agent without a row only in an   *)
(* override after a failed registration.  The inductive part is Behind: no *)
(* client whose reading stands expects a version the row has not reached,  *)
(* and one that was overtaken expects an older one.  It holds in spite of  *)
(* failed commits because clients see what the connection sees, and in     *)
(* spite of restarts because clients do not survive them.  And what is on  *)
(* the disk the connection has too, so that a rollback takes no row away   *)
(* that a registration has answered for.                                   *)
(*                                                                         *)
(* The rate limit, for any clients, limit and window: the requests of the  *)
(* last a ticks are the last ones of a client's deque, for every a up to   *)
(* the window, so that popping from the left leaves those that count; and  *)
(* each restart in the last a ticks adds at most the limit to what earlier *)
(* processes let through in them.                                          *)
(***************************************************************************)
EXTENDS AgentOrchestrator, BackendStore, FiniteSetTheorems, TLAPS

-----------------------------------------------------------------------------
(* The orchestrator: its invariant *)

\* Objects are registered under their own hash, and tasks, handlers and the budget are what
\* they should be.
Agency ==
  /\ DOMAIN registry = Hashes /\ Made \subseteq Objects
  /\ \A x \in Hashes : registry[x] # Nothing => registry[x] \in Made /\ dna[registry[x]].hash = x
  /\ \A o \in Made : dna[o] \in DNA
  /\ task \in [Tasks -> TaskOf \cup {Nothing}]
  /\ \A k \in Tasks : task[k] # Nothing => task[k].object \in Made
  /\ handler \in [Handlers -> Requests]
  /\ \A h \in Handlers : handler[h].pc = "sleeping" => handler[h].task \in Tasks
  /\ queue \subseteq Tasks /\ answered \subseteq Tasks
  /\ budget \in Nat \ {0}

\* Handler h runs the task k.
Runs(h, k) == Running(h) /\ handler[h].task = k

\* A task is in the heap, answered, run by a handler or among the results of one, and in one
\* of these only; it has been scheduled.
OnePlace ==
  \A k \in Tasks :
    /\ k \in queue \cup answered => task[k] # Nothing
    /\ k \in queue => k \notin answered
    /\ \A h \in Handlers : Runs(h, k) \/ k \in handler[h].results =>
         /\ task[k] # Nothing /\ k \notin queue /\ k \notin answered
         /\ \A g \in Handlers : Runs(g, k) \/ k \in handler[g].results => g = h
    /\ \A h \in Handlers : ~(Runs(h, k) /\ k \in handler[h].results)

IInv == Agency /\ OnePlace /\ QueuedAreRegistered /\ LowTrustIsTransient

-----------------------------------------------------------------------------
(* Handlers *)

\* What a step does to one handler.
LEMMA HandlerMoves ==
  ASSUME Agency, NEW h \in Handlers, NEW r \in Requests, handler' = [handler EXCEPT ![h] = r],
         r.pc = "sleeping" => r.task \in Tasks
  PROVE  /\ handler' \in [Handlers -> Requests] /\ handler'[h] = r
         /\ \A g \in Handlers : g # h => handler'[g] = handler[g]
         /\ \A g \in Handlers : handler'[g].pc = "sleeping" => handler'[g].task \in Tasks
BY DEF Agency

\* A handler that goes on to another pc, or notes a result.
LEMMA HandlerGoesOn ==
  ASSUME Agency, NEW h \in Handlers,
         NEW p \in {"idle", "draining", "sleeping", "stuck", "waiting"}, NEW k \in Tasks
  PROVE  /\ LET r == [handler[h] EXCEPT !.pc = p]
             IN  /\ r \in Requests /\ r.pc = p /\ r.task = handler[h].task
                 /\ r.results = handler[h].results
                 /\ [handler EXCEPT ![h].pc = p] = [handler EXCEPT ![h] = r]
         /\ LET r == [handler[h] EXCEPT !.results = @ \cup {k}]
             IN  /\ r \in Requests /\ r.pc = handler[h].pc /\ r.task = handler[h].task
                 /\ r.results = handler[h].results \cup {k}
                 /\ [handler EXCEPT ![h].results = @ \cup {k}] = [handler EXCEPT ![h] = r]
<1>1. handler[h] \in Requests
  BY DEF Agency
<1>2. /\ [handler[h] EXCEPT !.pc = p] \in Requests
      /\ [handler[h] EXCEPT !.results = @ \cup {k}] \in Requests
  BY <1>1 DEF Requests
<1> QED
  BY <1>1, <1>2 DEF Requests

\* A bid and a refund are numbers of tokens.
LEMMA BidsAreTokens ==
  ASSUME Agency, NEW k \in Tasks, task[k] # Nothing
  PROVE  Bid(k) \in Nat
<1>1. task[k].object \in Made
  BY DEF Agency
<1>2. TrustOf(k) \in 0..100
  BY <1>1 DEF Agency, DNA, TrustOf
<1> DEFINE f == IF TrustOf(k) < AllocationFactor THEN TrustOf(k) ELSE AllocationFactor
<1>3. f \in Nat /\ budget \in Nat
  BY <1>2 DEF AllocationFactor, Agency
<1> HIDE DEF f
<1>4. budget * f \in Nat
  BY <1>3
<1>5. \A n \in Nat : n \div 100 \in Nat
  OBVIOUS
<1>6. (budget * f) \div 100 \in Nat
  BY <1>4, <1>5
<1> QED
  BY <1>6 DEF Bid, f

-----------------------------------------------------------------------------
(* The parts of the invariant, step by step *)

\* A step that puts no task anywhere keeps each in one place.
LEMMA PlacesShrink ==
  ASSUME OnePlace,
         \A k \in Tasks :
           /\ k \in queue' => k \in queue
           /\ k \in answered' => k \in answered
           /\ task[k] # Nothing => task'[k] # Nothing
           /\ \A h \in Handlers : /\ Runs(h, k)' => Runs(h, k)
                                  /\ k \in handler'[h].results => k \in handler[h].results
  PROVE  OnePlace'
BY DEF OnePlace

\* A step that leaves agents and heap alone, and takes no handler out of its run, keeps what
\* is said of agents.
LEMMA AgentsStay ==
  ASSUME QueuedAreRegistered, LowTrustIsTransient, UNCHANGED <<registry, dna, task>>,
         queue' \subseteq queue,
         \A h \in Handlers : handler[h].pc = "draining" \/ Running(h)
                             => handler'[h].pc = "draining" \/ Running(h)'
  PROVE  QueuedAreRegistered' /\ LowTrustIsTransient'
<1>1. QueuedAreRegistered'
  BY DEF QueuedAreRegistered
<1>2. Untrusted' = Untrusted
  BY DEF Untrusted
<1>3. LowTrustIsTransient'
  BY <1>2 DEF LowTrustIsTransient
<1> QED
  BY <1>1, <1>3

\* A task in the heap is scheduled for a registered object.
LEMMA QueuedFacts ==
  ASSUME IInv, NEW k \in queue
  PROVE  /\ k \in Tasks /\ task[k] # Nothing /\ task[k].object \in Made
         /\ dna[task[k].object].hash \in Hashes
         /\ registry[dna[task[k].object].hash] = task[k].object
         /\ task[k].object # Nothing
<1>1. k \in Tasks /\ task[k] # Nothing
  BY DEF IInv, Agency, OnePlace
<1>2. task[k].object \in Made /\ Made \subseteq Objects
  BY <1>1 DEF IInv, Agency
<1>3. dna[task[k].object] \in DNA
  BY <1>2 DEF IInv, Agency
<1>4. dna[task[k].object].hash \in Hashes
  BY <1>3 DEF DNA
<1> QED
  BY <1>1, <1>2, <1>4, OrchestratorAssumption DEF IInv, QueuedAreRegistered

\* Registering keeps the objects that are there and the hashes they are under.
LEMMA RegisterKeeps ==
  ASSUME IInv, NEW x \in Hashes, NEW t \in InitialTrusts, Register(x, t)
  PROVE  IInv'
<1>1. UNCHANGED <<queue, task, budget, handler, answered>>
  BY DEF Register
<1>2. OnePlace'
  BY <1>1 DEF IInv, OnePlace, Runs, Running
<1>3. CASE UNCHANGED <<registry, dna>>
  <2>1. Agency'
    BY <1>1, <1>3 DEF IInv, Agency, Made
  <2>2. QueuedAreRegistered' /\ LowTrustIsTransient'
    BY <1>1, <1>3, AgentsStay DEF IInv, Running
  <2> QED
    BY <1>2, <2>1, <2>2 DEF IInv
<1>4. ASSUME registry[x] = Nothing, NEW o \in Objects \ Made,
             dna' = [p \in Made \cup {o} |->
                       IF p = o THEN [hash |-> x, trust |-> t, override |-> "unset"] ELSE dna[p]],
             registry' = [registry EXCEPT ![x] = o]
      PROVE  IInv'
  <2> DEFINE n == [hash |-> x, trust |-> t, override |-> "unset"]
  <2>1. n \in DNA /\ n.hash = x /\ n.trust = t
    BY OrchestratorAssumption DEF DNA
  <2>2. dna' = [p \in Made \cup {o} |-> IF p = o THEN n ELSE dna[p]]
    BY <1>4
  <2> HIDE DEF n
  <2>3. Made' = Made \cup {o} /\ dna'[o] = n /\ \A p \in Made : p # o /\ dna'[p] = dna[p]
    BY <1>4, <2>2 DEF Made
  <2>4. /\ DOMAIN registry' = Hashes
        /\ \A y \in Hashes : registry'[y] = IF y = x THEN o ELSE registry[y]
    BY <1>4 DEF IInv, Agency
  <2>5. Agency'
    BY <1>1, <1>4, <2>1, <2>3, <2>4 DEF IInv, Agency
  <2>6. QueuedAreRegistered'
    BY <1>1, <1>4, <2>3, <2>4, QueuedFacts DEF QueuedAreRegistered
  <2>7. LowTrustIsTransient'
    <3>1. ASSUME \A u \in InitialTrusts : u >= MinTrust, NEW y \in Untrusted'
          PROVE  y \in Untrusted
      <4>1. y \in Hashes /\ registry'[y] # Nothing /\ dna'[registry'[y]].trust < MinTrust
        BY <3>1 DEF Untrusted
      <4>2. t >= MinTrust /\ t \in 0..100 /\ MinTrust \in Nat
        BY <3>1, OrchestratorAssumption DEF MinTrust
      <4>3. y # x
        BY <2>1, <2>3, <2>4, <4>1, <4>2
      <4> QED
        BY <2>3, <2>4, <4>1, <4>3 DEF Untrusted, IInv, Agency
    <3>2. \A h \in Handlers : (handler[h].pc = "draining" \/ Running(h))
                              => (handler'[h].pc = "draining" \/ Running(h)')
      BY <1>1 DEF Running
    <3> QED
      BY <3>1, <3>2 DEF IInv, LowTrustIsTransient
  <2> QED
    BY <1>2, <2>5, <2>6, <2>7 DEF IInv
<1> QED
  BY <1>3, <1>4, Zenon DEF Register, RegisterDna

\* A task is scheduled once, for the object registered under its hash.
LEMMA ScheduleKeeps ==
  ASSUME IInv, NEW x \in Hashes, NEW k \in Tasks, NEW p \in Priorities, Schedule(x, k, p)
  PROVE  IInv'
<1> DEFINE n == [object |-> registry[x], priority |-> p]
<1>1. /\ UNCHANGED <<registry, dna, budget, handler, answered>> /\ queue' = queue \cup {k}
      /\ registry[x] # Nothing /\ task[k] = Nothing /\ task' = [task EXCEPT ![k] = n]
  BY DEF Schedule, agents
<1>2. registry[x] \in Made /\ dna[registry[x]].hash = x /\ Made \subseteq Objects
  BY <1>1 DEF IInv, Agency
<1>3. n \in TaskOf /\ n # Nothing /\ n.object = registry[x]
  BY <1>2, NothingAssumption DEF TaskOf
<1> HIDE DEF n
<1>4. /\ task' \in [Tasks -> TaskOf \cup {Nothing}] /\ task'[k] = n
      /\ \A j \in Tasks : j # k => task'[j] = task[j]
  BY <1>1, <1>3 DEF IInv, Agency
<1>5. Agency'
  BY <1>1, <1>2, <1>3, <1>4 DEF IInv, Agency, Made
<1>6. OnePlace'
  <2>1. /\ k \notin queue /\ k \notin answered
        /\ \A h \in Handlers : ~Runs(h, k) /\ k \notin handler[h].results
    BY <1>1 DEF IInv, OnePlace
  <2>2. \A h \in Handlers, j \in Tasks : Runs(h, j)' <=> Runs(h, j)
    BY <1>1 DEF Runs, Running
  <2> QED
    BY <1>1, <1>3, <1>4, <2>1, <2>2 DEF IInv, OnePlace
<1>7. QueuedAreRegistered'
  BY <1>1, <1>2, <1>3, <1>4, QueuedFacts DEF QueuedAreRegistered, IInv, OnePlace
<1>8. LowTrustIsTransient'
  BY <1>1 DEF IInv, LowTrustIsTransient, Untrusted, Running
<1> QED
  BY <1>5, <1>6, <1>7, <1>8 DEF IInv

\* A handler that is new or wakes up, and changes its pc only, keeps its place for its task.
LEMMA PcMovesKeep ==
  ASSUME IInv, NEW h \in Handlers, handler[h] = Idle \/ handler[h].pc = "sleeping",
         NEW p \in {"draining", "stuck", "waiting"}, handler' = [handler EXCEPT ![h].pc = p],
         UNCHANGED <<registry, dna, task, queue, answered>>, budget' \in Nat \ {0}
  PROVE  IInv'
<1> DEFINE r == [handler[h] EXCEPT !.pc = p]
<1>1. handler[h] \in Requests
  BY DEF IInv, Agency
<1>2. /\ r \in Requests /\ r.pc = p /\ r.task = handler[h].task
      /\ r.results = handler[h].results
  BY <1>1 DEF Requests
<1>3. handler' = [handler EXCEPT ![h] = r]
  OBVIOUS
<1> HIDE DEF r
<1>4. /\ handler' \in [Handlers -> Requests] /\ handler'[h] = r
      /\ \A g \in Handlers : g # h => handler'[g] = handler[g]
      /\ \A g \in Handlers : handler'[g].pc = "sleeping" => handler'[g].task \in Tasks
  BY <1>2, <1>3, HandlerMoves DEF IInv
<1>5. Agency'
  BY <1>4 DEF IInv, Agency, Made
<1>6. handler[h].pc = "idle" => handler[h].task = Nothing
  BY DEF Idle
<1>7. handler[h].pc # "draining"
  BY DEF Idle
<1>8. \A g \in Handlers : Running(g)' <=> Running(g)
  BY <1>2, <1>4, <1>6 DEF Running
<1>9. \A g \in Handlers : handler'[g].task = handler[g].task /\ handler'[g].results = handler[g].results
  BY <1>2, <1>4
<1>10. OnePlace'
  BY <1>8, <1>9, PlacesShrink DEF IInv, Runs
<1>11. \A g \in Handlers : handler[g].pc = "draining" \/ Running(g)
                          => handler'[g].pc = "draining" \/ Running(g)'
  BY <1>4, <1>7, <1>8
<1>12. QueuedAreRegistered' /\ LowTrustIsTransient'
  BY <1>11, AgentsStay DEF IInv
<1> QED
  BY <1>5, <1>10, <1>12 DEF IInv

\* An override changes neither hash nor trust.
LEMMA OverrideKeeps ==
  ASSUME IInv, NEW h \in Handlers, NEW x \in Hashes, NEW o \in Made,
         NEW c \in {"allow", "block"}, Override(h, x, o, c)
  PROVE  IInv'
<1>1. UNCHANGED <<registry, queue, task, budget, answered>> /\ handler[h] = Idle
  BY DEF Override, Fresh
<1>2. CASE handler' = [handler EXCEPT ![h].pc = "waiting"] /\ UNCHANGED dna
  BY <1>1, <1>2, PcMovesKeep DEF IInv, Agency
<1>3. CASE dna' = [dna EXCEPT ![o].override = c] /\ UNCHANGED handler
  <2> DEFINE n == [dna[o] EXCEPT !.override = c]
  <2>1. dna[o] \in DNA
    BY DEF IInv, Agency
  <2>2. n \in DNA /\ n.hash = dna[o].hash /\ n.trust = dna[o].trust
    BY <2>1 DEF DNA
  <2>3. dna' = [dna EXCEPT ![o] = n]
    BY <1>3
  <2> HIDE DEF n
  <2>4. Made' = Made /\ \A p \in Made : dna'[p] = IF p = o THEN n ELSE dna[p]
    BY <2>3 DEF Made
  <2>5. \A p \in Made : /\ dna'[p] \in DNA /\ dna'[p].hash = dna[p].hash
                        /\ dna'[p].trust = dna[p].trust
    BY <2>2, <2>4 DEF IInv, Agency
  <2>6. Agency'
    BY <1>1, <1>3, <2>4, <2>5 DEF IInv, Agency
  <2>7. OnePlace'
    BY <1>1, <1>3 DEF IInv, OnePlace, Runs, Running
  <2>8. QueuedAreRegistered'
    BY <1>1, <2>5, QueuedFacts DEF QueuedAreRegistered
  <2>9. Untrusted' = Untrusted
    BY <1>1, <2>5 DEF Untrusted, IInv, Agency
  <2>10. LowTrustIsTransient'
    BY <1>3, <2>9 DEF IInv, LowTrustIsTransient, Running
  <2> QED
    BY <2>6, <2>7, <2>8, <2>10 DEF IInv
<1> QED
  BY <1>2, <1>3, Zenon DEF Override, SetHumanOverride

\* A head of the heap is a task in it.
LEMMA HeadsAreQueued == Heads \subseteq queue
BY DEF Heads

\* A task that is dropped or reported as blocked leaves the heap.
LEMMA SkipsKeep ==
  ASSUME IInv, NEW h \in Handlers, DropUntrusted(h) \/ ReportBlocked(h)
  PROVE  IInv'
<1>1. UNCHANGED <<registry, dna, task, budget, answered>>
  BY DEF DropUntrusted, ReportBlocked, agents
<1>2. PICK k \in queue : /\ queue' = queue \ {k}
                        /\ \/ UNCHANGED handler
                           \/ handler' = [handler EXCEPT ![h].results = @ \cup {k}]
  BY HeadsAreQueued, Zenon DEF DropUntrusted, ReportBlocked
<1>3. k \in Tasks /\ task[k] # Nothing
  BY QueuedFacts
<1>4. CASE UNCHANGED handler
  <2>1. Agency'
    BY <1>1, <1>2, <1>4 DEF IInv, Agency, Made
  <2>2. OnePlace'
    BY <1>1, <1>2, <1>4 DEF IInv, OnePlace, Runs, Running
  <2>3. QueuedAreRegistered' /\ LowTrustIsTransient'
    BY <1>1, <1>2, <1>4, AgentsStay DEF IInv, Running
  <2> QED
    BY <2>1, <2>2, <2>3 DEF IInv
<1>5. CASE handler' = [handler EXCEPT ![h].results = @ \cup {k}]
  <2> DEFINE r == [handler[h] EXCEPT !.results = @ \cup {k}]
  <2>1. handler[h] \in Requests
    BY DEF IInv, Agency
  <2>2. /\ r \in Requests /\ r.pc = handler[h].pc /\ r.task = handler[h].task
        /\ r.results = handler[h].results \cup {k}
    BY <1>3, <2>1 DEF Requests
  <2>3. handler' = [handler EXCEPT ![h] = r]
    BY <1>5
  <2> HIDE DEF r
  <2>4. /\ handler' \in [Handlers -> Requests] /\ handler'[h] = r
        /\ \A g \in Handlers : g # h => handler'[g] = handler[g]
        /\ \A g \in Handlers : handler'[g].pc = "sleeping" => handler'[g].task \in Tasks
    BY <2>2, <2>3, HandlerMoves DEF IInv, Agency
  <2>5. Agency'
    BY <1>1, <1>2, <2>4 DEF IInv, Agency, Made
  <2>6. \A g \in Handlers : /\ handler'[g].pc = handler[g].pc /\ handler'[g].task = handler[g].task
                            /\ handler'[g].results = IF g = h THEN handler[g].results \cup {k}
                                                             ELSE handler[g].results
    BY <2>2, <2>4
  <2>7. \A g \in Handlers : (Running(g)' <=> Running(g)) /\ \A j \in Tasks : Runs(g, j)' <=> Runs(g, j)
    BY <2>6 DEF Running, Runs
  <2>8. \A g \in Handlers : ~Runs(g, k) /\ k \notin handler[g].results
    BY <1>3 DEF IInv, OnePlace
  <2>9. OnePlace'
    <3> SUFFICES ASSUME NEW j \in Tasks
                 PROVE  /\ j \in queue' \cup answered => task[j] # Nothing
                        /\ j \in queue' => j \notin answered
                        /\ \A g \in Handlers : Runs(g, j)' \/ j \in handler'[g].results =>
                             /\ task[j] # Nothing /\ j \notin queue' /\ j \notin answered
                             /\ \A f \in Handlers :
                                  Runs(f, j)' \/ j \in handler'[f].results => f = g
                        /\ \A g \in Handlers : ~(Runs(g, j)' /\ j \in handler'[g].results)
      BY <1>1 DEF OnePlace
    <3>1. CASE j = k
      <4>1. k \notin answered /\ k \notin queue'
        BY <1>2, <1>3 DEF IInv, OnePlace
      <4>2. \A g \in Handlers : ~Runs(g, k)' /\ (k \in handler'[g].results => g = h)
        BY <1>3, <2>6, <2>7, <2>8
      <4> QED
        BY <3>1, <1>3, <4>1, <4>2
    <3>2. CASE j # k
      <4>1. \A g \in Handlers : /\ Runs(g, j)' <=> Runs(g, j)
                                /\ j \in handler'[g].results <=> j \in handler[g].results
        BY <3>2, <2>6, <2>7
      <4> QED
        BY <3>2, <1>2, <4>1 DEF IInv, OnePlace
    <3> QED
      BY <3>1, <3>2
  <2>10. QueuedAreRegistered' /\ LowTrustIsTransient'
    BY <1>1, <1>2, <2>6, <2>7, AgentsStay DEF IInv
  <2> QED
    BY <2>5, <2>9, <2>10 DEF IInv
<1> QED
  BY <1>2, <1>4, <1>5

\* A task that starts is the handler's and out of the heap.
LEMMA StartKeeps ==
  ASSUME IInv, NEW h \in Handlers, Start(h)
  PROVE  IInv'
<1>1. UNCHANGED <<registry, dna, task, budget, answered>>
  BY DEF Start, agents
<1>2. PICK k \in queue :
        /\ queue' = queue \ {k}
        /\ handler' = [handler EXCEPT ![h] =
                         [@ EXCEPT !.pc = "sleeping", !.task = k, !.bid = Bid(k)]]
  BY HeadsAreQueued, Zenon DEF Start
<1>3. k \in Tasks /\ task[k] # Nothing /\ k # Nothing
  BY QueuedFacts, OrchestratorAssumption
<1> DEFINE r == [handler[h] EXCEPT !.pc = "sleeping", !.task = k, !.bid = Bid(k)]
<1>4. handler[h] \in Requests /\ Bid(k) \in Nat
  BY <1>3, BidsAreTokens DEF IInv, Agency
<1>5. r \in Requests /\ r.pc = "sleeping" /\ r.task = k /\ r.results = handler[h].results
  BY <1>3, <1>4 DEF Requests
<1>b. handler' = [handler EXCEPT ![h] = r]
  BY <1>2
<1> HIDE DEF r
<1>6. /\ handler' \in [Handlers -> Requests] /\ handler'[h] = r
      /\ \A g \in Handlers : g # h => handler'[g] = handler[g]
      /\ \A g \in Handlers : handler'[g].pc = "sleeping" => handler'[g].task \in Tasks
  BY <1>3, <1>5, <1>b, HandlerMoves DEF IInv
<1>7. Agency'
  BY <1>1, <1>2, <1>6 DEF IInv, Agency, Made
<1>8. Running(h)' /\ \A g \in Handlers : g # h => (Running(g)' <=> Running(g))
  BY <1>3, <1>5, <1>6 DEF Running
<1>9. \A j \in Tasks : /\ Runs(h, j)' <=> j = k
                       /\ \A g \in Handlers : g # h => (Runs(g, j)' <=> Runs(g, j))
  BY <1>5, <1>6, <1>8 DEF Runs
<1>10. \A g \in Handlers : handler'[g].results = handler[g].results
  BY <1>5, <1>6
<1>11. \A g \in Handlers : ~Runs(g, k) /\ k \notin handler[g].results
  BY <1>3 DEF IInv, OnePlace
<1>12. k \notin answered
  BY <1>3 DEF IInv, OnePlace
<1>13. OnePlace'
  <2> SUFFICES ASSUME NEW j \in Tasks
               PROVE  /\ j \in queue' \cup answered => task[j] # Nothing
                      /\ j \in queue' => j \notin answered
                      /\ \A g \in Handlers : Runs(g, j)' \/ j \in handler'[g].results =>
                           /\ task[j] # Nothing /\ j \notin queue' /\ j \notin answered
                           /\ \A f \in Handlers : Runs(f, j)' \/ j \in handler'[f].results => f = g
                      /\ \A g \in Handlers : ~(Runs(g, j)' /\ j \in handler'[g].results)
    BY <1>1 DEF OnePlace
  <2>1. CASE j = k
    BY <2>1, <1>2, <1>3, <1>9, <1>10, <1>11, <1>12
  <2>2. CASE j # k
    BY <2>2, <1>2, <1>9, <1>10 DEF IInv, OnePlace
  <2> QED
    BY <2>1, <2>2
<1>14. \A g \in Handlers : handler[g].pc = "draining" \/ Running(g)
                          => handler'[g].pc = "draining" \/ Running(g)'
  BY <1>6, <1>8
<1>15. QueuedAreRegistered' /\ LowTrustIsTransient'
  BY <1>1, <1>2, <1>14, AgentsStay DEF IInv
<1> QED
  BY <1>7, <1>13, <1>15 DEF IInv

\* A run ends with the heap empty, because the budget is not; it archives who is below the
\* threshold and answers what it has.
LEMMA FinishKeeps ==
  ASSUME IInv, NEW h \in Handlers, Finish(h)
  PROVE  IInv'
<1>1. /\ UNCHANGED <<dna, task, queue, budget>> /\ answered' = answered \cup handler[h].results
      /\ registry' = [x \in Hashes |-> IF x \in Untrusted THEN Nothing ELSE registry[x]]
      /\ handler' = [handler EXCEPT ![h] = Idle]
  BY DEF Finish
<1>2. queue = {}
  BY DEF Finish, MoreToDo, IInv, Agency
<1>3. Idle \in Requests /\ Idle.pc = "idle" /\ Idle.results = {} /\ Idle.task = Nothing
  BY DEF Idle, Requests
<1>4. /\ handler' \in [Handlers -> Requests] /\ handler'[h] = Idle
      /\ \A g \in Handlers : g # h => handler'[g] = handler[g]
      /\ \A g \in Handlers : handler'[g].pc = "sleeping" => handler'[g].task \in Tasks
  BY <1>1, <1>3, HandlerMoves DEF IInv
<1>5. handler[h].results \subseteq Tasks
  BY DEF IInv, Agency, Requests
<1>6. Agency'
  BY <1>1, <1>4, <1>5 DEF IInv, Agency, Made
<1>7. \A j \in Tasks : /\ ~Runs(h, j)' /\ j \notin handler'[h].results
                       /\ \A g \in Handlers : g # h =>
                            /\ Runs(g, j)' <=> Runs(g, j)
                            /\ handler'[g].results = handler[g].results
  BY <1>3, <1>4 DEF Runs, Running
<1>8. OnePlace'
  BY <1>1, <1>2, <1>7 DEF IInv, OnePlace
<1>9. QueuedAreRegistered'
  BY <1>1, <1>2 DEF QueuedAreRegistered
<1>10. Untrusted' = {}
  BY <1>1 DEF Untrusted
<1>11. LowTrustIsTransient'
  BY <1>10 DEF LowTrustIsTransient
<1> QED
  BY <1>6, <1>8, <1>9, <1>11 DEF IInv

\* A failed review lowers the trust, returns half the bid and makes the task a result.
LEMMA ReviewFailsKeeps ==
  ASSUME IInv, NEW h \in Handlers, ReviewFails(h)
  PROVE  IInv'
<1> DEFINE k == handler[h].task
           o == ObjectOf(h)
<1>1. /\ UNCHANGED <<registry, queue, task, answered>> /\ handler[h].pc = "sleeping"
      /\ budget' = budget + handler[h].bid \div 2
  BY DEF ReviewFails, Awake
<1>2. k \in Tasks /\ handler[h] \in Requests /\ handler[h].bid \in Nat
  BY <1>1 DEF IInv, Agency, Requests
<1>3. k # Nothing /\ Runs(h, k)
  BY <1>1, <1>2, OrchestratorAssumption DEF Runs, Running
<1>4. task[k] # Nothing
  BY <1>2, <1>3 DEF IInv, OnePlace
<1>5. o \in Made
  BY <1>2, <1>4 DEF IInv, Agency, ObjectOf
<1>6. budget' \in Nat \ {0}
  <2>1. handler[h].bid \div 2 \in Nat
    BY <1>2
  <2>2. budget \in Nat \ {0}
    BY DEF IInv, Agency
  <2> QED
    BY <1>1, <2>1, <2>2
<1>7. CASE handler' = [handler EXCEPT ![h].pc = "waiting"] /\ UNCHANGED dna
  BY <1>1, <1>6, <1>7, PcMovesKeep
<1>8. ASSUME dna' = [dna EXCEPT ![o].trust = Lowered(@)],
             handler' = [handler EXCEPT ![h] =
                           [Idle EXCEPT !.pc = "draining", !.results = handler[h].results \cup {k}]]
      PROVE  IInv'
  <2> DEFINE n == [dna[o] EXCEPT !.trust = Lowered(@)]
             r == [Idle EXCEPT !.pc = "draining", !.results = handler[h].results \cup {k}]
  <2>1. dna[o] \in DNA /\ dna[o].trust \in 0..100
    BY <1>5 DEF IInv, Agency, DNA
  <2>2. Lowered(dna[o].trust) \in 0..100
    BY <2>1 DEF Lowered, FailurePenalty
  <2>3. n \in DNA /\ n.hash = dna[o].hash
    BY <2>1, <2>2 DEF DNA
  <2>4. dna' = [dna EXCEPT ![o] = n]
    BY <1>8
  <2>5. r \in Requests /\ r.pc = "draining" /\ r.task = Nothing
        /\ r.results = handler[h].results \cup {k}
    BY <1>2 DEF Idle, Requests
  <2> HIDE DEF n, r, o
  <2>6. Made' = Made /\ \A p \in Made : dna'[p] = IF p = o THEN n ELSE dna[p]
    BY <2>4 DEF Made
  <2>7. \A p \in Made : dna'[p] \in DNA /\ dna'[p].hash = dna[p].hash
    BY <2>3, <2>6 DEF IInv, Agency
  <2>8. /\ handler' \in [Handlers -> Requests] /\ handler'[h] = r
        /\ \A g \in Handlers : g # h => handler'[g] = handler[g]
        /\ \A g \in Handlers : handler'[g].pc = "sleeping" => handler'[g].task \in Tasks
    <3>1. handler' = [handler EXCEPT ![h] = r]
      BY <1>8 DEF r
    <3> QED
      BY <2>5, <3>1, HandlerMoves DEF IInv
  <2>9. Agency'
    BY <1>1, <1>6, <2>6, <2>7, <2>8 DEF IInv, Agency
  <2>10. QueuedAreRegistered'
    BY <1>1, <2>7, QueuedFacts DEF QueuedAreRegistered
  <2>11. LowTrustIsTransient'
    BY <2>5, <2>8 DEF LowTrustIsTransient
  <2>12. \A j \in Tasks : /\ ~Runs(h, j)' /\ \A g \in Handlers : g # h => (Runs(g, j)' <=> Runs(g, j))
                          /\ j \in handler'[h].results <=> j = k \/ j \in handler[h].results
                          /\ \A g \in Handlers : g # h => handler'[g].results = handler[g].results
    BY <2>5, <2>8 DEF Runs, Running
  <2>13. \A j \in Tasks : Runs(h, j) => j = k
    BY DEF Runs
  <2>14. \A j \in Tasks : j \in handler'[h].results => Runs(h, j) \/ j \in handler[h].results
    BY <1>3, <2>12
  <2>15. OnePlace'
    <3> SUFFICES ASSUME NEW j \in Tasks
                 PROVE  /\ j \in queue \cup answered => task[j] # Nothing
                        /\ j \in queue => j \notin answered
                        /\ \A g \in Handlers : Runs(g, j)' \/ j \in handler'[g].results =>
                             /\ task[j] # Nothing /\ j \notin queue /\ j \notin answered
                             /\ \A f \in Handlers :
                                  Runs(f, j)' \/ j \in handler'[f].results => f = g
                        /\ \A g \in Handlers : ~(Runs(g, j)' /\ j \in handler'[g].results)
      BY <1>1 DEF OnePlace
    <3>1. \A g \in Handlers : Runs(g, j)' \/ j \in handler'[g].results
                             => Runs(g, j) \/ j \in handler[g].results
      BY <2>12, <2>14
    <3>2. \A g \in Handlers : ~(Runs(g, j)' /\ j \in handler'[g].results)
      BY <2>12 DEF IInv, OnePlace
    <3> QED
      BY <3>1, <3>2 DEF IInv, OnePlace
  <2> QED
    BY <2>9, <2>10, <2>11, <2>15 DEF IInv
<1> QED
  BY <1>7, <1>8, Zenon DEF ReviewFails

\* A review that passes gets its handler stuck or has it wait.
LEMMA ReviewPassesKeeps ==
  ASSUME IInv, NEW h \in Handlers, ReviewPasses(h)
  PROVE  IInv'
<1>1. /\ UNCHANGED <<registry, dna, task, queue, answered, budget>>
      /\ handler[h].pc = "sleeping"
  BY DEF ReviewPasses, Awake, agents
<1>2. PICK p \in {"stuck", "waiting"} : handler' = [handler EXCEPT ![h].pc = p]
  BY Zenon DEF ReviewPasses, RecordModalPerf
<1> QED
  BY <1>1, <1>2, PcMovesKeep DEF IInv, Agency

\* A restart empties heap, handlers and registry.
LEMMA RestartKeeps ==
  ASSUME IInv, Restart
  PROVE  IInv'
<1>1. /\ UNCHANGED <<dna, task, answered>> /\ queue' = {} /\ budget' = TokenBudget
      /\ registry' = [x \in Hashes |-> Nothing] /\ handler' = [h \in Handlers |-> Idle]
  BY DEF Restart
<1>2. Idle \in Requests /\ Idle.pc = "idle" /\ Idle.results = {} /\ Idle.task = Nothing
  BY DEF Idle, Requests
<1>3. Agency'
  BY <1>1, <1>2, OrchestratorAssumption DEF IInv, Agency, Made
<1>4. \A h \in Handlers : handler'[h].results = {} /\ ~Running(h)'
  BY <1>1, <1>2 DEF Running
<1>5. OnePlace'
  BY <1>1, <1>4, PlacesShrink DEF IInv, Runs
<1>6. Untrusted' = {}
  BY <1>1 DEF Untrusted
<1>7. QueuedAreRegistered' /\ LowTrustIsTransient'
  BY <1>1, <1>6 DEF QueuedAreRegistered, LowTrustIsTransient
<1> QED
  BY <1>3, <1>5, <1>7 DEF IInv

-----------------------------------------------------------------------------
(* The orchestrator: its theorems *)

\* At the start nothing is scheduled or registered.
LEMMA InitInv == Init => IInv
<1> SUFFICES ASSUME Init PROVE IInv
  OBVIOUS
<1>1. Idle \in Requests /\ Idle.pc = "idle" /\ Idle.results = {} /\ Idle.task = Nothing
  BY DEF Idle, Requests
<1>2. Agency
  BY <1>1, OrchestratorAssumption DEF Init, Agency, Made
<1>3. \A h \in Handlers : handler[h].results = {} /\ ~Running(h)
  BY <1>1 DEF Init, Running
<1>4. OnePlace
  BY <1>3 DEF Init, OnePlace, Runs
<1>5. QueuedAreRegistered /\ LowTrustIsTransient
  BY DEF Init, QueuedAreRegistered, LowTrustIsTransient, Untrusted
<1> QED
  BY <1>2, <1>4, <1>5 DEF IInv

\* Every step keeps the invariant.
LEMMA NextInv == IInv /\ [Next]_vars => IInv'
<1> SUFFICES ASSUME IInv, [Next]_vars PROVE IInv'
  OBVIOUS
<1>1. ASSUME NEW h \in Handlers, RunQueue(h) PROVE IInv'
  <2>1. /\ UNCHANGED <<registry, dna, task, queue, answered, budget>> /\ handler[h] = Idle
        /\ handler' = [handler EXCEPT ![h].pc = "draining"]
    BY <1>1 DEF RunQueue, Fresh, agents
  <2> QED
    BY <2>1, PcMovesKeep DEF IInv, Agency
<1>2. ASSUME NEW h \in Handlers, RunStep(h) PROVE IInv'
  BY <1>2, SkipsKeep, StartKeeps, FinishKeeps, ReviewFailsKeeps, ReviewPassesKeeps, Zenon
  DEF RunStep
<1>3. CASE UNCHANGED vars
  <2>1. UNCHANGED <<registry, dna, task, queue, answered, budget, handler>>
    BY <1>3 DEF vars
  <2>2. Agency' /\ OnePlace'
    BY <2>1 DEF IInv, Agency, Made, OnePlace, Runs, Running
  <2>3. QueuedAreRegistered' /\ LowTrustIsTransient'
    BY <2>1, AgentsStay DEF IInv, Running
  <2> QED
    BY <2>2, <2>3 DEF IInv
<1> QED
  BY <1>1, <1>2, <1>3, RegisterKeeps, ScheduleKeeps, OverrideKeeps, RestartKeeps, Zenon DEF Next

\* The invariant, for every orchestrator.
LEMMA Invariance == Spec => []IInv
  BY InitInv, NextInv, PTL DEF Spec

\* A set of which any two members are one has one member at most.
LEMMA AtMostOne ==
  ASSUME NEW S, \A x, y \in S : x = y
  PROVE  Cardinality(S) <= 1
<1>1. CASE S = {}
  BY <1>1, FS_EmptySet
<1>2. ASSUME NEW x \in S PROVE Cardinality(S) <= 1
  <2>1. S = {x}
    BY <1>2
  <2> QED
    BY <2>1, FS_Singleton
<1> QED
  BY <1>1, <1>2

\* Each task is in the heap, under way, reported or answered once, however many requests drain
\* the heap, whatever waits and whenever the server restarts.
THEOREM TasksAreRunOnce == Spec => []TasksRunOnce
<1>1. IInv => TasksRunOnce
  <2> SUFFICES ASSUME IInv, NEW k \in Tasks, NEW x \in Places(k), NEW y \in Places(k)
               PROVE  x = y
    BY AtMostOne DEF TasksRunOnce
  <2>1. ASSUME NEW p \in Places(k)
        PROVE  \/ p = <<"queue", k>> /\ k \in queue
               \/ p = <<"answered", k>> /\ k \in answered
               \/ \E h \in Handlers : p = <<"running", h>> /\ Runs(h, k)
               \/ \E h \in Handlers : p = <<"results", h>> /\ k \in handler[h].results
    BY <2>1 DEF Places, Runs
  <2>2. OnePlace
    BY DEF IInv
  <2> QED
    BY <2>1, <2>2 DEF OnePlace
<1> QED
  BY <1>1, Invariance, PTL

\* The agent a queued task waits for stays registered under its hash.
THEOREM QueuedStayRegistered == Spec => []QueuedAreRegistered
<1>1. IInv => QueuedAreRegistered
  BY DEF IInv
<1> QED
  BY <1>1, Invariance, PTL

\* An agent registered with enough trust is below the threshold only while a run is under
\* way, for every set of initial trusts.
THEOREM LowTrustEnds == Spec => []LowTrustIsTransient
<1>1. IInv => LowTrustIsTransient
  BY DEF IInv
<1> QED
  BY <1>1, Invariance, PTL

\* What the types add to the invariant.
Kept ==
  /\ registry \in [Hashes -> Made \cup {Nothing}]
  /\ archived \in [Hashes -> Made \cup {Nothing}]
  /\ locked \in [Objects -> Handlers \cup {Nobody}]
  /\ blocked \subseteq Hashes /\ restarts \in 0..RestartBound
  /\ loop \in Handlers \cup {Nobody}
  /\ stored \in [Hashes -> 0..100 \cup {Nothing}]

\* Every step keeps the types.
LEMMA KeptNext == IInv /\ Kept /\ [Next]_vars => Kept'
<1> SUFFICES ASSUME IInv, Kept, [Next]_vars PROVE Kept'
  OBVIOUS
<1> USE DEF Kept
<1>1. ASSUME NEW x \in Hashes, NEW t \in InitialTrusts, Register(x, t) PROVE Kept'
  <2>1. t \in 0..100 /\ UNCHANGED <<archived, locked, blocked, restarts, loop>>
        /\ stored' = [stored EXCEPT ![x] = t] /\ RegisterDna(x, t)
    BY <1>1, OrchestratorAssumption DEF Register, UpsertAgent
  <2>2. stored' \in [Hashes -> 0..100 \cup {Nothing}]
    BY <2>1
  <2>3. Made \subseteq Made' /\ registry' \in [Hashes -> Made' \cup {Nothing}]
    <3>1. CASE UNCHANGED <<registry, dna>>
      BY <3>1 DEF Made
    <3>2. ASSUME NEW o, registry' = [registry EXCEPT ![x] = o], Made' = Made \cup {o}
          PROVE  Made \subseteq Made' /\ registry' \in [Hashes -> Made' \cup {Nothing}]
      BY <3>2
    <3> QED
      BY <2>1, <3>1, <3>2 DEF RegisterDna, Made
  <2> QED
    BY <2>1, <2>2, <2>3
<1>2. ASSUME NEW x \in Hashes, NEW k \in Tasks, NEW p \in Priorities, Schedule(x, k, p)
      PROVE  Kept'
  BY <1>2 DEF Schedule, agents, Made
<1>3. ASSUME NEW x \in Hashes, NEW h \in Handlers, NEW o \in Made, NEW c \in {"allow", "block"},
             Override(h, x, o, c)
      PROVE  Kept'
  <2>1. UNCHANGED <<registry, archived, stored, locked, loop, restarts>> /\ SetHumanOverride(h, o, c)
    BY <1>3 DEF Override
  <2>2. dna[o].hash \in Hashes
    BY DEF IInv, Agency, DNA
  <2>3. Made' = Made /\ blocked' \subseteq Hashes
    BY <2>1, <2>2 DEF SetHumanOverride, Made
  <2> QED
    BY <2>1, <2>3
<1>4. ASSUME NEW h \in Handlers, RunQueue(h) \/ Start(h) \/ DropUntrusted(h) \/ ReportBlocked(h)
      PROVE  Kept'
  BY <1>4 DEF RunQueue, Start, DropUntrusted, ReportBlocked, agents, Made
<1>5. ASSUME NEW h \in Handlers, Finish(h) PROVE Kept'
  <2>1. /\ archived' = [x \in Hashes |-> IF x \in Untrusted THEN registry[x] ELSE archived[x]]
        /\ registry' = [x \in Hashes |-> IF x \in Untrusted THEN Nothing ELSE registry[x]]
        /\ loop' = Nobody /\ UNCHANGED <<dna, stored, blocked, locked, restarts>>
    BY <1>5 DEF Finish
  <2> QED
    BY <2>1 DEF Made
<1>6. ASSUME NEW h \in Handlers, ReviewFails(h) PROVE Kept'
  BY <1>6 DEF ReviewFails, Made
<1>7. ASSUME NEW h \in Handlers, ReviewPasses(h) PROVE Kept'
  BY <1>7 DEF ReviewPasses, RecordModalPerf, agents, Made
<1>8. CASE Restart
  BY <1>8, OrchestratorAssumption DEF Restart, Made
<1>9. CASE UNCHANGED vars
  BY <1>9 DEF vars, Made
<1> QED
  BY <1>1, <1>2, <1>3, <1>4, <1>5, <1>6, <1>7, <1>8, <1>9, Zenon DEF Next, RunStep

\* Registry, heap, handlers and rows keep their types, for any agents, tasks and handlers.
THEOREM OrchestratorTypeCorrect == Spec => []TypeOK
<1>1. Init => Kept
  BY OrchestratorAssumption DEF Init, Kept, Made
<1>2. IInv /\ Kept => TypeOK
  BY DEF IInv, Agency, Kept, TypeOK
<1> QED
  BY <1>1, <1>2, KeptNext, InitInv, NextInv, PTL DEF Spec

-----------------------------------------------------------------------------
(* The database: its invariant *)

Behind ==
  \A c \in Clients :
    client[c] # NoRow /\ client[c].since # "undone" =>
      LET r == live.row[client[c].agent]
      IN  /\ r # NoRow /\ client[c].version <= r.version
          /\ client[c].since = "overtaken" => client[c].version < r.version

\* The connection has every row the disk has, and the disk has one for every agent whose
\* registration has answered or is about to write its event.
OnDisk ==
  /\ \A h \in Agents : committed.row[h] # NoRow => live.row[h] # NoRow
  /\ \A h \in memory \ unstored : committed.row[h] # NoRow
  /\ pending # NoRow => committed.row[pending] # NoRow

DbInv == DbTypeOK /\ Behind /\ TrailNamesAgents /\ OnDisk

-----------------------------------------------------------------------------
(* Rows and tables *)

\* Writing one row makes tables again, and leaves other rows and the events alone.
LEMMA WithRowType ==
  ASSUME DbTypeOK, NEW h \in Agents, NEW r \in Row
  PROVE  /\ WithRow(h, r) \in Tables
         /\ WithRow(h, r).events = live.events
         /\ WithRow(h, r).row[h] = r
         /\ \A x \in Agents \ {h} : WithRow(h, r).row[x] = live.row[x]
  BY DEF DbTypeOK, Tables, WithRow

\* A write that keeps rows, and lowers no version: what every statement does.
Grows(t) ==
  /\ t \in Tables
  /\ \A h \in Agents : live.row[h] # NoRow =>
       t.row[h] # NoRow /\ live.row[h].version <= t.row[h].version

\* An upsert keeps the version, or makes the row.
LEMMA UpsertGrows ==
  ASSUME DbTypeOK, NEW h \in Agents, NEW trust \in Trusts
  PROVE  /\ Grows(Upserted(h, trust)) /\ Upserted(h, trust).row[h] # NoRow
         /\ Upserted(h, trust).events = live.events
<1> DEFINE r == IF Stored(h) THEN [live.row[h] EXCEPT !.trust = trust]
                             ELSE [trust |-> trust, version |-> 1, archived |-> FALSE]
<1>1. live.row[h] \in Row \cup {NoRow}
  BY DEF DbTypeOK, Tables
<1>2. r \in Row /\ (live.row[h] # NoRow => r.version = live.row[h].version)
  BY <1>1 DEF Stored, Row
<1>3. Upserted(h, trust) = WithRow(h, r)
  BY DEF Upserted
<1> HIDE DEF r
<1>4. \A x \in Agents : live.row[x] # NoRow => live.row[x] \in Row
  BY DEF DbTypeOK, Tables
<1> QED
  BY <1>2, <1>3, <1>4, WithRowType, DbAssumption DEF Grows, Row

\* Archiving keeps the version.
LEMMA ArchiveGrows ==
  ASSUME DbTypeOK, NEW h \in Agents, Stored(h)
  PROVE  LET t == WithRow(h, [live.row[h] EXCEPT !.archived = TRUE])
         IN  Grows(t) /\ t.events = live.events
<1> DEFINE r == [live.row[h] EXCEPT !.archived = TRUE]
<1>1. live.row[h] \in Row
  BY DEF DbTypeOK, Tables, Stored
<1>2. r \in Row /\ r.version = live.row[h].version
  BY <1>1 DEF Row
<1> HIDE DEF r
<1>3. \A x \in Agents : live.row[x] # NoRow => live.row[x] \in Row
  BY DEF DbTypeOK, Tables
<1>4. Grows(WithRow(h, r)) /\ WithRow(h, r).events = live.events
  BY <1>2, <1>3, WithRowType, DbAssumption DEF Grows, Row
<1> QED
  BY <1>4 DEF r

\* An update adds one to the version.
LEMMA UpdateGrows ==
  ASSUME DbTypeOK, NEW h \in Agents, Stored(h), NEW trust \in Trusts
  PROVE  LET t == WithRow(h, Updated(live.row[h], trust))
         IN  /\ Grows(t) /\ t.events = live.events
             /\ t.row[h].version = live.row[h].version + 1
<1> DEFINE r == Updated(live.row[h], trust)
<1>1. live.row[h] \in Row
  BY DEF DbTypeOK, Tables, Stored
<1>2. r \in Row /\ r.version = live.row[h].version + 1
  BY <1>1 DEF Row, Updated
<1> HIDE DEF r
<1>3. \A x \in Agents : live.row[x] # NoRow => live.row[x] \in Row
  BY DEF DbTypeOK, Tables
<1>4. /\ Grows(WithRow(h, r)) /\ WithRow(h, r).events = live.events
      /\ WithRow(h, r).row[h].version = live.row[h].version + 1
  BY <1>1, <1>2, <1>3, WithRowType, DbAssumption DEF Grows, Row
<1> QED
  BY <1>4 DEF r

\* The tables as they are, with or without one more event.
LEMMA EventGrows ==
  ASSUME DbTypeOK, NEW e \in Events
  PROVE  /\ Grows(live) /\ Grows(Audited(e))
         /\ Audited(e).row = live.row /\ Audited(e).events = live.events \cup {e}
<1>1. \A x \in Agents : live.row[x] # NoRow => live.row[x].version \in Nat
  BY DEF DbTypeOK, Tables, Row
<1> QED
  BY <1>1 DEF DbTypeOK, Tables, Grows, Audited

-----------------------------------------------------------------------------
(* Statements and clients *)

RollsBack == live' = committed /\ committed' = committed

\* Committed, left open or rolled back, a statement on sound tables leaves sound tables.
LEMMA StatementInv ==
  ASSUME DbInv, NEW t, Grows(t), Commit(t) \/ Raise(t), unstored \subseteq unstored',
         \A e \in Events :
           e \in t.events => \/ e \in live.events \/ t.row[e[2]] # NoRow
                             \/ (e[1] = "human_override" /\ e[2] \in unstored')
  PROVE  /\ live' \in Tables /\ committed' \in Tables
         /\ Grows(live') \/ RollsBack
         /\ TrailNamesAgents'
         /\ \A h \in Agents : committed.row[h] # NoRow => committed'.row[h] # NoRow
         /\ \A h \in Agents : committed'.row[h] # NoRow => live'.row[h] # NoRow
<1>1. Grows(live)
  <2>1. \A x \in Agents : live.row[x] # NoRow => live.row[x].version \in Nat
    BY DEF DbInv, DbTypeOK, Tables, Row
  <2> QED
    BY <2>1 DEF Grows, DbInv, DbTypeOK
<1>2. \/ live' = t /\ committed' = t
      \/ live' \in {live, t, committed} /\ committed' = committed
  BY DEF Commit, Raise
<1>3. /\ live' \in Tables /\ committed' \in Tables
      /\ Grows(live') \/ RollsBack
  BY <1>1, <1>2 DEF Grows, DbInv, DbTypeOK, RollsBack
<1>4. ASSUME NEW e \in Events, NEW s \in {live, committed, t}, e \in s.events
      PROVE  \/ s.row[e[2]] # NoRow
             \/ (e[1] = "human_override" /\ e[2] \in unstored')
  <2>1. e[2] \in Agents
    BY DEF Events
  <2>2. CASE s \in {live, committed}
    BY <1>4, <2>2 DEF DbInv, TrailNamesAgents
  <2>3. CASE s = t
    BY <1>4, <2>1, <2>3 DEF DbInv, TrailNamesAgents, Grows
  <2> QED
    BY <2>2, <2>3
<1>5. TrailNamesAgents'
  BY <1>2, <1>4 DEF TrailNamesAgents
<1>6. /\ \A h \in Agents : committed.row[h] # NoRow => committed'.row[h] # NoRow
      /\ \A h \in Agents : committed'.row[h] # NoRow => live'.row[h] # NoRow
  BY <1>2 DEF DbInv, OnDisk, Grows
<1> QED
  BY <1>3, <1>5, <1>6

\* What becomes of the clients when a row is written or rolled back.
LEMMA SeenInv ==
  ASSUME DbInv, live' \in Tables, Grows(live') \/ RollsBack, NEW who, client' = Seen(who),
         \A c \in Clients :
           (/\ who # NoRow /\ ~RollsBack /\ client[c] # NoRow /\ client[c].since # "undone"
            /\ live'.row[client[c].agent] # live.row[client[c].agent])
             => client[c].version < live'.row[client[c].agent].version
  PROVE  client' \in [Clients -> Reads \cup {NoRow}] /\ Behind'
<1>1. ASSUME NEW c \in Clients, client'[c] # NoRow
      PROVE  /\ client'[c] \in Reads
             /\ client'[c].since # "undone" =>
                  LET r == live'.row[client'[c].agent]
                  IN  /\ r # NoRow /\ client'[c].version <= r.version
                      /\ client'[c].since = "overtaken" => client'[c].version < r.version
  <2> DEFINE r == client[c]
             h == client[c].agent
             row == live'.row[h]
  <2>1. /\ r # NoRow
        /\ client'[c] = IF row = live.row[h] THEN r
                        ELSE IF RollsBack THEN RolledBack(r)
                        ELSE IF who # NoRow THEN Overtaken(r) ELSE r
    BY <1>1 DEF Seen, RollsBack
  <2>2. r \in Reads /\ h \in Agents /\ r.version \in Nat
    BY <2>1 DEF DbInv, DbTypeOK, Reads
  <2>3. /\ r.since # "undone" =>
             /\ live.row[h] # NoRow /\ r.version <= live.row[h].version
             /\ r.since = "overtaken" => r.version < live.row[h].version
    BY <2>1 DEF DbInv, Behind
  <2>4. row # NoRow => row.version \in Nat
    BY <2>2 DEF Tables, Row
  <2>5. live.row[h] # NoRow => live.row[h].version \in Nat
    BY <2>2 DEF DbInv, DbTypeOK, Tables, Row
  <2>6. CASE row = live.row[h]
    BY <2>1, <2>2, <2>3, <2>6
  <2>7. CASE row # live.row[h] /\ RollsBack
    <3>1. client'[c] = RolledBack(r)
      BY <2>1, <2>7
    <3> DEFINE s == IF r.since = "undone" \/ row = NoRow \/ row.version < r.version THEN "undone"
                    ELSE IF row.version = r.version THEN "current" ELSE r.since
    <3>2. client'[c] = [r EXCEPT !.since = s]
      BY <3>1 DEF RolledBack
    <3>3. s \in {"current", "overtaken", "undone"}
      BY <2>2 DEF Reads
    <3>4. s # "undone" => /\ row # NoRow /\ r.version <= row.version
                          /\ s = "overtaken" => r.version < row.version
      BY <2>2, <2>4
    <3> HIDE DEF s, row
    <3>5. /\ client'[c] \in Reads /\ client'[c].since = s
          /\ client'[c].agent = h /\ client'[c].version = r.version
      BY <2>2, <3>2, <3>3 DEF Reads
    <3> QED
      BY <3>4, <3>5 DEF row
  <2>8. CASE row # live.row[h] /\ ~RollsBack
    <3>1. Grows(live')
      BY <2>8
    <3>2. live.row[h] # NoRow => row # NoRow /\ live.row[h].version <= row.version
      BY <2>2, <3>1 DEF Grows
    <3>3. CASE who = NoRow
      BY <2>1, <2>2, <2>3, <2>4, <2>5, <2>8, <3>2, <3>3
    <3>4. CASE who # NoRow
      <4> DEFINE s == IF r.since = "undone" THEN r.since ELSE "overtaken"
      <4>1. client'[c] = [r EXCEPT !.since = s]
        BY <2>1, <2>8, <3>4 DEF Overtaken
      <4>2. s \in {"overtaken", "undone"} /\ (s # "undone" => r.since # "undone")
        OBVIOUS
      <4> HIDE DEF s
      <4>3. /\ client'[c] \in Reads /\ client'[c].since = s
            /\ client'[c].agent = h /\ client'[c].version = r.version
        BY <2>2, <4>1, <4>2 DEF Reads
      <4>4. r.since # "undone" => row # NoRow /\ r.version < row.version
        BY <2>1, <2>3, <2>8, <3>2, <3>4
      <4>5. r.since # "undone" => r.version <= row.version
        BY <2>2, <2>4, <4>4
      <4> QED
        BY <4>2, <4>3, <4>4, <4>5
    <3> QED
      BY <3>3, <3>4
  <2> QED
    BY <2>6, <2>7, <2>8
<1>2. DOMAIN client' = Clients /\ client' = [c \in Clients |-> client'[c]]
  BY DEF Seen
<1>3. \A c \in Clients : client'[c] \in Reads \cup {NoRow}
  BY <1>1
<1>4. client' \in [Clients -> Reads \cup {NoRow}]
  BY <1>2, <1>3
<1> QED
  BY <1>1, <1>4 DEF Behind

\* A statement of nobody's client that keeps to what StatementInv asks of it.
LEMMA PlainInv ==
  ASSUME DbInv, NEW t, Grows(t), t.events = live.events, Commit(t) \/ Raise(t),
         client' = Seen(NoRow), UNCHANGED <<memory, pending, unstored>>
  PROVE  DbInv'
<1>1. /\ live' \in Tables /\ committed' \in Tables
      /\ Grows(live') \/ RollsBack
      /\ TrailNamesAgents'
      /\ \A h \in Agents : committed.row[h] # NoRow => committed'.row[h] # NoRow
      /\ \A h \in Agents : committed'.row[h] # NoRow => live'.row[h] # NoRow
  BY StatementInv
<1>2. client' \in [Clients -> Reads \cup {NoRow}] /\ Behind'
  BY <1>1, SeenInv
<1>3. OnDisk'
  BY <1>1 DEF OnDisk, DbInv, DbTypeOK
<1> QED
  BY <1>1, <1>2, <1>3 DEF DbInv, DbTypeOK

-----------------------------------------------------------------------------
(* The invariant *)

\* There are no rows, events or clients at the start.
LEMMA DbInitInv == DbInit => DbInv
  BY DEF DbInit, DbInv, DbTypeOK, Tables, Behind, TrailNamesAgents, OnDisk

\* Every statement, crash and read keeps the invariant.
LEMMA DbNextInv == DbInv /\ [DbNext]_dbVars => DbInv'
<1> SUFFICES ASSUME DbInv, [DbNext]_dbVars
             PROVE  DbInv'
  OBVIOUS
<1> USE DEF DbTypeOK
<1>1. ASSUME NEW h \in Agents, RegisterAgent(h)
      PROVE  DbInv'
  <2>1. PICK trust \in Trusts :
          /\ memory' = memory \cup {h}
          /\ \/ Commit(Upserted(h, trust)) /\ pending' = h /\ unstored' = unstored \ {h}
             \/ Raise(Upserted(h, trust)) /\ UNCHANGED pending /\ unstored' = unstored \cup {h}
          /\ pending = NoRow
          /\ client' = Seen(NoRow)
    BY <1>1 DEF RegisterAgent
  <2> DEFINE t == Upserted(h, trust)
  <2>2. Grows(t) /\ t.row[h] # NoRow /\ t.events = live.events
    BY UpsertGrows DEF DbInv
  <2> HIDE DEF t
  <2>3. CASE Raise(t) /\ UNCHANGED pending /\ unstored' = unstored \cup {h}
    <3>1. /\ live' \in Tables /\ committed' \in Tables
          /\ Grows(live') \/ RollsBack
          /\ TrailNamesAgents'
          /\ \A x \in Agents : committed'.row[x] # NoRow => live'.row[x] # NoRow
      BY <2>2, <2>3, StatementInv
    <3>2. client' \in [Clients -> Reads \cup {NoRow}] /\ Behind'
      BY <2>1, <3>1, SeenInv
    <3>3. OnDisk' /\ pending' \in Agents \cup {NoRow} /\ memory' \subseteq Agents /\ unstored' \subseteq Agents
      BY <2>1, <2>3, <3>1 DEF OnDisk, Raise, DbInv
    <3> QED
      BY <3>1, <3>2, <3>3 DEF DbInv
  <2>4. CASE Commit(t) /\ pending' = h /\ unstored' = unstored \ {h}
    <3>1. live' = t /\ committed' = t /\ t \in Tables /\ Grows(live')
      BY <2>2, <2>4 DEF Commit, Grows
    <3>2. ASSUME NEW e \in Events, e \in t.events
          PROVE  \/ t.row[e[2]] # NoRow
                 \/ (e[1] = "human_override" /\ e[2] \in unstored')
      <4>1. e[2] \in Agents
        BY DEF Events
      <4>2. \/ live.row[e[2]] # NoRow
            \/ (e[1] = "human_override" /\ e[2] \in unstored)
        BY <2>2, <3>2 DEF DbInv, TrailNamesAgents
      <4> QED
        BY <2>2, <2>4, <4>1, <4>2 DEF Grows
    <3>3. TrailNamesAgents'
      BY <3>1, <3>2 DEF TrailNamesAgents
    <3>4. client' \in [Clients -> Reads \cup {NoRow}] /\ Behind'
      BY <2>1, <3>1, SeenInv
    <3>5. OnDisk' /\ pending' \in Agents \cup {NoRow} /\ memory' \subseteq Agents /\ unstored' \subseteq Agents
      <4>1. \A x \in Agents : committed.row[x] # NoRow => t.row[x] # NoRow
        BY <2>2 DEF OnDisk, DbInv, Grows
      <4> QED
        BY <2>1, <2>2, <2>4, <3>1, <4>1 DEF OnDisk, DbInv
    <3> QED
      BY <3>1, <3>3, <3>4, <3>5 DEF DbInv
  <2> QED
    BY <2>1, <2>3, <2>4 DEF t
<1>2. ASSUME NEW e \in Events, Commit(Audited(e)) \/ Raise(Audited(e)),
             live.row[e[2]] # NoRow \/ (e[1] = "human_override" /\ e[2] \in unstored),
             UNCHANGED <<memory, unstored>>, pending' \in {pending, NoRow},
             client' = Seen(NoRow)
      PROVE  DbInv'
  <2>1. /\ Grows(Audited(e))
        /\ Audited(e).row = live.row /\ Audited(e).events = live.events \cup {e}
    BY EventGrows DEF DbInv
  <2> DEFINE t == Audited(e)
  <2>2. \A x \in Events : x \in t.events =>
          \/ x \in live.events \/ t.row[x[2]] # NoRow
          \/ (x[1] = "human_override" /\ x[2] \in unstored')
    BY <1>2, <2>1
  <2>3. Grows(t) /\ (Commit(t) \/ Raise(t)) /\ unstored \subseteq unstored'
    BY <1>2, <2>1
  <2> HIDE DEF t
  <2>4. /\ live' \in Tables /\ committed' \in Tables
        /\ Grows(live') \/ RollsBack
        /\ TrailNamesAgents'
        /\ \A h \in Agents : committed.row[h] # NoRow => committed'.row[h] # NoRow
        /\ \A h \in Agents : committed'.row[h] # NoRow => live'.row[h] # NoRow
    BY <2>2, <2>3, StatementInv
  <2>5. client' \in [Clients -> Reads \cup {NoRow}] /\ Behind'
    BY <1>2, <2>4, SeenInv
  <2>6. OnDisk'
    BY <1>2, <2>4 DEF OnDisk, DbInv
  <2> QED
    BY <1>2, <2>4, <2>5, <2>6 DEF DbInv
<1>3. ASSUME AuditRegistered
      PROVE  DbInv'
  <2> DEFINE e == <<"agent_registered", pending>>
  <2>1. pending \in Agents /\ live.row[pending] # NoRow
    BY <1>3 DEF AuditRegistered, DbInv, OnDisk
  <2>2. e \in Events /\ e[2] = pending
    BY <2>1 DEF Events
  <2>3. /\ Commit(Audited(e)) \/ Raise(Audited(e))
        /\ UNCHANGED <<memory, unstored>> /\ pending' = NoRow /\ client' = Seen(NoRow)
    BY <1>3 DEF AuditRegistered
  <2> HIDE DEF e
  <2> QED
    BY <1>2, <2>1, <2>2, <2>3
<1>4. ASSUME NEW h \in Agents, SetOverride(h)
      PROVE  DbInv'
  <2> DEFINE e == <<"human_override", h>>
  <2>1. e \in Events /\ e[1] = "human_override" /\ e[2] = h
    BY DEF Events
  <2>2. live.row[h] # NoRow \/ h \in unstored
    BY <1>4 DEF SetOverride, DbInv, OnDisk
  <2>3. /\ Commit(Audited(e)) \/ Raise(Audited(e))
        /\ UNCHANGED <<memory, unstored>> /\ pending' = pending /\ client' = Seen(NoRow)
    BY <1>4 DEF SetOverride
  <2> HIDE DEF e
  <2> QED
    BY <1>2, <2>1, <2>2, <2>3
<1>5. Grows(live)
  <2>1. \A x \in Agents : live.row[x] # NoRow => live.row[x].version \in Nat
    BY DEF DbInv, Tables, Row
  <2> QED
    BY <2>1 DEF Grows, DbInv
<1>6. ASSUME NEW h \in Agents, ArchiveAgent(h)
      PROVE  DbInv'
  <2> DEFINE t == IF Stored(h) THEN WithRow(h, [live.row[h] EXCEPT !.archived = TRUE]) ELSE live
  <2>1. Grows(t) /\ t.events = live.events
    <3>1. CASE Stored(h)
      BY <3>1, ArchiveGrows DEF DbInv
    <3>2. CASE ~Stored(h)
      BY <1>5, <3>2
    <3> QED
      BY <3>1, <3>2
  <2>2. Commit(t) \/ Raise(t)
    BY <1>6 DEF ArchiveAgent
  <2>3. client' = Seen(NoRow) /\ UNCHANGED <<memory, pending, unstored>>
    BY <1>6 DEF ArchiveAgent
  <2> HIDE DEF t
  <2> QED
    BY <2>1, <2>2, <2>3, PlainInv
<1>7. ASSUME NEW c \in Clients, NEW h \in Agents, Read(c, h)
      PROVE  DbInv'
  <2> DEFINE r == [agent |-> h, version |-> live.row[h].version, since |-> "current"]
  <2>1. /\ UNCHANGED <<live, committed, memory, pending, unstored>>
        /\ client' = [client EXCEPT ![c] = r] /\ live.row[h] # NoRow
    BY <1>7 DEF Read, Stored
  <2>2. live.row[h] \in Row /\ live.row[h].version \in Nat
    BY <2>1 DEF DbInv, Tables, Row
  <2>3. r \in Reads /\ client' \in [Clients -> Reads \cup {NoRow}]
    BY <2>1, <2>2 DEF Reads, DbInv
  <2>4. Behind'
    BY <2>1, <2>2 DEF Behind, DbInv
  <2> QED
    BY <2>1, <2>3, <2>4 DEF DbInv, TrailNamesAgents, OnDisk
<1>8. ASSUME NEW c \in Clients, Update(c)
      PROVE  DbInv'
  <2> DEFINE h == client[c].agent
  <2>1. PICK trust \in Trusts :
          LET t == WithRow(h, Updated(live.row[h], trust)) IN Commit(t) \/ Raise(t)
    BY <1>8 DEF Update
  <2>2. /\ client[c] # NoRow /\ client' = Seen(c) /\ Stored(h)
        /\ UNCHANGED <<memory, pending, unstored>>
    BY <1>8 DEF Update
  <2>3. h \in Agents
    BY <2>2 DEF DbInv, Reads
  <2> DEFINE t == WithRow(h, Updated(live.row[h], trust))
  <2>4. /\ Grows(t) /\ t.events = live.events
        /\ t.row[h].version = live.row[h].version + 1
    BY <2>2, <2>3, UpdateGrows DEF DbInv
  <2>5. \A x \in Agents \ {h} : t.row[x] = live.row[x]
    BY <2>3 DEF WithRow, DbInv, Tables
  <2>6. Commit(t) \/ Raise(t)
    BY <2>1
  <2> HIDE DEF t
  <2>7. /\ live' \in Tables /\ committed' \in Tables
        /\ Grows(live') \/ RollsBack
        /\ TrailNamesAgents'
        /\ \A x \in Agents : committed.row[x] # NoRow => committed'.row[x] # NoRow
        /\ \A x \in Agents : committed'.row[x] # NoRow => live'.row[x] # NoRow
    BY <2>2, <2>4, <2>6, StatementInv
  <2>8. ASSUME NEW d \in Clients, ~RollsBack, client[d] # NoRow, client[d].since # "undone",
               live'.row[client[d].agent] # live.row[client[d].agent]
        PROVE  client[d].version < live'.row[client[d].agent].version
    <3>1. live' = t
      BY <2>6, <2>8 DEF Commit, Raise, RollsBack
    <3>2. client[d] \in Reads /\ client[d].agent \in Agents /\ client[d].version \in Nat
      BY <2>8 DEF DbInv, Reads
    <3>3. client[d].agent = h
      BY <2>5, <2>8, <3>1, <3>2
    <3>4. client[d].version <= live.row[h].version
      BY <2>8, <3>3 DEF DbInv, Behind
    <3>5. live.row[h].version \in Nat
      BY <2>2, <2>3 DEF DbInv, Tables, Row, Stored
    <3> QED
      BY <2>4, <3>1, <3>2, <3>3, <3>4, <3>5
  <2> HIDE DEF h
  <2>9. client' \in [Clients -> Reads \cup {NoRow}] /\ Behind'
    BY <2>2, <2>7, <2>8, SeenInv
  <2>10. OnDisk'
    BY <2>2, <2>7 DEF OnDisk, DbInv
  <2> QED
    BY <2>2, <2>7, <2>9, <2>10 DEF DbInv
<1>9. ASSUME NEW c \in Clients, UpdateFails(c)
      PROVE  DbInv'
  <2>1. /\ Commit(live) \/ Raise(live)
        /\ client' = Seen(c) /\ UNCHANGED <<memory, pending, unstored>>
    BY <1>9 DEF UpdateFails
  <2>2. /\ live' \in Tables /\ committed' \in Tables
        /\ Grows(live') \/ RollsBack
        /\ TrailNamesAgents'
        /\ \A x \in Agents : committed.row[x] # NoRow => committed'.row[x] # NoRow
        /\ \A x \in Agents : committed'.row[x] # NoRow => live'.row[x] # NoRow
    BY <1>5, <2>1, StatementInv
  <2>3. RollsBack \/ live' = live
    BY <2>1 DEF Commit, Raise, RollsBack
  <2>4. client' \in [Clients -> Reads \cup {NoRow}] /\ Behind'
    BY <2>1, <2>2, <2>3, SeenInv
  <2>5. OnDisk'
    BY <2>1, <2>2 DEF OnDisk, DbInv
  <2> QED
    BY <2>1, <2>2, <2>4, <2>5 DEF DbInv
<1>10. CASE RecordTelemetry
  BY <1>5, <1>10, PlainInv DEF RecordTelemetry
<1>11. CASE DbRestart
  BY <1>11 DEF DbRestart, DbInv, Behind, TrailNamesAgents, OnDisk
<1>12. CASE UNCHANGED dbVars
  BY <1>12 DEF dbVars, DbInv, Behind, TrailNamesAgents, OnDisk
<1> QED
  BY <1>1, <1>3, <1>4, <1>6, <1>7, <1>8, <1>9, <1>10, <1>11, <1>12 DEF DbNext

\* The invariant holds throughout, whatever fails and whenever the process restarts.
LEMMA DbInvariance == DbSpec => []DbInv
  BY DbInitInv, DbNextInv, PTL DEF DbSpec

-----------------------------------------------------------------------------
(* Theorems *)

\* Rows, events and clients keep their types.
THEOREM DbTypeCorrect == DbSpec => []DbTypeOK
<1>1. DbInv => DbTypeOK
  BY DEF DbInv
<1> QED
  BY <1>1, DbInvariance, PTL

\* update_with_version: an update of an overtaken client changes nothing, because the row
\* is past the version it expects.
THEOREM UpdatesAreNeverLost == DbSpec => NoLostUpdate
<1>1. DbInv => \A c \in Clients :
                 client[c] # NoRow /\ client[c].since = "overtaken" => ~Update(c)
  <2> SUFFICES ASSUME DbInv, NEW c \in Clients, client[c] # NoRow,
                      client[c].since = "overtaken", Update(c)
               PROVE  FALSE
    OBVIOUS
  <2> DEFINE h == client[c].agent
  <2>1. h \in Agents /\ client[c].version \in Nat
    BY DEF DbInv, DbTypeOK, Reads
  <2>2. live.row[h] # NoRow /\ client[c].version < live.row[h].version
    BY DEF DbInv, Behind
  <2>3. live.row[h].version = client[c].version
    BY DEF Update
  <2> QED
    BY <2>1, <2>2, <2>3
<1>2. DbInv => [\A c \in Clients :
                 client[c] # NoRow /\ client[c].since = "overtaken" /\ Update(c)
                   => live' = live]_dbVars
  BY <1>1
<1> QED
  BY <1>2, DbInvariance, PTL DEF NoLostUpdate

\* register_dna and set_override of main.py: an event without a row is an override of an
\* agent whose registration did not write one, because the row is committed before the
\* event of a registration is written, and nothing takes it away again.
THEOREM TrailAlwaysNamesAgents == DbSpec => []TrailNamesAgents
<1>1. DbInv => TrailNamesAgents
  BY DEF DbInv
<1> QED
  BY <1>1, DbInvariance, PTL

\* Under the rate limiter's steps and the telemetry endpoint the database does what it
\* does on its own.
THEOREM StoreKeepsDb == StoreSpec => DbSpec
<1>1. StoreInit => DbInit
  BY DEF StoreInit
<1>2. [StoreNext]_storeVars => [DbNext]_dbVars
  <2> SUFFICES ASSUME [StoreNext]_storeVars
               PROVE  [DbNext]_dbVars
    OBVIOUS
  <2>1. CASE UNCHANGED storeVars
    BY <2>1 DEF storeVars, dbVars
  <2>2. ASSUME NEW c \in Ips, Telemetry(c)
        PROVE  [DbNext]_dbVars
    BY <2>2 DEF Telemetry, DbNext
  <2>3. CASE Tick /\ UNCHANGED dbVars
    BY <2>3
  <2>4. CASE StoreRestart
    BY <2>4 DEF StoreRestart, DbNext
  <2> QED
    BY <2>1, <2>2, <2>3, <2>4 DEF StoreNext, DbNext
<1> QED
  BY <1>1, <1>2, PTL DEF StoreSpec, DbSpec

-----------------------------------------------------------------------------
(* The telemetry window *)

USE DEF Ages

\* The deque has the requests let through in order of arrival: those of the last a ticks
\* are its last ones, and recent counts them.
Counted(c, a) ==
  /\ recent[c][a] <= Len(window[c])
  /\ \A i \in 1..Len(window[c]) : window[c][i] <= a <=> i > Len(window[c]) - recent[c][a]

RateInv ==
  /\ window \in [Ips -> Seq(Nat)] /\ recent \in [Ips -> [Ages -> Nat]]
  /\ refused \in Ips \cup {NoClient}
  /\ \A c \in Ips, a \in Ages : Counted(c, a)
  /\ \A c \in Ips : Through(c) <= RateLimit
  /\ RefusalsAreEarned

\* Popping takes everything but the last m requests, if those are the young ones.
LEMMA PoppedKeepsLast ==
  ASSUME NEW w \in Seq(Nat), NEW old \in Nat, NEW m \in 0..Len(w),
         \A i \in 1..Len(w) : w[i] < old <=> i > Len(w) - m
  PROVE  Popped(w, old) = SubSeq(w, Len(w) - m + 1, Len(w))
<1> DEFINE P(n) == /\ \A i \in 1..n : w[i] >= old
                   /\ n < Len(w) => w[n + 1] < old
<1>1. Len(w) - m \in 0..Len(w) /\ P(Len(w) - m)
  OBVIOUS
<1>2. ASSUME NEW n \in 0..Len(w), P(n) PROVE n = Len(w) - m
  <2>1. ~(n < Len(w) - m)
    <3> SUFFICES ASSUME n < Len(w) - m PROVE FALSE
      OBVIOUS
    <3>1. w[n + 1] < old /\ n + 1 \in 1..Len(w)
      BY <1>2
    <3> QED
      BY <3>1
  <2>2. ~(n > Len(w) - m)
    <3> SUFFICES ASSUME n > Len(w) - m PROVE FALSE
      OBVIOUS
    <3>1. w[n] >= old /\ n \in 1..Len(w) /\ w[n] \in Nat
      BY <1>2
    <3> QED
      BY <3>1
  <2> QED
    BY <2>1, <2>2
<1>3. (CHOOSE n \in 0..Len(w) : P(n)) = Len(w) - m
  <2> HIDE DEF P
  <2> QED
    BY <1>1, <1>2
<1> QED
  BY <1>3 DEF Popped

\* What the check keeps of the deque: the requests counted within the window.
LEMMA EvictedCounted ==
  ASSUME RateInv, NEW c \in Ips
  PROVE  /\ Evicted(window[c]) \in Seq(Nat)
         /\ Len(Evicted(window[c])) = Through(c)
         /\ \A i \in 1..Through(c) :
              Evicted(window[c])[i] = window[c][Len(window[c]) - Through(c) + i]
<1> DEFINE w == window[c]
           m == Through(c)
<1>1. w \in Seq(Nat) /\ m \in 0..Len(w) /\ \A i \in 1..Len(w) : w[i] <= Window <=> i > Len(w) - m
  BY RateAssumption DEF RateInv, Counted, Through
<1>2. \A i \in 1..Len(w) : w[i] < Window + 1 <=> i > Len(w) - m
  <2> TAKE i \in 1..Len(w)
  <2>1. w[i] \in Nat
    BY <1>1
  <2> QED
    BY <1>1, <2>1, RateAssumption
<1> HIDE DEF w, m
<1>3. Evicted(w) = SubSeq(w, Len(w) - m + 1, Len(w))
  <2>1. Window + 1 \in Nat
    BY RateAssumption
  <2>2. Popped(w, Window + 1) = SubSeq(w, Len(w) - m + 1, Len(w))
    BY ONLY <1>1, <1>2, <2>1, PoppedKeepsLast
  <2> QED
    BY <2>2 DEF Evicted
<1> QED
  <2>1. /\ SubSeq(w, Len(w) - m + 1, Len(w)) \in Seq(Nat)
        /\ Len(SubSeq(w, Len(w) - m + 1, Len(w))) = m
        /\ \A i \in 1..m : SubSeq(w, Len(w) - m + 1, Len(w))[i] = w[Len(w) - m + i]
    BY <1>1
  <2> QED
    BY <1>3, <2>1 DEF w, m

\* More requests have got through in a longer time.
LEMMA Cumulative ==
  ASSUME RateInv, NEW c \in Ips, NEW a \in Ages, NEW b \in Ages, a <= b
  PROVE  recent[c][a] <= recent[c][b]
<1> DEFINE w == window[c]
           p == recent[c][a]
           q == recent[c][b]
           i == Len(w) - p + 1
<1>1. w \in Seq(Nat) /\ p \in Nat /\ q \in Nat
  BY DEF RateInv
<1>2. /\ p <= Len(w) /\ Len(w) \in Nat
      /\ \A j \in 1..Len(w) : w[j] <= a <=> j > Len(w) - p
      /\ \A j \in 1..Len(w) : w[j] <= b <=> j > Len(w) - q
  BY <1>1 DEF RateInv, Counted
<1> HIDE DEF w, p, q
<1>3. ASSUME p > q PROVE FALSE
  <2>1. i \in 1..Len(w) /\ i > Len(w) - p /\ ~(i > Len(w) - q)
    BY <1>1, <1>2, <1>3
  <2>2. w[i] <= a /\ ~(w[i] <= b) /\ w[i] \in Nat
    BY <1>1, <1>2, <2>1
  <2> QED
    BY <2>2
<1>4. p <= q
  BY <1>1, <1>3
<1> QED
  BY <1>4 DEF p, q

LEMMA RateInitInv == RateInit => RateInv
  BY RateAssumption DEF RateInit, RateInv, Counted, RefusalsAreEarned, Through, None

LEMMA ForgetInv == Forget => RateInv'
  BY RateAssumption DEF Forget, RateInv, Counted, RefusalsAreEarned, Through, None

LEMMA LetThroughInv ==
  ASSUME RateInv, NEW d \in Ips, LetThrough(d)
  PROVE  RateInv'
<1> DEFINE e == Evicted(window[d])
           w == window[d]
<1>1. e \in Seq(Nat) /\ Len(e) = Through(d)
      /\ \A i \in 1..Through(d) : e[i] = w[Len(w) - Through(d) + i]
  BY EvictedCounted
<1>2. /\ window' = [window EXCEPT ![d] = Append(e, 0)]
      /\ recent' = [recent EXCEPT ![d] = [a \in Ages |-> @[a] + 1]]
      /\ refused' = NoClient /\ Through(d) < RateLimit
  BY <1>1, RateAssumption DEF LetThrough, Full, Through, RateInv
<1>3. /\ window \in [Ips -> Seq(Nat)] /\ recent \in [Ips -> [Ages -> Nat]]
      /\ \A c \in Ips, a \in Ages : Counted(c, a)
      /\ \A c \in Ips : Through(c) <= RateLimit
  BY DEF RateInv
<1>4. window' \in [Ips -> Seq(Nat)] /\ recent' \in [Ips -> [Ages -> Nat]]
  <2>1. Append(e, 0) \in Seq(Nat)
    BY <1>1
  <2>2. [a \in Ages |-> recent[d][a] + 1] \in [Ages -> Nat]
    <3>1. \A a \in Ages : recent[d][a] \in Nat
      BY <1>3
    <3>2. \A a \in Ages : recent[d][a] + 1 \in Nat
      BY <3>1
    <3> QED
      BY <3>2
  <2> HIDE DEF e
  <2>3. window' \in [Ips -> Seq(Nat)]
    BY <1>2, <1>3, <2>1
  <2>4. recent' = [recent EXCEPT ![d] = [a \in Ages |-> recent[d][a] + 1]]
    BY <1>2, <1>3
  <2> QED
    BY <1>3, <2>2, <2>3, <2>4
<1>5. \A c \in Ips, a \in Ages : Counted(c, a)'
  <2> SUFFICES ASSUME NEW c \in Ips, NEW a \in Ages PROVE Counted(c, a)'
    OBVIOUS
  <2>1. CASE c # d
    BY <1>2, <1>3, <2>1 DEF Counted
  <2>2. CASE c = d
    <3> DEFINE n == Append(e, 0)
    <3>1. window'[d] = n /\ recent'[d][a] = recent[d][a] + 1
      BY <1>2, <1>3
    <3>2. /\ Len(n) = Through(d) + 1 /\ n[Through(d) + 1] = 0
          /\ \A i \in 1..Through(d) : n[i] = w[Len(w) - Through(d) + i]
      BY <1>1
    <3>3. /\ recent[d][a] \in Nat /\ Through(d) \in Nat /\ w \in Seq(Nat) /\ Len(w) \in Nat
          /\ Through(d) <= Len(w) /\ recent[d][a] <= Len(w)
          /\ \A i \in 1..Len(w) : w[i] <= a <=> i > Len(w) - recent[d][a]
          /\ \A i \in 1..Len(w) : w[i] <= Window <=> i > Len(w) - Through(d)
      BY <1>3, RateAssumption DEF Counted, Through
    <3> HIDE DEF n, w, e
    <3>4. recent[d][a] <= Through(d)
      BY Cumulative, RateAssumption DEF Through
    <3>5. \A i \in 1..Len(n) : n[i] <= a <=> i > Len(n) - (recent[d][a] + 1)
      <4> SUFFICES ASSUME NEW i \in 1..(Through(d) + 1)
                   PROVE  n[i] <= a <=> i > Through(d) - recent[d][a]
        BY <3>2, <3>3
      <4>1. CASE i = Through(d) + 1
        BY <4>1, <3>2, <3>3
      <4>2. CASE i # Through(d) + 1
        <5> DEFINE j == Len(w) - Through(d) + i
        <5>1. i \in 1..Through(d)
          BY <4>2, <3>3
        <5>2. j \in 1..Len(w)
          BY <5>1, <3>3
        <5>3. n[i] = w[j] /\ (w[j] <= a <=> j > Len(w) - recent[d][a])
          BY <5>1, <5>2, <3>2, <3>3
        <5> QED
          BY <5>1, <5>3, <3>3
      <4> QED
        BY <4>1, <4>2
    <3> QED
      BY <2>2, <3>1, <3>2, <3>3, <3>4, <3>5 DEF Counted
  <2> QED
    BY <2>1, <2>2
<1>6. \A c \in Ips : Through(c)' <= RateLimit
  BY <1>2, <1>3, RateAssumption DEF Through
<1> QED
  BY <1>2, <1>4, <1>5, <1>6, RateAssumption DEF RateInv, RefusalsAreEarned

LEMMA TooManyInv ==
  ASSUME RateInv, NEW d \in Ips, TooMany(d)
  PROVE  RateInv'
<1> DEFINE e == Evicted(window[d])
           w == window[d]
<1>1. e \in Seq(Nat) /\ Len(e) = Through(d)
      /\ \A i \in 1..Through(d) : e[i] = w[Len(w) - Through(d) + i]
  BY EvictedCounted
<1>2. /\ window' = [window EXCEPT ![d] = e] /\ recent' = recent
      /\ refused' = d /\ Through(d) >= RateLimit
  BY <1>1 DEF TooMany, Full
<1>3. /\ window \in [Ips -> Seq(Nat)] /\ recent \in [Ips -> [Ages -> Nat]]
      /\ \A c \in Ips, a \in Ages : Counted(c, a)
      /\ \A c \in Ips : Through(c) <= RateLimit
  BY DEF RateInv
<1>4. window' \in [Ips -> Seq(Nat)]
  BY <1>1, <1>2, <1>3
<1>5. \A c \in Ips, a \in Ages : Counted(c, a)'
  <2> SUFFICES ASSUME NEW c \in Ips, NEW a \in Ages PROVE Counted(c, a)'
    OBVIOUS
  <2>1. CASE c # d
    BY <1>2, <1>3, <2>1 DEF Counted
  <2>2. CASE c = d
    <3>1. window'[d] = e
      BY <1>2, <1>3
    <3>3. /\ recent[d][a] \in Nat /\ Through(d) \in Nat /\ w \in Seq(Nat) /\ Len(w) \in Nat
          /\ Through(d) <= Len(w) /\ recent[d][a] <= Len(w)
          /\ \A i \in 1..Len(w) : w[i] <= a <=> i > Len(w) - recent[d][a]
          /\ \A i \in 1..Len(w) : w[i] <= Window <=> i > Len(w) - Through(d)
      BY <1>3, RateAssumption DEF Counted, Through
    <3> HIDE DEF w, e
    <3>4. recent[d][a] <= Through(d)
      BY Cumulative, RateAssumption DEF Through
    <3>5. \A i \in 1..Len(e) : e[i] <= a <=> i > Len(e) - recent[d][a]
      <4> SUFFICES ASSUME NEW i \in 1..Through(d)
                   PROVE  e[i] <= a <=> i > Through(d) - recent[d][a]
        BY <1>1
      <4> DEFINE j == Len(w) - Through(d) + i
      <4>1. j \in 1..Len(w)
        BY <3>3
      <4>2. e[i] = w[j] /\ (w[j] <= a <=> j > Len(w) - recent[d][a])
        BY <4>1, <1>1, <3>3
      <4> QED
        BY <4>1, <4>2, <3>3
    <3> QED
      BY <2>2, <3>1, <1>2, <1>1, <3>4, <3>5 DEF Counted
  <2> QED
    BY <2>1, <2>2
<1>6. Through(d) = RateLimit /\ \A c \in Ips : Through(c)' = Through(c)
  BY <1>2, <1>3, RateAssumption DEF Through
<1> QED
  BY <1>2, <1>3, <1>4, <1>5, <1>6, RateAssumption DEF RateInv, RefusalsAreEarned

LEMMA TickInv ==
  ASSUME RateInv, Tick
  PROVE  RateInv'
<1>1. /\ window \in [Ips -> Seq(Nat)] /\ recent \in [Ips -> [Ages -> Nat]]
      /\ \A c \in Ips, a \in Ages : Counted(c, a)
      /\ \A c \in Ips : Through(c) <= RateLimit
  BY DEF RateInv
<1>2. /\ window' = [c \in Ips |-> [i \in DOMAIN window[c] |->
                      IF window[c][i] <= Window THEN window[c][i] + 1 ELSE window[c][i]]]
      /\ recent' = [c \in Ips |-> [a \in Ages |-> IF a = 0 THEN 0 ELSE recent[c][a - 1]]]
      /\ refused' = NoClient
  BY DEF Tick, Aged
<1>3. ASSUME NEW c \in Ips
      PROVE  /\ window'[c] \in Seq(Nat) /\ Len(window'[c]) = Len(window[c])
             /\ \A i \in 1..Len(window[c]) : window'[c][i] =
                  IF window[c][i] <= Window THEN window[c][i] + 1 ELSE window[c][i]
  <2>1. window[c] \in Seq(Nat) /\ DOMAIN window[c] = 1..Len(window[c]) /\ Len(window[c]) \in Nat
    BY <1>1
  <2> DEFINE u == [i \in 1..Len(window[c]) |->
                    IF window[c][i] <= Window THEN window[c][i] + 1 ELSE window[c][i]]
  <2>2. window'[c] = u
    BY <1>2, <2>1
  <2>3. \A i \in 1..Len(window[c]) : u[i] \in Nat
    BY <2>1
  <2>4. u \in [1..Len(window[c]) -> Nat]
    BY <2>3
  <2> QED
    BY <2>1, <2>2, <2>4
<1>4. window' \in [Ips -> Seq(Nat)]
  BY <1>2, <1>3
<1>5. recent' \in [Ips -> [Ages -> Nat]]
  BY <1>1, <1>2, RateAssumption
<1>6. \A c \in Ips, a \in Ages : Counted(c, a)'
  <2> SUFFICES ASSUME NEW c \in Ips, NEW a \in Ages PROVE Counted(c, a)'
    OBVIOUS
  <2>1. window[c] \in Seq(Nat) /\ Len(window[c]) \in Nat
    BY <1>1
  <2>2. CASE a = 0
    <3>1. recent'[c][a] = 0
      BY <2>2, <1>2
    <3>2. \A i \in 1..Len(window[c]) : ~(window'[c][i] <= a)
      BY <2>1, <2>2, <1>3, RateAssumption
    <3> QED
      BY <3>1, <3>2, <2>1, <1>3 DEF Counted
  <2>3. CASE a # 0
    <3>1. a - 1 \in Ages /\ recent'[c][a] = recent[c][a - 1]
      BY <2>3, <1>2, RateAssumption
    <3>2. Counted(c, a - 1)
      BY <1>1, <3>1
    <3>3. \A i \in 1..Len(window[c]) : window'[c][i] <= a <=> window[c][i] <= a - 1
      <4> TAKE i \in 1..Len(window[c])
      <4>1. window[c][i] \in Nat
        BY <2>1
      <4> QED
        BY <4>1, <1>3, RateAssumption
    <3> QED
      BY <3>1, <3>2, <3>3, <2>1, <1>3 DEF Counted
  <2> QED
    BY <2>2, <2>3
<1>7. \A c \in Ips : Through(c)' <= RateLimit
  <2> SUFFICES ASSUME NEW c \in Ips PROVE Through(c)' <= RateLimit
    OBVIOUS
  <2>1. CASE Window = 0
    BY <2>1, <1>2, RateAssumption DEF Through
  <2>2. CASE Window # 0
    <3>1. /\ Window - 1 \in Ages /\ Window \in Ages
          /\ Through(c)' = recent[c][Window - 1]
      BY <2>2, <1>2, RateAssumption DEF Through
    <3>2. recent[c][Window - 1] <= recent[c][Window]
      BY <3>1, Cumulative, RateAssumption
    <3>3. recent[c][Window - 1] \in Nat /\ recent[c][Window] \in Nat
      BY <1>1, <3>1
    <3> QED
      BY <1>1, <3>1, <3>2, <3>3, RateAssumption DEF Through
  <2> QED
    BY <2>1, <2>2
<1> QED
  BY <1>2, <1>4, <1>5, <1>6, <1>7, RateAssumption DEF RateInv, RefusalsAreEarned

LEMMA RateNextInv == RateInv /\ [StoreNext]_storeVars => RateInv'
<1> SUFFICES ASSUME RateInv, [StoreNext]_storeVars PROVE RateInv'
  OBVIOUS
<1>1. ASSUME NEW c \in Ips, Telemetry(c) PROVE RateInv'
  BY <1>1, LetThroughInv, TooManyInv DEF Telemetry
<1>2. CASE Tick
  BY <1>2, TickInv
<1>3. CASE StoreRestart
  BY <1>3, ForgetInv DEF StoreRestart
<1>4. CASE UNCHANGED rateVars
  BY <1>4 DEF rateVars, RateInv, Counted, RefusalsAreEarned, Through
<1> QED
  BY <1>1, <1>2, <1>3, <1>4 DEF StoreNext, storeVars

LEMMA RateInvariance == StoreSpec => []RateInv
<1>1. StoreInit => RateInv
  BY RateInitInv DEF StoreInit
<1> QED
  BY <1>1, RateNextInv, PTL DEF StoreSpec

\* Every restart in the last a ticks has added at most the limit to what earlier processes
\* let through in them.
EarlierInv ==
  /\ earlier \in [Ips -> [Ages -> Nat]] /\ starts \in [Ages -> Nat]
  /\ \A c \in Ips, a \in Ages : earlier[c][a] <= RateLimit * starts[a]

LEMMA OneMore ==
  ASSUME NEW n \in Nat
  PROVE  RateLimit * n \in Nat /\ RateLimit * (n + 1) = RateLimit * n + RateLimit
         /\ RateLimit * (1 + n) = RateLimit * n + RateLimit
  BY RateAssumption

LEMMA EarlierForget ==
  ASSUME RateInv, EarlierInv, Forget
  PROVE  EarlierInv'
<1>1. /\ starts' = [a \in Ages |-> starts[a] + 1]
      /\ earlier' = [c \in Ips |-> [a \in Ages |-> earlier[c][a] + recent[c][a]]]
  BY DEF Forget
<1>2. ASSUME NEW c \in Ips, NEW a \in Ages
      PROVE  /\ earlier'[c][a] \in Nat /\ starts'[a] \in Nat
             /\ earlier'[c][a] <= RateLimit * starts'[a]
  <2>1. /\ earlier[c][a] \in Nat /\ starts[a] \in Nat /\ recent[c][a] \in Nat
        /\ earlier[c][a] <= RateLimit * starts[a]
    BY DEF EarlierInv, RateInv
  <2>2. recent[c][a] <= RateLimit
    <3>1. Window \in Ages /\ a <= Window
      BY RateAssumption
    <3>2. recent[c][a] <= recent[c][Window]
      BY <3>1, Cumulative
    <3>3. recent[c][Window] \in Nat /\ recent[c][Window] <= RateLimit
      BY <3>1 DEF RateInv, Through
    <3> QED
      BY <2>1, <3>2, <3>3, RateAssumption
  <2>3. earlier'[c][a] = earlier[c][a] + recent[c][a] /\ starts'[a] = starts[a] + 1
    BY <1>1
  <2>4. RateLimit * starts[a] \in Nat
        /\ RateLimit * (starts[a] + 1) = RateLimit * starts[a] + RateLimit
    BY <2>1, OneMore
  <2> QED
    BY <2>1, <2>2, <2>3, <2>4, RateAssumption
<1>3. earlier' \in [Ips -> [Ages -> Nat]] /\ starts' \in [Ages -> Nat]
  <2>1. \A a \in Ages : starts[a] + 1 \in Nat
    BY DEF EarlierInv
  <2>2. ASSUME NEW c \in Ips, NEW a \in Ages
        PROVE  earlier[c][a] + recent[c][a] \in Nat
    <3>1. earlier[c][a] \in Nat /\ recent[c][a] \in Nat
      BY DEF EarlierInv, RateInv
    <3> QED
      BY <3>1
  <2> QED
    BY <1>1, <2>1, <2>2
<1> QED
  BY <1>2, <1>3 DEF EarlierInv

LEMMA EarlierTick ==
  ASSUME EarlierInv, Tick
  PROVE  EarlierInv'
<1>1. /\ starts' = [a \in Ages |-> IF a = 0 THEN 0 ELSE starts[a - 1]]
      /\ earlier' = [c \in Ips |-> [a \in Ages |-> IF a = 0 THEN 0 ELSE earlier[c][a - 1]]]
  BY DEF Tick, Aged
<1>2. \A a \in Ages : a # 0 => a - 1 \in Ages
  BY RateAssumption
<1>3. earlier' \in [Ips -> [Ages -> Nat]] /\ starts' \in [Ages -> Nat]
  BY <1>1, <1>2 DEF EarlierInv
<1>4. ASSUME NEW c \in Ips, NEW a \in Ages
      PROVE  earlier'[c][a] <= RateLimit * starts'[a]
  <2>1. CASE a = 0
    BY <1>1, <2>1, RateAssumption
  <2>2. CASE a # 0
    BY <1>1, <1>2, <2>2 DEF EarlierInv
  <2> QED
    BY <2>1, <2>2
<1> QED
  BY <1>3, <1>4 DEF EarlierInv

LEMMA EarlierNextInv == RateInv /\ EarlierInv /\ [StoreNext]_storeVars => EarlierInv'
<1> SUFFICES ASSUME RateInv, EarlierInv, [StoreNext]_storeVars PROVE EarlierInv'
  OBVIOUS
<1>1. ASSUME NEW c \in Ips, Telemetry(c) PROVE EarlierInv'
  BY <1>1 DEF Telemetry, LetThrough, TooMany, EarlierInv
<1>2. CASE Tick
  BY <1>2, EarlierTick
<1>3. CASE StoreRestart
  BY <1>3, EarlierForget DEF StoreRestart
<1>4. CASE UNCHANGED rateVars
  BY <1>4 DEF rateVars, EarlierInv
<1> QED
  BY <1>1, <1>2, <1>3, <1>4 DEF StoreNext, storeVars

\* No client gets more than the limit through in any window, but as much again for every
\* restart in it: for every limit, window and number of restarts, and whatever clients do.
THEOREM LimitHolds == StoreSpec => []AtMostLimit
<1>1. StoreInit => EarlierInv
  <2>1. StoreInit => /\ earlier = [c \in Ips |-> [a \in Ages |-> 0]]
                     /\ starts = [a \in Ages |-> 0]
    BY DEF StoreInit, RateInit, None
  <2> QED
    BY <2>1, RateAssumption DEF EarlierInv
<1>2. RateInv /\ EarlierInv => AtMostLimit
  <2> SUFFICES ASSUME RateInv, EarlierInv, NEW c \in Ips
               PROVE  Through(c) + earlier[c][Window] <= RateLimit * (1 + starts[Window])
    BY DEF AtMostLimit
  <2>1. Window \in Ages
    BY RateAssumption
  <2>2. /\ starts[Window] \in Nat /\ earlier[c][Window] \in Nat
        /\ earlier[c][Window] <= RateLimit * starts[Window]
        /\ Through(c) \in Nat /\ Through(c) <= RateLimit
    BY <2>1 DEF RateInv, EarlierInv, Through
  <2>3. /\ RateLimit * starts[Window] \in Nat
        /\ RateLimit * (1 + starts[Window]) = RateLimit * starts[Window] + RateLimit
    BY <2>2, OneMore
  <2> QED
    BY <2>2, <2>3, RateAssumption
<1> QED
  BY <1>1, <1>2, RateInvariance, EarlierNextInv, PTL DEF StoreSpec

\* A client is answered 429 only when requests of its own have used up the limit.
THEOREM RefusalsAreOwn == StoreSpec => []RefusalsAreEarned
<1>1. RateInv => RefusalsAreEarned
  BY DEF RateInv
<1> QED
  BY <1>1, RateInvariance, PTL
=============================================================================
