-------------------------- MODULE AgentOrchestrator --------------------------
(***************************************************************************)
(* The agents, the task queue and the token budget of backend/main.py.     *)
(* Every endpoint is a coroutine of one event loop: it runs alone until it *)
(* suspends.  Only two awaits suspend: the sleep in execute_agent, and the *)
(* lock of a SkillDNA that someone holds.  The database's lock and the     *)
(* registry's are never held across a suspension, so nobody waits there.   *)
(*                                                                         *)
(* record_modal_perf takes the lock of a SkillDNA and awaits update_trust, *)
(* which takes the same lock: asyncio's lock is not reentrant, the handler *)
(* waits for itself, and what follows it in execute_agent never runs.      *)
(* agent_market, the heatmap and the validation history are only reported, *)
(* or weigh the random outcome of a review, which is free here.            *)
(***************************************************************************)
EXTENDS Integers, FiniteSetsExt

CONSTANTS Handlers,        \* requests being served at the same time
          Hashes,          \* model_hash: one per agent label
          Objects,         \* identities of SkillDNA objects
          Tasks, Priorities,
          Nothing, Nobody,
          InitialTrusts,   \* initial_trust of register requests, in hundredths
          TokenBudget,     \* the budget at the start
          RestartBound     \* how often the server restarts in a behaviour

MinTrust == 20             \* MIN_TRUST_THRESHOLD, in hundredths
AllocationFactor == 20     \* MAX_TOKEN_ALLOCATION_FACTOR
FailurePenalty == 9        \* 0.1, scaled by TRUST_DECAY_FACTOR

ASSUME OrchestratorAssumption ==
  /\ InitialTrusts \subseteq 0..100 /\ TokenBudget \in Nat \ {0} /\ RestartBound \in Nat
  /\ Nothing \notin Objects \cup Tasks /\ Nobody \notin Handlers /\ Priorities \subseteq 1..10

VARIABLES registry, archived,   \* DNARegistry: the object under each hash, or Nothing
          dna,        \* hash, trust_score and human_override of each object made
          locked,     \* the handler that holds an object's lock and waits for itself
          queue,      \* the tasks in the heap
          task,       \* the object and priority each task was scheduled with, or Nothing
          budget,     \* token_budget
          handler,    \* what each request is doing
          loop,       \* the handler the event loop is running, when in the middle of one
          stored,     \* the trust_score in the database row of each hash, or Nothing
          answered,   \* history: the tasks whose result some /tasks/run returned
          blocked,    \* history: the hashes whose last override was a block
          restarts

vars == <<registry, archived, dna, locked, queue, task, budget, handler, loop, stored,
          answered, blocked, restarts>>

agents == <<registry, archived, dna, stored, blocked>>

DNA == [hash : Hashes, trust : 0..100, override : {"unset", "allow", "block"}]
TaskOf == [object : Objects, priority : Priorities]

ASSUME NothingAssumption == Nothing \notin TaskOf

\* "draining": in the loop of run_queue; "sleeping": in execute_agent with a bid;
\* "stuck": waits for the lock it holds; "waiting": for the lock of a stuck one.
Requests == [pc : {"idle", "draining", "sleeping", "stuck", "waiting"},
             task : Tasks \cup {Nothing}, bid : Nat, results : SUBSET Tasks]

Idle == [pc |-> "idle", task |-> Nothing, bid |-> 0, results |-> {}]

Made == DOMAIN dna

TypeOK ==
  /\ registry \in [Hashes -> Made \cup {Nothing}]
  /\ archived \in [Hashes -> Made \cup {Nothing}]
  /\ Made \subseteq Objects /\ \A o \in Made : dna[o] \in DNA
  /\ locked \in [Objects -> Handlers \cup {Nobody}]
  /\ queue \subseteq Tasks /\ answered \subseteq Tasks /\ blocked \subseteq Hashes
  /\ \A k \in Tasks : task[k] # Nothing => task[k] \in TaskOf
  /\ budget \in Nat /\ restarts \in 0..RestartBound
  /\ \A h \in Handlers : handler[h] \in Requests
  /\ loop \in Handlers \cup {Nobody}
  /\ \A x \in Hashes : stored[x] # Nothing => stored[x] \in 0..100

Init ==
  /\ registry = [x \in Hashes |-> Nothing] /\ archived = [x \in Hashes |-> Nothing]
  /\ dna = [o \in {} |-> Nothing]
  /\ locked = [o \in Objects |-> Nobody]
  /\ queue = {} /\ task = [k \in Tasks |-> Nothing]
  /\ budget = TokenBudget
  /\ handler = [h \in Handlers |-> Idle] /\ loop = Nobody
  /\ stored = [x \in Hashes |-> Nothing]
  /\ answered = {} /\ blocked = {} /\ restarts = 0

Fresh(h) == loop = Nobody /\ handler[h] = Idle

-----------------------------------------------------------------------------
(* /agents/register, /tasks/schedule, /agents/override: no suspension, except for *)
(* an override that meets a held lock.                                            *)

\* register_dna keeps the object of a hash that is registered already.
RegisterDna(x, trust) ==
  \/ registry[x] # Nothing /\ UNCHANGED <<registry, dna>>
  \/ /\ registry[x] = Nothing
     /\ \E o \in Objects \ Made :
          /\ dna' = [p \in Made \cup {o} |->
                       IF p = o THEN [hash |-> x, trust |-> trust, override |-> "unset"]
                                ELSE dna[p]]
          /\ registry' = [registry EXCEPT ![x] = o]

\* upsert_agent: the row takes the trust it is given, and keeps its version.
UpsertAgent(x, trust) == stored' = [stored EXCEPT ![x] = trust]

\* The row takes the trust of the request, also when the object stays.
Register(x, trust) ==
  /\ loop = Nobody
  /\ RegisterDna(x, trust) /\ UpsertAgent(x, trust)
  /\ UNCHANGED <<archived, locked, queue, task, budget, handler, loop, answered, blocked,
                 restarts>>

Schedule(x, k, p) ==
  /\ loop = Nobody /\ registry[x] # Nothing
  /\ task[k] = Nothing
  /\ task' = [task EXCEPT ![k] = [object |-> registry[x], priority |-> p]]
  /\ queue' = queue \cup {k}
  /\ UNCHANGED <<agents, locked, budget, handler, loop, answered, restarts>>

SetHumanOverride(h, o, choice) ==
  \/ /\ locked[o] = Nobody
     /\ dna' = [dna EXCEPT ![o].override = choice]
     /\ blocked' = IF choice = "block" THEN blocked \cup {dna[o].hash}
                                       ELSE blocked \ {dna[o].hash}
     /\ UNCHANGED handler
  \/ /\ locked[o] # Nobody
     /\ handler' = [handler EXCEPT ![h].pc = "waiting"]
     /\ UNCHANGED <<dna, blocked>>

Override(h, x, o, choice) ==
  /\ Fresh(h) /\ o = registry[x] /\ o # Nothing
  /\ SetHumanOverride(h, o, choice)
  /\ UNCHANGED <<registry, archived, stored, locked, queue, task, budget, loop, answered,
                 restarts>>

-----------------------------------------------------------------------------
(* /tasks/run: run_queue up to its first sleep, and from a wake-up to the next. *)

RunQueue(h) ==
  /\ Fresh(h)
  /\ handler' = [handler EXCEPT ![h].pc = "draining"]
  /\ loop' = h
  /\ UNCHANGED <<agents, locked, queue, task, budget, answered, restarts>>

MoreToDo == queue # {} /\ budget > 0

\* heappop: least priority first, equal ones in random order.
Heads == {k \in queue : \A j \in queue : task[k].priority <= task[j].priority}

TrustOf(k) == dna[task[k].object].trust
BlockedTask(k) == dna[task[k].object].override = "block"

\* A task of an agent below the threshold is dropped without a result.
DropUntrusted(h) ==
  /\ loop = h /\ MoreToDo
  /\ \E k \in Heads : TrustOf(k) < MinTrust /\ queue' = queue \ {k}
  /\ UNCHANGED <<agents, locked, task, budget, handler, loop, answered, restarts>>

ReportBlocked(h) ==
  /\ loop = h /\ MoreToDo
  /\ \E k \in Heads :
       /\ TrustOf(k) >= MinTrust /\ BlockedTask(k)
       /\ queue' = queue \ {k}
       /\ handler' = [handler EXCEPT ![h].results = @ \cup {k}]
  /\ UNCHANGED <<agents, locked, task, budget, loop, answered, restarts>>

Bid(k) ==
  (budget * IF TrustOf(k) < AllocationFactor THEN TrustOf(k) ELSE AllocationFactor) \div 100

StartPeeking(h) ==   \* mutant: the task stays in the heap while it runs
  /\ loop = h /\ MoreToDo
  /\ \E k \in Heads :
       /\ TrustOf(k) >= MinTrust /\ ~BlockedTask(k)
       /\ handler' = [handler EXCEPT ![h] =
                         [@ EXCEPT !.pc = "sleeping", !.task = k, !.bid = Bid(k)]]
  /\ loop' = Nobody
  /\ UNCHANGED <<agents, locked, queue, task, budget, answered, restarts>>

\* A bid never exceeds the budget it is a share of, so the test after it skips nothing.
Start(h) ==
  /\ loop = h /\ MoreToDo
  /\ \E k \in Heads :
       /\ TrustOf(k) >= MinTrust /\ ~BlockedTask(k)
       /\ queue' = queue \ {k}
       /\ handler' = [handler EXCEPT ![h] =
                         [@ EXCEPT !.pc = "sleeping", !.task = k, !.bid = Bid(k)]]
  /\ loop' = Nobody
  /\ UNCHANGED <<agents, locked, task, budget, answered, restarts>>

Untrusted == {x \in Hashes : registry[x] # Nothing /\ dna[registry[x]].trust < MinTrust}

FinishUnpruned(h) ==   \* mutant: a run that has something to report does not prune
  /\ loop = h /\ ~MoreToDo
  /\ LET low == IF handler[h].results = {} THEN Untrusted ELSE {}
     IN  /\ archived' = [x \in Hashes |-> IF x \in low THEN registry[x] ELSE archived[x]]
         /\ registry' = [x \in Hashes |-> IF x \in low THEN Nothing ELSE registry[x]]
  /\ answered' = answered \cup handler[h].results
  /\ handler' = [handler EXCEPT ![h] = Idle] /\ loop' = Nobody
  /\ UNCHANGED <<dna, stored, blocked, locked, queue, task, budget, restarts>>

FinishEarly(h) ==   \* mutant: a run answers, and prunes, as soon as it has a result
  /\ loop = h /\ (~MoreToDo \/ handler[h].results # {})
  /\ archived' = [x \in Hashes |-> IF x \in Untrusted THEN registry[x] ELSE archived[x]]
  /\ registry' = [x \in Hashes |-> IF x \in Untrusted THEN Nothing ELSE registry[x]]
  /\ answered' = answered \cup handler[h].results
  /\ handler' = [handler EXCEPT ![h] = Idle] /\ loop' = Nobody
  /\ UNCHANGED <<dna, stored, blocked, locked, queue, task, budget, restarts>>

\* prune_low_trust, and the answer.
Finish(h) ==
  /\ loop = h /\ ~MoreToDo
  /\ archived' = [x \in Hashes |-> IF x \in Untrusted THEN registry[x] ELSE archived[x]]
  /\ registry' = [x \in Hashes |-> IF x \in Untrusted THEN Nothing ELSE registry[x]]
  /\ answered' = answered \cup handler[h].results
  /\ handler' = [handler EXCEPT ![h] = Idle] /\ loop' = Nobody
  /\ UNCHANGED <<dna, stored, blocked, locked, queue, task, budget, restarts>>

-----------------------------------------------------------------------------
(* execute_agent after the sleep *)

Awake(h) == loop = Nobody /\ handler[h].pc = "sleeping"
ObjectOf(h) == task[handler[h].task].object

Lowered(t) == IF t > FailurePenalty THEN t - FailurePenalty ELSE 0

\* update_trust, "Meta-Review Failed", and back in the loop.
ReviewFails(h) ==
  /\ Awake(h)
  /\ budget' = budget + handler[h].bid \div 2
  /\ \/ /\ locked[ObjectOf(h)] = Nobody
        /\ dna' = [dna EXCEPT ![ObjectOf(h)].trust = Lowered(@)]
        /\ handler' = [handler EXCEPT ![h] =
                         [Idle EXCEPT !.pc = "draining", !.results = handler[h].results
                                                                    \cup {handler[h].task}]]
        /\ loop' = h
     \/ /\ locked[ObjectOf(h)] # Nobody
        /\ handler' = [handler EXCEPT ![h].pc = "waiting"]
        /\ UNCHANGED <<dna, loop>>
  /\ UNCHANGED <<registry, archived, stored, blocked, locked, queue, task, answered, restarts>>

\* The lock is taken, and waited for again in update_trust.
RecordModalPerf(h, o) ==
  \/ /\ locked[o] = Nobody
     /\ locked' = [locked EXCEPT ![o] = h]
     /\ handler' = [handler EXCEPT ![h].pc = "stuck"]
  \/ /\ locked[o] # Nobody
     /\ handler' = [handler EXCEPT ![h].pc = "waiting"]
     /\ UNCHANGED locked

ReviewPasses(h) ==
  /\ Awake(h)
  /\ RecordModalPerf(h, ObjectOf(h))
  /\ UNCHANGED <<agents, queue, task, budget, loop, answered, restarts>>

\* The process ends and starts anew; init_db reopens the database, nothing is loaded.
Restart ==
  /\ loop = Nobody /\ restarts < RestartBound
  /\ registry' = [x \in Hashes |-> Nothing] /\ archived' = [x \in Hashes |-> Nothing]
  /\ locked' = [o \in Objects |-> Nobody]
  /\ queue' = {} /\ budget' = TokenBudget
  /\ handler' = [h \in Handlers |-> Idle]
  /\ restarts' = restarts + 1
  /\ UNCHANGED <<dna, task, loop, stored, answered, blocked>>

RunStep(h) == \/ DropUntrusted(h) \/ ReportBlocked(h) \/ Start(h) \/ Finish(h)
              \/ ReviewFails(h) \/ ReviewPasses(h)

Next ==
  \/ \E x \in Hashes :
       \/ \E t \in InitialTrusts : Register(x, t)
       \/ \E k \in Tasks, p \in Priorities : Schedule(x, k, p)
       \/ \E h \in Handlers, o \in Made, c \in {"allow", "block"} : Override(h, x, o, c)
  \/ \E h \in Handlers : RunQueue(h) \/ RunStep(h)
  \/ Restart

\* The event loop resumes every handler that can go on.
Spec == Init /\ [][Next]_vars /\ \A h \in Handlers : WF_vars(RunStep(h))

-----------------------------------------------------------------------------
(* Properties *)

Running(h) == handler[h].pc # "idle" /\ handler[h].task # Nothing

\* Where a task can be found.
Places(k) ==
  {<<"queue", k>> : q \in {k} \cap queue} \cup {<<"answered", k>> : a \in {k} \cap answered}
    \cup {<<"running", h>> : h \in {g \in Handlers : Running(g) /\ handler[g].task = k}}
    \cup {<<"results", h>> : h \in {g \in Handlers : k \in handler[g].results}}

\* However many /tasks/run requests drain the queue at the same time, each task is run
\* by one of them and reported once.
TasksRunOnce == \A k \in Tasks : Cardinality(Places(k)) <= 1

\* No task waits for an agent that is archived or was replaced under its hash: agents
\* leave the registry while other tasks sleep, and only once the heap is empty.
QueuedAreRegistered ==
  \A k \in queue : LET o == task[k].object IN registry[dna[o].hash] = o

\* Agents that were registered at or above the threshold are below it only while some
\* run is under way: the run that lowered them, or one that meets them later, archives
\* them before it answers.
LowTrustIsTransient ==
  (\A t \in InitialTrusts : t >= MinTrust)
    => (Untrusted # {} => \E h \in Handlers : handler[h].pc = "draining" \/ Running(h))

-----------------------------------------------------------------------------
(* Claims of the repository that the code does not keep: see the README. *)

\* main.py:435: "Execute all queued tasks and return results."
RunsAnswer == \A h \in Handlers : handler[h].pc = "draining" ~> handler[h].pc = "idle"

\* DRM_QAQC_TestResults.md:54: "Token budget not over-allocated under concurrent run_queue".
BudgetCoversBids == MapThenSumSet(LAMBDA h : handler[h].bid, Handlers) <= budget

\* DRM_QAQC_TestResults.md:67: "Token budget refunded correctly on meta-review failure",
\* "Half bid returned": a refund gives back tokens that were taken.
RefundsOnlyReturn == budget <= TokenBudget

\* ALGA_TestResults.md:35: "Human override BLOCK returns 'Blocked by Human Override'": an
\* agent that was blocked is not run until it is allowed again.
BlockSticks ==
  [][\A h \in Handlers :
       (loop = h /\ handler'[h].pc = "sleeping")
         => dna[task[handler'[h].task].object].hash \notin blocked]_vars

\* Fix_Report.md: "Agent state written to DB on register and update."
StoredTrustIsCurrent ==
  \A x \in Hashes : registry[x] # Nothing => stored[x] = dna[registry[x]].trust

\* Fix_Report.md, MED-002: agent state is no longer "lost on every server restart".
AgentsSurviveRestart ==
  \A x \in Hashes : stored[x] # Nothing => registry[x] # Nothing \/ archived[x] # Nothing
=============================================================================
