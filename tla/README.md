# Formal models of the LEAPXO Skill Engine

TLA+ modules, TLC configurations and TLAPS proofs for the Python engine under `src/src/` and
the agent backend under `src/backend/`. Paths below are relative to the repository root as it
is kept here (`src/`). `PROJECT.json` maps each definition to the lines it models.

## 1. The system

Two programs share the repository.

**The engine** (`src/src/`) is a library. `OrchestrationEngine.execute` runs a request through
a firewall, an intent-loop guard, an output cache, L1 discovery, a registry fetch and policy
check, the L2 loader, the L3 executor, and stores the output. Nothing in it starts a thread;
the parts hold locks because callers run `execute` on several threads.

**The backend** (`src/backend/main.py`, `db.py`) is a FastAPI service: coroutines of one event
loop over an in-memory registry of agents, a task heap and a token budget, with SQLite behind.

| component | state | operations | correct when |
|---|---|---|---|
| circuit breaker | state, two counters, time of the last failure | assert_closed, record_success, record_failure | counters and state agree; it opens on failures in a row, rests, probes, closes on trial successes; it does not stay shut |
| breaker registry | name → breaker object | get_or_create, reset | one object per name between resets; a reset forgets, late outcomes of old calls included |
| intent history | session → bounded deque | record_intent | an abort means a loop, a loop means an abort |
| engine pipeline | none of its own: breakers, caches, registry | execute | outputs fit the request; one skill's trouble stays its own; flags and tiers are right |
| semantic cache | ordered dict of values with expiry | get, set, invalidate | last live value or nothing; recently used keys stay |
| skill registry | id → entry object (slot, count, protection) | register, promote, get, evict | P0 and served skills stay, eviction is fair, staging does not disturb production |
| signatures and schema | the fields of each schema object, which its owner can assign to | validate, sign, verify | what an enforcing registry holds is what the factory signed |
| audit log | ring of hash-linked entries, last hash | log, verify_chain, get_entries | the ring is one chain; edits are detected; an intact chain verifies |
| approval workflow | requests with status and times | submit, approve, reject, check_sla | cooldown and SLA hold, decisions stand, the trail accounts for them |
| agent backend | agents, archive, heap, budget, rows | register, schedule, override, run, restart | tasks run once and are answered; low trust is archived; budget covers bids; blocks and state last |
| agent database | rows with a version, audit and telemetry tables, one connection with its open transaction | upsert, optimistic update, archive, insert, restart | no lost update; the trail names agents that are stored; what answers was stored |
| L1 discovery | index, aliases, candidate cache | index_skill, retrieve, register and resolve of aliases | candidates are the best of each kind in the present index; renames end |
| L2 loader, token predictor | instructions | load, reload_pruned | a reload recovers from an overrun; nothing is dropped that would fit |
| auto repair | history of attempts | attempt_repair | a human is asked only about patches that passed, and every outcome is known |
| L3 executor | the contents, shared with whoever registered them | execute | what a success applied is what its payload hash covers |
| rate limiter | window per client, in memory | _check_telemetry_rate | at most the limit in any minute, and no refusal below it |
| firewall, policy | none | inspect, evaluate | what is blocked stays out; outputs are for a permitted region |
| Node pipeline, Redis bridge, secure storage hook | connection or memory store | send, get, set | works without its backend |

**Interactions.** The pipeline calls breakers under the names `l1:<session>`, `l2:<skill>`,
`l3:<skill>`; nothing holds a lock from `assert_closed` to the outcome. `ApprovalWorkflow` logs
to the audit log after it has released its own lock. `auto_repair` submits approvals. The
registry verifies a dump of a schema and keeps the schema; the loader copies lists and the
executor reads the dicts in them. The
backend's endpoints share `orchestrator` and the database, and give up control only at the
sleep in `execute_agent` and at a held agent lock.

**Hard behaviours.** Outcomes recorded on a breaker that has changed state since; an unlocked
dict and deque; a counter and a protection
set outside the lock on an object that may be gone or is being evicted; verification
that iterates a list another thread appends to and trims; a clock read before the lock; logging
after it; tasks that keep references to archived objects; a lock awaited while it is held; a
commit that fails and leaves its statement to the next one, or takes back what others left; state that a restart loses. The full list, line by line, is under `hazards` in `PROJECT.json`.

## 2. Modules

| module | models | composes / refines |
|---|---|---|
| `Breaker` | the methods of `CircuitBreaker` as operators on its record | used by the next three and `Engine` |
| `BreakerContract` | what a breaker promises, over the outcomes it has heard, without counters | abstract |
| `CircuitBreaker` | callers of one breaker, as the engine uses it | implements `BreakerContract` |
| `BreakerRegistry` | names, objects, resets, callers that still hold old objects | `Breaker` |
| `IntentLoop` | `record_intent`, one step per access to the dict or a deque | |
| `Guards` | `CircuitBreakerRegistry` as one object | `BreakerRegistry`, `IntentLoop` |
| `SkillRegistry` | the table and the entry objects, `get` in up to five steps, `evict_if_needed` in one for each entry it lists and each it sorts | |
| `Admission` | schemas validated, edited, verified and stored | extends and implements `SkillRegistry` |
| `CacheContract` | what a cache may answer | abstract |
| `SemanticCache` | one store with expiry, LRU order and capacity | implements `CacheContract` |
| `AuditLog` | `log` in three steps under the lock, `verify_chain` entry by entry outside it | |
| `Approval` | the workflow, each thread's locked step and the log calls it still owes | |
| `ShadowRepair` | `attempt_repair` by several threads, next to direct users of the workflow | extends `Approval`; implements it |
| `L1Discovery` | the index, the aliases and the candidate cache, by threads without a lock | |
| `TokenBudget` | the loader, the predictor and the pruned reload for one skill, its texts edited meanwhile | |
| `L3Execution` | the executor on what was loaded, its hashes, contents edited meanwhile | extends and implements `TokenBudget` |
| `PromptFirewall`, `PolicyEngine` | `inspect` and `evaluate` as operators | used by `Engine` |
| `Engine` | the pipeline by several threads, one step per access to shared state | `Breaker` three times over, `PromptFirewall`, `PolicyEngine` |
| `AgentOrchestrator` | the backend's endpoints on the event loop | |
| `RateLimiter` | the telemetry window of each client | |
| `AgentDb` | the connection, its open transaction, the endpoints and optimistic clients that write | |
| `BackendStore` | `POST /telemetry` through both | composes `RateLimiter`, `AgentDb`; implements `AgentDb` |
| `MC*` | constants and symmetry for TLC; `MCGuards` also runs one half of `Guards` at a time | |
| `CircuitBreakerProofs`, `GuardsProofs`, `AuditLogProofs`, `AdmissionProofs`, `ShadowRepairProofs` | theorems of the module in the name and of those it extends | |
| `EngineProofs` | theorems of `Engine`, and of `SemanticCache`, the store behind its caches | |
| `ExecutionProofs` | theorems of the three levels of execution: `L1Discovery`, `TokenBudget`, `L3Execution` | |
| `BackendProofs` | theorems of `AgentOrchestrator` and of `BackendStore` (`RateLimiter`, `AgentDb`) | |

How state and actions correspond to the code:

- **Breaker.** The record is `BreakerStats`, except that `elapsed` stands for
  `time.monotonic() - last_failure_time`. Each method runs under the breaker's lock, so it is one
  function of the record. In `CircuitBreaker` an action is a call: `Admit` and `Refuse` are the
  two ends of `assert_closed`; `Succeed`, `Fail`, `FailAndReload` (L2 records an overrun and goes
  on) and `Abandon` (nothing is recorded: a raised execution, a failed reload, a skill without
  instructions) are the ways `_run_pipeline` goes on.
- **BreakerRegistry.** `Objects` are identities; the dict maps names to them and callers keep
  theirs after a `Reset`. `reset` installs a breaker with the default thresholds (line 181) whatever
  the old one had; no caller in `src/` passes any others (`engine.py:186`, `216`, `241`), so all breakers
  have the same ones.
- **IntentLoop.** `Lookup` and `StoreNew` are the two halves of `defaultdict.__missing__`, which
  Python does not make indivisible; `AppendIntent`; `Abort`/`Pass` are the test. Any
  thread serves any session. `said` is a history: the session's last appends and to which deque each
  went, since two first requests can each store a deque, of which one is then lost.
- **SkillRegistry.** `GetLookup` is under the lock; `GetRead`, `GetStore` are `+= 1`, `GetCompare` is
  the comparison with the threshold and `GetProtect` the assignment, all without it. `EvictBegin`
  takes the lock, `EvictCheck` is one element of the comprehension that lists unprotected entries,
  `EvictKey` reads one count for the sort, and `Evict` deletes and releases; gets that are past their
  lookup go on between these steps. Deletions and release are one step because the table is only
  read under the lock. Equally used skills are chosen among freely, where the code follows dict
  order; an eviction within the limit changes nothing and is absent. `served` and `crowded` (held by
  as many gets at once as the threshold) are histories. An entry object that neither the table nor a
  `get` refers to is garbage: its identity serves again, so registrations are unbounded.
- **Admission.** A schema is reduced to its level, what its signature covers, and whether its
  fields were assigned to since it was signed. `Construct` is pydantic's validation, `Verify` the
  first half of `register` and `Store` the second, which still reads the level from the object.
  `EditHeld` and `EditStored` are assignments by whoever holds the schema. `late` is a history.
- **SemanticCache.** The store is the `OrderedDict` as a sequence, oldest use first. `used` is a
  history.
- **AuditLog.** `LogAppend`, `LogHash`, `LogEvict` hold the lock; `VerifyStep` is one turn of the
  loop over the live list by index; `Edit` changes the body of an entry someone holds. A hash is a
  value that determines the fields it was computed from.
- **Approval.** The `ValueError` paths change nothing and are absent. `doing` holds the events a
  thread still has to log and the clock value of `check_sla`.
- **ShadowRepair.** A thread in `attempt_repair` moves its attempt from stage to stage; the four
  callbacks may answer anything or raise. `RequestApproval` is the locked step of `submit`; the
  attempt gets the request's id in `Attach`, after the thread has logged the submission. Threads
  outside the pipeline take the steps of `Approval`.
- **L1Discovery.** The index is a sequence in the dict's order. `Lookup` and `Hit` are `in` and
  `[]`; `Scan` is one turn of the walk, which ends in a `RuntimeError` when the dict has grown;
  `IndexSet` and `IndexClear` are the two statements of `index_skill`. Errors end the retrieval.
  `stale`, `query` and `of` are histories.
- **TokenBudget.** A text is its number of words, which decides all that `count_tokens` computes
  without tiktoken (with tiktoken the count is external). `Consider` is one turn of the pruning
  loop; `Predictions` has both results of a float product that is whole. `Overrun` is the exception of
  `load` and `Reload` the call the engine answers it with. `EditText` changes the length of a stored
  text at any time of the load: the loop sees it if it has not counted the text yet, the combined
  text if the text is kept. `late`, a history, has the pieces edited after they were counted.
- **L3Execution.** A content is `"loaded"`, `"other"`, `"blank"` or `"odd"` (nothing
  `json.dumps` takes). `Execute` computes the first hash, `Read` is one element of the list
  comprehension, `Rehash` the second hash and the end. `Edit` is outside code with a reference to
  an instruction dict, after the load; before that it is `EditText`. The next load starts over (`Loading`).
- **PromptFirewall, PolicyEngine.** Which texts match a pattern, what blobs decode to and what the
  backend may answer are parameters; order, strict mode and failures are the code's.
- **Engine.** `call[t].pc` is the place in `_run_pipeline`. The index is fixed, `routes` is
  `L1Discovery`'s own cache, whose key ignores case while the embedding does not. `answer` is the
  response a step gave. `Find` and `FindNone` are the retrieval; its outcome is recorded on the session's
  breaker in a step of its own (`FoundRecorded`, `MissRecorded`). Cache expiry and eviction are `CacheForget`, the intent guard may abort any
  request, loads and executions end in any way they can; all of these are modelled in full in their
  own modules.
- **RateLimiter.** A time in the deque is kept as its age; ages above the window are alike.
  `Popped` is the loop that takes old times from the left. `recent` (how many got through in the
  last a ticks, for every a, in this process), `earlier` (the same of the processes before it), `starts`
  (restarts in the last a ticks) and `refused` are histories; a restart (`Forget`) empties the deques and
  no history.
- **AgentDb.** `live` is what the connection sees and `committed` what a restart finds. `Commit` is
  a statement whose commit succeeds; `Raise` one that fails before it changed anything, or whose
  commit fails, so that the change stays in the open transaction, or one on which SQLite rolls the whole
  transaction back. No lock is held across a suspension there, so each statement is one step. `since`
  (what became of the row a client has read) and `unstored` (the agents whose last registration failed to
  write a row) are histories.
- **AgentOrchestrator.** `loop` is the handler the event loop is running; every other action waits
  until it suspends. `ReviewPasses` takes the agent's lock and never returns, because that is what
  `record_modal_perf` does; the rest of `execute_agent` is unreachable and absent, as is its
  `except` branch, which nothing raises into. Trust is counted in hundredths.

## 3. Runs

Eleven runs pass and one shows a violation; deadlock is checked in all of them. The run of
`breaker` checks its type invariant too; those of the other modules are stated beside them, hold
on the same instances and are proved for `Approval`, `TokenBudget`, `AgentDb` and `SemanticCache`. Except where the
table says otherwise the actors are all the threads there are, and any of them may do anything at
any time.

| run | instance | shows |
|---|---|---|
| `breaker` | 4 callers, failure threshold 3, success threshold 2, timeout 2 | `CountersAgree`, `OnlyAPileUpTrips` (with more callers than the threshold, so that the pile-up happens), `WindowEnds` (liveness), `ImplementsContract` |
| `guards` | 2 callers, 2 names, 3 breaker objects; a session that 2 threads serve, 2 intents, threshold 3; one half runs while the other is as it was made | `OneBreakerPerName`, `ResetForgets`; `AbortMeansLoop`, `NoLoopOutlivesTheDeque` |
| `engine` | 2 threads, 2 regions, a prompt in two spellings and a blocked one, a firewall backend that may fail, 2 skills of which one moved region and one is registered late, one of them with a blocked tag, thresholds 1 | `TripsAreOwnFault`, `OutputsArePermitted` |
| `admission` | 2 threads, 2 skills, 2 entry objects, limit 1, rare below 3, a signature that is missing, the factory's or another's, an edit; 2 gets are fewer than the threshold, so nothing is exempt as `crowded` | `AdmittedAreSigned`, `P0NeverPurged`, `EvictionIsFair`, `ServedSkillsStay` |
| `cache` | 3 keys, capacity 2, time to live 2 | `RecentlyUsedStay`, `ImplementsCache` |
| `audit_log` | 2 writers, ring of 3, 5 entries, 1 edit | `ChainLinked`, `CopyIsARing`, `EditsDetected`, `GrowingLogVerifies` |
| `repair_approval` | 2 repairs, 2 requests, 2 actors, cooldown 1, SLA 1, clock to 2 | `ApprovalsAreCool`, `EscalationsAreDue`, `TrailAccountsForAll`, `DecisionsStand` under repairs; `RequestsAreEarned`, `OutcomesAreKnown` |
| `orchestrator` | 2 handlers, 2 labels, 3 objects, 3 tasks, 1 restart | `TasksRunOnce`, `LowTrustIsTransient`, `QueuedAreRegistered` |
| `l1_discovery` | 2 threads, 3 skills of 3 kinds, 2 queries that share a key, 3 index changes, 2 renames, top 2 | `CacheIsCurrent`, `BestOfEachKind`, `RenamesEnd` |
| `l3_execution` | window 64, reserve 4 as in the engine's ratio, 2 prunable texts, each of 4 lengths and 2 weights, any number of edits before a text is counted, 1 between count and combined text, 2 after the load | `ReloadRecovers`, `DroppedWouldNotFit`, `AppliedAreHashed` |
| `backend_store` | limit 2 in a window of 1 tick, 2 addresses, a restart in any window; 1 agent, 2 trusts, 2 optimistic clients, versions to 2, failures with and without rollback | `AtMostLimit`, `RefusalsAreEarned`, `TrailNamesAgents`, `NoLostUpdate` |
| `runs_answer` | 1 handler, 1 agent, 1 task, no restart, no symmetry | **violated**: `RunsAnswer` |

**The violation.** `main.py:435` says of `POST /tasks/run`: "Execute all queued tasks and return
results." `RunsAnswer` asks that each request that drains the queue ends, under a loop that resumes
every handler that can go on. After the first review that passes, `record_modal_perf` holds the
agent's `asyncio.Lock` (`main.py:113`) and awaits `update_trust`, which takes the same lock; the lock
is not reentrant, so the handler waits for itself.

**Other claims the code does not keep.** These are stated as properties at the end of their
modules. No run lists them; each is violated when it takes the place of the properties in the
configuration that the last column names, by the behaviour in the third.

| property | says | what happens | instance |
|---|---|---|---|
| `ClosedByATrialCall` | `circuit_breaker.py:6`, "trial run to probe recovery" | a success of a call admitted before the breaker opened counts as a trial's (line 100) | `CircuitBreaker.cfg` |
| `ThresholdInARowAborts` | `circuit_breaker.py:17`, "3 identical intents" | the deque holds four and all must agree (line 157): three in a row after another pass | `Guards.cfg` |
| `FirstRequestsCount` | the same, of a session that says nothing else | of two first requests each stores a deque, and what is in the first one is lost (line 155) | `Guards.cfg` |
| `OwnIntentAborts` | `circuit_breaker.py:152`, "If the same intent has been seen" | the test reads what other threads have appended since (line 157) | `Guards.cfg` |
| `ReviewFlagKept` | `l1_discovery.py:7`, "flagged for human review" | an answer from the cache has the flag off (`engine.py:173`) | `Engine.cfg` |
| `OnlyBlueRuns` | `skill_registry.py:31-32`, active and staging slots | the entry's slot is not looked at (`engine.py:204`) | `Engine.cfg`, which registers GREEN too |
| `RaisesAreHeard` | `engine.py:19`, "isolate skill" | an executor that raises passes the `record_failure` (line 244) | `Engine.cfg` |
| `BlockedStaysOut` | `prompt_firewall.py:15`, "BLOCKED" | without strict mode `inspect` returns the verdict (line 166) and the engine discards it | `Engine.cfg` with `StrictMode` FALSE |
| `ComplianceIsFlagged` | `policy_engine.py:108`, "compliance routing" | the engine discards the `PolicyDecision` | `Engine.cfg` |
| `OtherCandidatesTried` | `engine.py:17`, "retry with different skill" | only the first candidate is tried (line 200) | `Engine.cfg`: the route cached for the other spelling |
| `RareSkillsExempt` | `skill_registry.py:6` | only a get protects; a skill never fetched goes first (line 151) | `Admission.cfg` |
| `MarkedSkillsStay` | `skill_registry.py:127`, "Mark rare skill as protected to prevent eviction" | a get marks and returns an entry that the eviction under way has already listed (line 151) | `Admission.cfg` |
| `StagingKeepsProduction` | `skill_registry.py:7` | a GREEN version replaces the BLUE one under its id (line 103) | `Admission.cfg` |
| `CriticalAreSigned` | `README.md:263`, "must carry a valid ECDSA signature" | the schema asks for some text and only an enforcing registry verifies it (`skill_registry.py:88`) | `Admission.cfg` with `EnforceSignatures` FALSE |
| `SignedAreAdmitted` | `README.md:257`, `sign_skill(skill)` | the registry verifies the dump of the schema, in which defaults appear that the signed document left out | `Admission.cfg` with a signature of the `"document"` |
| `IntactChainVerifies` | `audit_logger.py:94`, "Return True if the entire in-memory chain is intact" | `verify_chain` starts from the genesis hash (line 96), and `log` removed the entry that carries it once the log outgrew its ring | `AuditLog.cfg` |
| `NoApprovalPastSla` | `audit_logger.py:159` | `approve` looks at no SLA (line 229) | `ShadowRepair.cfg` |
| `ParityIsVerified` | `auto_repair.py:7` | without a production output or an executor nothing is compared (line 195), and the reviewers see a score of 1.0 (line 218) | `ShadowRepair.cfg` |
| `OnlyNotFoundRaised` | `l1_discovery.py:173` | a key that was in the cache is gone when it is read (line 177); the walk meets a new id (line 183) | `L1Discovery.cfg` |
| `RenamedAreRedirected` | `l1_discovery.py:8` | registering an alias does not clear the cache (line 68) | `L1Discovery.cfg` |
| `LightestDropped` | `token_predictor.py:99` | the loop fills the budget from the lightest up, so the heaviest are left over (line 125) | `L3Execution.cfg` |
| `OnlyEssentialsOverrun` | `l2_instruction.py:88` | the safety buffer is not in the pruning budget (`token_predictor.py:111`) | `L3Execution.cfg` |
| `ReloadReservesMore` | `l2_instruction.py:120` | the reload drops the tokens the request has used (line 128), which may be more than it adds | `L3Execution.cfg` |
| `AppliedAsLoaded` | `l3_executor.py:9`, "any modification between load and run" | the first hash is computed at the run, over what the contents are by then | `L3Execution.cfg` |
| `EmptySkillsRun` | `engine.py:223`, "treat as empty skill" | the executor raises for a skill without contents (`l3_executor.py:128`) | `L3Execution.cfg` |
| `BudgetCoversBids` | `DRM_QAQC_TestResults.md:54` | nothing is reserved when a bid is made (`main.py:240`) | 6 handlers, 6 tasks, no restart |
| `RefundsOnlyReturn` | `DRM_QAQC_TestResults.md:67` | half of a bid that was never taken is added (`main.py:262`) | `AgentOrchestrator.cfg` |
| `BlockSticks` | `ALGA_TestResults.md:35` | the block belongs to the object; an agent registered anew has none (`main.py:387`) | `AgentOrchestrator.cfg` |
| `StoredTrustIsCurrent` | `Fix_Report.md:165` | `update_trust` changes the object and not the row (`main.py:263`) | `AgentOrchestrator.cfg` |
| `WritersAreNoticed` | `db.py:166`, "a concurrent writer modified the row first" | the upsert and the archive change the row and not its version (lines 188, 208) | `BackendStore.cfg` |
| `UpdatesAreSafe` | `README.md:37`, "concurrent trust-score updates are safe" | a version that was read is rolled back, and given a second time to another update (`db.py:135`) | `BackendStore.cfg` |
| `EventsHaveRows` | `README.md:33`, "Agent state, audit events ... persist" | a registration whose row fails leaves the agent in memory (`main.py:390`), and overriding it writes an event (line 415) | `BackendStore.cfg` |
| `LimitInAnyMinute` | `README.md:38`, "60 req/min sliding window" | a restart empties the dict (`main.py:47`) in the middle of one | `BackendStore.cfg` |
| `AgentsPersist` | `README.md:33`, "Agent state ... persist" | a registration whose row fails stays in memory, and no start loads rows | `BackendStore.cfg` |
| `AgentsSurviveRestart` | `Fix_Report.md:161` | `lifespan` loads nothing (`main.py:289`) | `AgentOrchestrator.cfg` |

**Bounds.** Thresholds above 1 separate "one failure", "in a row" and "enough"; a threshold of 1
appears only where the question is another. The clock of a breaker stops at its timeout and its
failure count at `CountCap`: the code compares them with the timeout and the threshold and nothing
else, so what lies beyond cannot be observed; the same holds for the ages of the rate limiter and
the access counts of the registry. `LogBound`, `EditBound`, `UpdateBound`, `RejectBound`,
`RestartBound`, `StartBound`, `LateBound`, `ChangeBound`, `AliasBound`, `VersionBound`, `LastTick` and the pools of objects,
requests and tasks bound how often something happens in a behaviour; `IdsLeft` keeps an id for each
repair under way, since ids never run out in the code. Each bound is above what the shortest
interesting behaviour takes (an eviction under a walk, a reset under two callers, a registration
while a request runs, an edit between the two hashes, an update of a row read before a failed
commit and another client's update, a get that counts and protects between an eviction's listing and
its deletion, a restart in the middle of a full window). One agent row is enough for `backend_store`: rows are
independent and share only the transaction, which the trail and the telemetry commit too; the
theorems cover any number. Symmetry is used where a configuration gives interchangeable model
values to threads, names, objects or tasks, and never in a run with a liveness property. The `VIEW` of `engine` takes
two spellings of a prompt for one once the skill is found, when nothing tells them apart any more.

**Fairness.** `CircuitBreaker` assumes `WF(Tick)`: time passes whatever callers do; nothing is
assumed of callers, who may never report. `AgentOrchestrator`, for `RunsAnswer`, assumes that the event loop resumes
each handler that can go on, which is what asyncio does with a timer that has fired or a coroutine
that has not suspended. No other specification needs fairness.

## 4. Proofs

Eight proof modules hold for every value of the constants that the named assumptions of the modules
admit. The assumptions say what kind of value a constant is, that the markers (`Nothing`, `None`,
`NoRow` and the like) are none of the values they stand beside, and what is listed below.

- **`CircuitBreakerProofs`**: `TypeCorrect`, `CountersCorrect`, `PileUpsTrip` and
  `ContractKept`. `CountersAgree` is not
  inductive: `record_failure` tests only the counter, so one also needs that the counter is
  at the threshold throughout OPEN and HALF_OPEN, that success_count is short of its threshold in
  a trial, and types within the caps. `Consistent` says this of the record; each method keeps it,
  whoever calls it and in whatever order, so the proof does not depend on the callers at all.
  From `BreakerAssumption` (positive thresholds, a cap at or above the failure threshold).
  `PileUpsTrip` charges each failure counted since the last success to a caller that is still
  reloading, so the count reaches the threshold only with that many of them; it bounds no callers.
  `ContractKept` is the refinement of `BreakerContract`. Its invariant (`Tell`) says what the
  counters mean: while closed, `failure_count` is the length of the run of failures at the end of
  the outcomes heard (`Trailing`); in a trial, `success_count` is how many there are. Then the
  code's test of a counter is the contract's test of a run (`RunIsCount`), whichever callers
  reported the outcomes and however late, and each action maps to one of the contract or to none.
- **`GuardsProofs`**: `OneBreakerEach`, `ResetsForget`, `AbortsAreLoops`, `LoopsEnd`. An object is
  installed once and for one name, so whoever fetched since the last reset holds what is in the
  table and everybody else something that never comes back (`Holders`); this is stronger than
  `OneBreakerPerName`, which compares callers only. The intent theorems are for any number of
  threads on any sessions. A deque ends with what its session said last to it, whichever threads did
  (`Memory`), and a thread that tests its deque has appended to it (`Recorders`). What the properties exempt, appends
  divided between two deques, is what the code does not count.
- **`EngineProofs`**: `SkillsFailAlone`, `AnswersStayPermitted`. Neither property mentions what it
  needs: that a request past its policy check carries an entry that permits its region (`Sound`),
  through all steps that other requests and registrations fall between, and that each cached output
  suits every request with its key (`Stock`). Of all three kinds of breakers: `BreakersAlwaysAgree`,
  `SessionsFailAlone`, `LoadersFailAlone`, and the types, `EngineTypeCorrect`. `Consistent` of
  `CircuitBreakerProofs` holds here too, because the record methods keep it in whatever order the
  pipeline calls them. `OnlyPileUpsShutLoaders` carries `PileUpsTrip` over to the pipeline, for a
  skill whose pruned reloads fit (`ReloadsFit`, which `ReloadAlwaysRecovers` of `ExecutionProofs` shows
  of the loader where instructions leave the headroom and are not edited under it): while the breaker
  is closed, the failures counted against its loader are at most the threads now reloading it
  (`Backed`). It bounds no threads: with as many as the threshold the breaker does open although
  every one of them recovers, and this is then the only way it opens. And, of the store behind the caches,
  `CacheTypeCorrect`, `RecentKeysStay` and `CacheContractKept`, the refinement of `CacheContract`.
  The invariant (`CacheInv`) is that the entries are in the order of the history of uses
  (`InUseOrder`): whatever is evicted was used before as many others as the store holds.
- **`AuditLogProofs`**: `ChainIsLinked`, `CopiesAreRings`, `WalksFindEdits`, `GrowingLogsVerify`
  and the types, `LogTypeCorrect`. The first invariant adds who holds the lock,
  where `_last_hash` is in each of log()'s three steps, and that the ring is over its size only
  inside the lock. Lemmas: appending, dropping the head and editing a body keep a list linked.
  The walk of `verify_chain` needs events that are numbered (`NumInv`) and a case distinction that
  is inductive (`WalkInv`): an edit that was there at the start is still ahead of the index, and
  not in the entry log() has in its hands, or evictions have carried it past the index, and then the
  entry at the index does not follow the hash the walk carries, now or later (`Overtaken`).
- **`ShadowRepairProofs`**, of `Approval`: `TypeCorrect`, `ApprovalsAreAlwaysCool`,
  `EscalationsAreAlwaysDue`,
  `DecisionsAlwaysStand`, `TrailAlwaysAccounts`. The invariant adds that a clock value read by
  `check_sla` is not in the
  future and ties each status to the times a request in it must have; the action property follows
  from the same invariant. The trail counts threads that owe an event, which is why
  `ApprovalAssumption` has finitely many.
  Of `ShadowRepair`: `RepairKeepsWorkflow` (repairs over the workflow implement `Approval`,
  so the theorems above hold under repairs, `RepairsAreAlwaysCool` for one),
  `RequestsAreAlwaysEarned`, `OutcomesAreAlwaysKnown` and `RepairTypeCorrect`. The invariants say what an attempt has
  proved by the time it is in
  each stage, that no id is asked for twice, because a request never leaves the workflow, that an
  attempt under way has one thread and no more (`RunsAlone`, `Manned`) and that nobody else owes the event of its submission
  (`SubmissionsHeld`).
- **`ExecutionProofs`**, of `TokenBudget`: `TypeCorrect`, `ReloadAlwaysRecovers`,
  `DroppedNeverFits`. The invariant
  bounds what the rounding of each count can hide by one token for each text kept (`Rounding`),
  the total by the room (`Bounded`), and compares what was dropped with what has been committed
  (`Dropped`), each for the texts that are still as they were counted (`Fresh`). From `BudgetAssumption` and `HeadroomAssumption`, without which the reload could
  fail: it holds for the engine's window and reserve up to 575 instructions.
  Of `L3Execution`: `AppliedAreAlwaysHashed`, `ExecutorTypeCorrect` and `ExecutorKeepsLoader` (so the theorems on
  `TokenBudget` hold under the executor and under edits). The invariant counts the edits of one
  piece since the first hash: one if it now differs from the hashed content, two if it was read
  differently and is as hashed again.
  Of `L1Discovery`: `CacheStaysCurrent`, `CandidatesAreBest`, `RenamesAlwaysEnd` and the types,
  `DiscoveryTypeCorrect`. A retrieval that no change fell into has, at each turn of its walk, the relevant entries it has passed (`UpToDate`);
  what `Chosen` makes of them does not matter. `CandidatesAreBest` needs the loop over the sorted
  list: a counterexample to its invariant (`GoodAfter`) would have a least turn (`LeastNumber`), and
  the folds and recursive functions exist because their finite beginnings do (`FoldExists`,
  `Iteration`). The list is sorted by ranks, a finite injection onto the places
  (`SortedRows`). That a candidate's row can be found by its id takes `EntriesInv`: an entry that a
  walk came to lies where the index has its id, for a dict never moves a key. `RenamesAlwaysEnd`
  counts: a path of more ids than there are has passed one twice (`PathsEnd`), so the loop has
  stopped by then. From `DiscoveryAssumption`: finitely many ids, scores from 0 to 100.
- **`AdmissionProofs`**: `AdmittedAreAlwaysSigned`, `AdmissionKeepsRegistry` (admission implements
  `SkillRegistry`), `P0IsNeverPurged`, `EvictionsAreFair`, `ServedAlwaysStay` and the types of both,
  `AdmissionTypeCorrect`. The first follows
  a schema from its construction to the
  table; the third needs that what is collected is what nothing refers to, that a P0 entry is
  protected from its creation on, and that no operation takes the protection away
  (`Protection`). `EvictionsAreFair` needs what the steps of an
  eviction know (`Listing`): its list and its keys are of entries in the table, and those that no get
  was busy with when it began are still as it read them, because lookups wait for the lock.
  `ServedAlwaysStay` has an invariant about lost updates (`Uses`): until a get
  protects an entry, its counter, and every value a get has read from it, is at most the number of
  gets that have counted it and not yet returned. So the first to compare finds it below the threshold
  unless as many as the threshold hold it; neither theorem bounds the threads. From
  `SkillRegistryAssumption`, `NothingAssumption` and `AdmissionAssumption`.
- **`BackendProofs`**, of `AgentOrchestrator`: `TasksAreRunOnce`, `QueuedStayRegistered`,
  `LowTrustEnds`, `OrchestratorTypeCorrect`. A task is in the heap, with a handler or answered, and in one of them only
  (`OnePlace`); agents leave the registry only with the heap empty, which holds because the budget
  stays positive (`Agency`): nothing is ever taken from it.
  Of `AgentDb`: `DbTypeCorrect`, `UpdatesAreNeverLost`, `TrailAlwaysNamesAgents`. The invariant
  compares the version each client has read with the row's in the open transaction and on disk (`Behind`),
  and the events of both tables with their rows and with `unstored`. From `DbAssumption`.
  Of `BackendStore`: `StoreKeepsDb` (the composition with the rate limiter implements `AgentDb`),
  `LimitHolds` and `RefusalsAreOwn`. The history `recent` counts, for every a, the requests of the
  last a ticks; the invariant is that these are the last ones of the deque (`Counted`), so that
  popping from the left leaves those that count; what got through in earlier processes is at most the
  limit for each restart since (`EarlierInv`).

**Model-checked only.** `WindowEnds` and `RunsAnswer` are liveness, which the prover does not do.
Every other property of the passing runs is stated by a theorem.

## 5. Not modelled, and why

- Key handling, the signature arithmetic and the field formats of schemas: library cryptography
  and regular expressions without state. What a signature covers and when it is checked is
  `Admission`.
- The firewall's regular expressions are text processing; which texts match is a parameter.
- The vault reads an environment variable or a file on each call and keeps nothing.
- The Node pipeline with its Redis bridge and the React storage hook are a demonstration that shares
  no state with the Python code; their only state belongs to libraries.
- Configuration, charts, SQL schema and scripts are not programs.
- `check_depth` and `check_chain_length` are stateless, and nothing in the sources calls them.
  `agent_market`, the recursion heatmap and the validation history are reported or weigh a random
  outcome that the model leaves free. `GET /agents` walks the registry on another thread and can
  raise; it changes nothing. Dicts that keep an entry for every session or address they ever saw
  grow without a wrong answer.

## 6. What could follow

The operations of the engine and of the backend are modelled (sections 2 to 4), and of the
properties that the runs check every one is proved that the prover can reach. What could be proved
next: that `Guards` keeps its types (`TypeOK` of
`BreakerRegistry` and `LoopTypeOK`). It needs of each breaker what `Consistent` says, and that a
name is reset at most as often as there are objects made.
