------------------------------- MODULE Engine -------------------------------
(***************************************************************************)
(* The pipeline of src/src/orchestration/engine.py, run by several threads *)
(* over the shared breakers, cache and registry.  A step of a thread is    *)
(* one access to shared state with the local work that follows it.         *)
(*                                                                         *)
(* Composed from Breaker, whose operators are the L1 breaker of each       *)
(* session and the L2 and L3 breakers of each skill.  It takes             *)
(* the decisions of PromptFirewall and PolicyEngine, and other parts as    *)
(* seen through what they promise the pipeline: the output cache forgets   *)
(* keys at any time (CacheContract), an intent loop may abort any request  *)
(* (IntentLoop), the loader and the executor end in any way they can.      *)
(***************************************************************************)
EXTENDS Breaker, PromptFirewall, PolicyEngine

CONSTANTS Threads, Sessions, Skills, Nothing,
          Entries,        \* the entries skills are registered with: slot, region, tags
                          \* and level
          Norm,           \* Norm[p]: the prompt up to case and white space
          Indexed,        \* Indexed[s]: the region s is indexed under at L1, or Nothing;
                          \* the index is fixed here
          Score,          \* Score[<<p, s>>]: "high", "review" or "low" similarity
          FirstRegistry,  \* the registry at the start
          MayOverrun,     \* the skills whose load can exceed the token budget
          UpdateBound     \* how often a skill is registered anew in a behaviour

ASSUME EngineAssumption ==
  /\ MayOverrun \subseteq Skills
  /\ UpdateBound \in Nat
  /\ Indexed \in [Skills -> Regions \cup {GL, Nothing}]
  /\ FirstRegistry \in [Skills -> Entries \cup {Nothing}]
  /\ Score \in [Prompts \X Skills -> {"high", "review", "low"}]

VARIABLES l1, l2, l3,   \* breakers "l1:<session>", "l2:<skill>", "l3:<skill>"
          routes,       \* L1's own cache: the first candidate found for each key, or Nothing
          cache,        \* the output each key is cached with, or Nothing
          registry,     \* the entry each skill is registered with, or Nothing
          call,         \* the request each thread is running, or Nothing
          answer,       \* the EngineResponse the last step gave, or Nothing
          updates       \* how many registrations there were

vars == <<l1, l2, l3, routes, cache, registry, call, answer, updates>>

Tiers == {"firewall", "intent_loop", "L1", "security", "L2", "L3", "circuit_breaker"}

Keys == {Norm[p] : p \in Prompts} \X Regions

\* What the executor returned: for which skill and request it ran, and (history) whether
\* the skill was up for review and which entry the policy check saw.
Outputs == [skill : Skills, asked : {Norm[p] : p \in Prompts}, region : Regions,
            review : BOOLEAN, entry : Entries]

Answers == [tier : Tiers \cup {"ok"}, output : Outputs \cup {Nothing},
            requires_review : BOOLEAN, was_cached : BOOLEAN]

Calls == [pc : {"intent", "cache", "l1", "find", "missed", "found", "fetch", "l2", "load",
                "reload", "l3", "run", "store"},
          session : Sessions, prompt : Prompts, region : Regions,
          top : Skills \cup {Nothing}, review : BOOLEAN, entry : Entries \cup {Nothing}]

Routes == [skill : Skills, review : BOOLEAN]

ASSUME NothingAssumption == Nothing \notin Calls

TypeOK ==
  /\ l1 \in [Sessions -> BreakerStats]
  /\ l2 \in [Skills -> BreakerStats] /\ l3 \in [Skills -> BreakerStats]
  /\ \A k \in Keys : routes[k] # Nothing => routes[k] \in Routes
  /\ \A k \in Keys : cache[k] # Nothing => cache[k] \in Outputs
  /\ \A s \in Skills : registry[s] # Nothing => registry[s] \in Entries
  /\ \A t \in Threads : call[t] # Nothing => call[t] \in Calls
  /\ answer # Nothing => answer \in Answers

Init ==
  /\ l1 = [s \in Sessions |-> NewStats]
  /\ l2 = [s \in Skills |-> NewStats] /\ l3 = [s \in Skills |-> NewStats]
  /\ routes = [k \in Keys |-> Nothing]
  /\ cache = [k \in Keys |-> Nothing]
  /\ registry = FirstRegistry
  /\ call = [t \in Threads |-> Nothing]
  /\ answer = Nothing
  /\ updates = 0

-----------------------------------------------------------------------------
At(t, pc) == call[t] # Nothing /\ call[t].pc = pc

\* t's request becomes c, without an answer yet ...
Proceeds(t, c) == call' = [call EXCEPT ![t] = c] /\ answer' = Nothing

Goes(t, pc) == Proceeds(t, [call[t] EXCEPT !.pc = pc])

\* ... or ends with one.
Replies(t, tier, output, review, cached) ==
  /\ answer' = [tier |-> tier, output |-> output, requires_review |-> review,
                was_cached |-> cached]
  /\ call' = [call EXCEPT ![t] = Nothing]

\* execute() turns every exception of the pipeline into a response of some tier.
Fails(t, tier) == Replies(t, tier, Nothing, FALSE, FALSE)

KeyWithoutRegion(p, g) ==   \* mutant: every region has the same key
  <<Norm[p], CHOOSE r \in Regions : TRUE>>

\* SemanticCache.make_key
Key(p, g) == <<Norm[p], g>>

-----------------------------------------------------------------------------
(* Firewall, intent loop, cache lookup *)

Receive(t, s, p, g) ==
  /\ call[t] = Nothing
  /\ \/ "raised" \in Inspect(p) /\ Fails(t, "firewall")
     \/ /\ Inspect(p) \ {"raised"} # {}   \* whatever the verdict is
        /\ Proceeds(t, [pc |-> "intent", session |-> s, prompt |-> p, region |-> g,
                        top |-> Nothing, review |-> FALSE, entry |-> Nothing])
  /\ UNCHANGED <<l1, l2, l3, routes, cache, registry, updates>>

RecordIntent(t) ==
  /\ At(t, "intent")
  /\ \/ Fails(t, "intent_loop")
     \/ Goes(t, "cache")
  /\ UNCHANGED <<l1, l2, l3, routes, cache, registry, updates>>

\* A hit answers with the cached payload; requires_review keeps its default.
CacheLookup(t) ==
  LET hit == cache[Key(call[t].prompt, call[t].region)]
  IN  /\ At(t, "cache")
      /\ \/ hit = Nothing /\ Goes(t, "l1")
         \/ /\ hit # Nothing
            /\ Replies(t, "ok", hit, FALSE, TRUE)
      /\ UNCHANGED <<l1, l2, l3, routes, cache, registry, updates>>

-----------------------------------------------------------------------------
(* L1: the session's breaker, then the retrieval, then its outcome is recorded. *)

L1Admit(t) ==
  LET s == call[t].session
  IN  /\ At(t, "l1")
      /\ l1' = [l1 EXCEPT ![s] = CallAllowed(@)]
      /\ \/ MayCall(l1[s]) /\ Goes(t, "find")
         \/ ~MayCall(l1[s]) /\ Fails(t, "circuit_breaker")
      /\ UNCHANGED <<l2, l3, routes, cache, registry, updates>>

Candidates(p, g) ==
  {s \in Skills : Indexed[s] \in {GL, g} /\ Score[<<p, s>>] # "low"}

\* candidates[0]: one of the best scores
Best(p, g) ==
  {s \in Candidates(p, g) :
     Score[<<p, s>>] = "review" => \A u \in Candidates(p, g) : Score[<<p, u>>] = "review"}

\* What retrieve puts first: what it found for the key before, or one of the best.
Retrieved(p, g) ==
  IF routes[Key(p, g)] # Nothing
    THEN {routes[Key(p, g)]}
    ELSE {[skill |-> s, review |-> Score[<<p, s>>] = "review"] : s \in Best(p, g)}

Find(t) ==
  LET c == call[t]
  IN  /\ At(t, "find")
      /\ \E r \in Retrieved(c.prompt, c.region) :
           /\ Proceeds(t, [c EXCEPT !.pc = "found", !.top = r.skill, !.review = r.review])
           /\ routes' = [routes EXCEPT ![Key(c.prompt, c.region)] = r]
      /\ UNCHANGED <<l1, l2, l3, cache, registry, updates>>

FindNone(t) ==
  /\ At(t, "find") /\ Retrieved(call[t].prompt, call[t].region) = {}
  /\ Goes(t, "missed")
  /\ UNCHANGED <<l1, l2, l3, routes, cache, registry, updates>>

FoundRecorded(t) ==
  /\ At(t, "found") /\ Goes(t, "fetch")
  /\ l1' = [l1 EXCEPT ![call[t].session] = RecordSuccess(@)]
  /\ UNCHANGED <<l2, l3, routes, cache, registry, updates>>

\* SkillNotFoundError is the only failure recorded.
MissRecorded(t) ==
  /\ At(t, "missed") /\ Fails(t, "L1")
  /\ l1' = [l1 EXCEPT ![call[t].session] = RecordFailure(@)]
  /\ UNCHANGED <<l2, l3, routes, cache, registry, updates>>

\* registry.get and assert_allowed: the slot of the entry is not looked at, nor is the
\* PolicyDecision.
FetchAndCheck(t) ==
  LET c == call[t]
      e == registry[c.top]
  IN  /\ At(t, "fetch")
      /\ \/ e = Nothing /\ Fails(t, "L1")
         \/ e # Nothing /\ ~Permits(e, c.region) /\ Fails(t, "security")
         \/ /\ e # Nothing /\ Permits(e, c.region)
            /\ Proceeds(t, [c EXCEPT !.pc = "l2", !.entry = e])
      /\ UNCHANGED <<l1, l2, l3, routes, cache, registry, updates>>

-----------------------------------------------------------------------------
(* L2: the skill's loader breaker, the load, and the pruned reload. *)

L2Admit(t) ==
  LET s == call[t].top
  IN  /\ At(t, "l2")
      /\ l2' = [l2 EXCEPT ![s] = CallAllowed(@)]
      /\ \/ MayCall(l2[s]) /\ Goes(t, "load")
         \/ ~MayCall(l2[s]) /\ Fails(t, "circuit_breaker")
      /\ UNCHANGED <<l1, l3, routes, cache, registry, updates>>

\* No instructions registered (KeyError): the skill is run empty, nothing is recorded.
LoadMissing(t) ==
  /\ At(t, "load") /\ Goes(t, "l3")
  /\ UNCHANGED <<l1, l2, l3, routes, cache, registry, updates>>

LoadFits(t) ==
  /\ At(t, "load") /\ Goes(t, "l3")
  /\ l2' = [l2 EXCEPT ![call[t].top] = RecordSuccess(@)]
  /\ UNCHANGED <<l1, l3, routes, cache, registry, updates>>

LoadOverruns(t) ==
  /\ At(t, "load") /\ call[t].top \in MayOverrun
  /\ Goes(t, "reload")
  /\ l2' = [l2 EXCEPT ![call[t].top] = RecordFailure(@)]
  /\ UNCHANGED <<l1, l3, routes, cache, registry, updates>>

ReloadFits(t) ==
  /\ At(t, "reload") /\ Goes(t, "l3")
  /\ l2' = [l2 EXCEPT ![call[t].top] = RecordSuccess(@)]
  /\ UNCHANGED <<l1, l3, routes, cache, registry, updates>>

ReloadRaises(t) ==
  /\ At(t, "reload") /\ Fails(t, "L2")
  /\ UNCHANGED <<l1, l2, l3, routes, cache, registry, updates>>

-----------------------------------------------------------------------------
(* L3: the skill's breaker, the execution, its outcome, the cached output. *)

L3Admit(t) ==
  LET s == call[t].top
  IN  /\ At(t, "l3")
      /\ l3' = [l3 EXCEPT ![s] = CallAllowed(@)]
      /\ \/ MayCall(l3[s]) /\ Goes(t, "run")
         \/ ~MayCall(l3[s]) /\ Fails(t, "circuit_breaker")
      /\ UNCHANGED <<l1, l2, routes, cache, registry, updates>>

RunSucceeds(t) ==
  /\ At(t, "run") /\ Goes(t, "store")
  /\ l3' = [l3 EXCEPT ![call[t].top] = RecordSuccess(@)]
  /\ UNCHANGED <<l1, l2, routes, cache, registry, updates>>

RunFailsEverywhere(t) ==   \* mutant: one L3 breaker for all skills
  /\ At(t, "run") /\ Fails(t, "L3")
  /\ l3' = [s \in Skills |-> RecordFailure(l3[s])]
  /\ UNCHANGED <<l1, l2, routes, cache, registry, updates>>

\* The executor returned success=False.
RunFails(t) ==
  /\ At(t, "run") /\ Fails(t, "L3")
  /\ l3' = [l3 EXCEPT ![call[t].top] = RecordFailure(@)]
  /\ UNCHANGED <<l1, l2, routes, cache, registry, updates>>

\* The executor raised: execute() answers, no breaker hears of it.
RunRaises(t) ==
  /\ At(t, "run") /\ Fails(t, "L3")
  /\ UNCHANGED <<l1, l2, l3, routes, cache, registry, updates>>

Store(t) ==
  LET c == call[t]
      o == [skill |-> c.top, asked |-> Norm[c.prompt], region |-> c.region,
            review |-> c.review, entry |-> c.entry]
  IN  /\ At(t, "store")
      /\ cache' = [cache EXCEPT ![Key(c.prompt, c.region)] = o]
      /\ Replies(t, "ok", o, c.review, FALSE)
      /\ UNCHANGED <<l1, l2, l3, routes, registry, updates>>

-----------------------------------------------------------------------------
(* Around the pipeline *)

\* An output expires or is evicted.
CacheForget(k) ==
  /\ answer' = Nothing
  /\ cache[k] # Nothing
  /\ cache' = [cache EXCEPT ![k] = Nothing]
  /\ UNCHANGED <<l1, l2, l3, routes, registry, call, updates>>

\* A skill is registered anew, in either slot.
Register(s, e) ==
  /\ answer' = Nothing
  /\ updates < UpdateBound
  /\ registry' = [registry EXCEPT ![s] = e]
  /\ updates' = updates + 1
  /\ UNCHANGED <<l1, l2, l3, routes, cache, call>>

AllAged(bs) == [x \in DOMAIN bs |-> Aged(bs[x])]

Tick ==
  /\ answer' = Nothing
  /\ l1' = AllAged(l1) /\ l2' = AllAged(l2) /\ l3' = AllAged(l3)
  /\ <<l1, l2, l3>>' # <<l1, l2, l3>>
  /\ UNCHANGED <<routes, cache, registry, call, updates>>

Step(t) ==
  \/ RecordIntent(t) \/ CacheLookup(t)
  \/ L1Admit(t) \/ Find(t) \/ FindNone(t) \/ FoundRecorded(t) \/ MissRecorded(t)
  \/ FetchAndCheck(t)
  \/ L2Admit(t) \/ LoadMissing(t) \/ LoadFits(t) \/ LoadOverruns(t)
  \/ ReloadFits(t) \/ ReloadRaises(t)
  \/ L3Admit(t) \/ RunSucceeds(t) \/ RunFails(t) \/ RunRaises(t) \/ Store(t)

Next ==
  \/ \E t \in Threads :
       Step(t) \/ \E s \in Sessions, p \in Prompts, g \in Regions : Receive(t, s, p, g)
  \/ \E k \in Keys : CacheForget(k)
  \/ \E s \in Skills, e \in Entries : Register(s, e)
  \/ Tick

Spec == Init /\ [][Next]_vars

-----------------------------------------------------------------------------
(* Properties *)

Answered(t) == call[t] # Nothing /\ call'[t] = Nothing

\* A skill's L3 breaker leaves CLOSED only over failures of that very skill: one bad
\* skill never takes another out of service.
TripsAreOwnFault ==
  [][\A s \in Skills :
       (l3[s].state = CLOSED /\ l3'[s].state # CLOSED)
         => \E t \in Threads : At(t, "run") /\ call[t].top = s /\ Answered(t)]_vars

\* Every output handed out, cached ones included, was made for this request's region
\* and for its prompt up to normalisation, by a skill whose entry permitted the region
\* when policy was checked.
OutputsArePermitted ==
  [][\A t \in Threads :
       (Answered(t) /\ answer'.tier = "ok")
         => LET o == answer'.output
            IN  /\ o.region = call[t].region /\ o.asked = Norm[call[t].prompt]
                /\ Permits(o.entry, call[t].region)]_vars

-----------------------------------------------------------------------------
(* Claims of the repository that the code does not keep: see the README. *)

\* l1_discovery.py:7: matches between the two similarity bounds are "flagged for human
\* review"; the answer says so each time such an output is handed out.
ReviewFlagKept ==
  answer # Nothing /\ answer.tier = "ok"
    => answer.requires_review = answer.output.review

\* skill_registry.py:31-32: BLUE is the "Active production slot", GREEN the "Staging slot
\* (shadow)": what production requests run is BLUE.
OnlyBlueRuns ==
  \A t \in Threads : At(t, "run") => call[t].entry.slot = "blue"

\* engine.py:19: "L3 Failure -> isolate skill": the breaker hears of every execution that
\* ends in an L3 failure, those that raise included.
RaisesAreHeard ==
  [][\A t \in Threads :
       (At(t, "run") /\ Answered(t))
         => l3'[call[t].top] = RecordFailure(l3[call[t].top])]_vars

\* engine.py:17: "L1 Failure -> retry with different skill": a request does not fail at L1
\* while another candidate is registered.
OtherCandidatesTried ==
  [][\A t \in Threads :
       (At(t, "fetch") /\ Answered(t) /\ answer'.tier = "L1")
         => \A s \in Candidates(call[t].prompt, call[t].region) : registry[s] = Nothing]_vars

\* prompt_firewall.py:15: "if classification cannot be performed, the request is BLOCKED",
\* in either mode: no prompt that can only be blocked goes through.
BlockedStaysOut ==
  \A t \in Threads : call[t] # Nothing => Verdicts(call[t].prompt) # {"block"}

\* policy_engine.py:108: tags are "used for compliance routing": a request that requires
\* medical compliance is told so, by the flag that an answer has for it.
ComplianceIsFlagged ==
  answer # Nothing /\ answer.tier = "ok" /\ ~answer.was_cached
    => (PolicyDecision(answer.output.entry, answer.output.region).requires_medical_compliance
          => answer.requires_review)
=============================================================================
