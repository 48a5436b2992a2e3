-------------------------- MODULE BreakerRegistry --------------------------
(***************************************************************************)
(* CircuitBreakerRegistry of src/src/execution/circuit_breaker.py: names   *)
(* mapped to breaker objects under one lock, objects that outlive their    *)
(* entry.  reset puts a new object in the table while calls that fetched   *)
(* the old one are still under way, and those go on reporting to it.       *)
(***************************************************************************)
EXTENDS Breaker, FiniteSets

CONSTANTS Callers, Names,
          Objects,    \* identities of breaker objects: the pool that can be made
          NoObject

ASSUME RegistryAssumption == NoObject \notin Objects

VARIABLES breakers,  \* _breakers: the object each name maps to
          stats,     \* the record of each object that exists
          pc,        \* where each caller is: "idle", "fetched" or "calling"
          holds,     \* the [name, object] each caller fetched
          resets     \* history: how often each name was reset

vars == <<breakers, stats, pc, holds, resets>>

Made == DOMAIN stats

Holding == [name : Names, object : Objects, since : 0..Cardinality(Objects)]

TypeOK ==
  /\ Made \subseteq Objects
  /\ stats \in [Made -> BreakerStats]
  /\ breakers \in [Names -> Made \cup {NoObject}]
  /\ pc \in [Callers -> {"idle", "fetched", "calling"}]
  /\ \A c \in Callers : pc[c] # "idle" => holds[c] \in Holding /\ holds[c].object \in Made

Init ==
  /\ breakers = [n \in Names |-> NoObject]
  /\ stats = [o \in {} |-> NewStats]
  /\ pc = [c \in Callers |-> "idle"]
  /\ holds = [c \in Callers |-> NoObject]
  /\ resets = [n \in Names |-> 0]

-----------------------------------------------------------------------------
\* self._breakers[name] = CircuitBreaker(name)
Install(n, o) ==
  /\ o \notin Made
  /\ stats' = [x \in Made \cup {o} |-> IF x = o THEN NewStats ELSE stats[x]]
  /\ breakers' = [breakers EXCEPT ![n] = o]

HoldsNow(c, n, o) == holds' = [holds EXCEPT ![c] = [name |-> n, object |-> o, since |-> resets[n]]]

GetOrCreateUnchecked(c, n) ==   \* mutant: the name is not looked up again under the lock
  /\ pc[c] = "idle"
  /\ \E o \in Objects : Install(n, o) /\ HoldsNow(c, n, o)
  /\ pc' = [pc EXCEPT ![c] = "fetched"] /\ UNCHANGED resets

GetOrCreate(c, n) ==
  /\ pc[c] = "idle"
  /\ \/ /\ breakers[n] # NoObject
        /\ HoldsNow(c, n, breakers[n])
        /\ UNCHANGED <<breakers, stats>>
     \/ /\ breakers[n] = NoObject
        /\ \E o \in Objects : Install(n, o) /\ HoldsNow(c, n, o)
  /\ pc' = [pc EXCEPT ![c] = "fetched"]
  /\ UNCHANGED resets

Done(c) == /\ pc' = [pc EXCEPT ![c] = "idle"]
           /\ holds' = [holds EXCEPT ![c] = NoObject]

\* assert_closed on the object the caller holds
AssertClosed(c) ==
  LET o == holds[c].object
  IN  /\ pc[c] = "fetched"
      /\ stats' = [stats EXCEPT ![o] = CallAllowed(@)]
      /\ \/ /\ MayCall(stats[o])
            /\ pc' = [pc EXCEPT ![c] = "calling"] /\ UNCHANGED holds
         \/ ~MayCall(stats[o]) /\ Done(c)
      /\ UNCHANGED <<breakers, resets>>

Record(c, b) ==
  /\ pc[c] = "calling" /\ Done(c)
  /\ stats' = [stats EXCEPT ![holds[c].object] = b]
  /\ UNCHANGED <<breakers, resets>>

Succeed(c) == Record(c, RecordSuccess(stats[holds[c].object]))
Fail(c)    == Record(c, RecordFailure(stats[holds[c].object]))

ResetInPlace(n) ==   \* mutant: reset clears the object instead of replacing it
  /\ breakers[n] # NoObject
  /\ resets[n] < Cardinality(Objects)
  /\ stats' = [stats EXCEPT ![breakers[n]] = NewStats]
  /\ resets' = [resets EXCEPT ![n] = @ + 1]
  /\ UNCHANGED <<breakers, pc, holds>>

\* The pool of objects bounds the resets of a behaviour.
Reset(n) ==
  /\ breakers[n] # NoObject
  /\ \E o \in Objects : Install(n, o)
  /\ resets' = [resets EXCEPT ![n] = @ + 1]
  /\ UNCHANGED <<pc, holds>>

Tick ==
  /\ \E o \in Made : ~WindowElapsed(stats[o])
  /\ stats' = [o \in Made |-> Aged(stats[o])]
  /\ UNCHANGED <<breakers, pc, holds, resets>>

Next == \/ \E c \in Callers : \/ \E n \in Names : GetOrCreate(c, n)
                              \/ AssertClosed(c) \/ Succeed(c) \/ Fail(c)
        \/ \E n \in Names : Reset(n)
        \/ Tick

Spec == Init /\ [][Next]_vars

-----------------------------------------------------------------------------
(* Properties *)

Busy(c) == pc[c] # "idle"

\* Callers that fetched the same name between the same two resets share one breaker,
\* and callers of different names never do: failures are neither split nor mixed.
OneBreakerPerName ==
  \A c, d \in Callers :
    Busy(c) /\ Busy(d)
      => (holds[c].object = holds[d].object
            <=> holds[c].name = holds[d].name /\ holds[c].since = holds[d].since)

\* A call that fetched its breaker before a reset cannot change the breaker that the
\* reset installed, however late it reports.
ResetForgets ==
  [][\A c \in Callers, n \in Names :
       (/\ pc[c] = "calling" /\ pc'[c] = "idle"
        /\ holds[c].name = n /\ holds[c].since < resets[n])
         => stats'[breakers[n]] = stats[breakers[n]]]_vars
=============================================================================
