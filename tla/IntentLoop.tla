----------------------------- MODULE IntentLoop -----------------------------
(***************************************************************************)
(* Intent-loop detection: record_intent of the CircuitBreakerRegistry in   *)
(* src/src/execution/circuit_breaker.py.  It takes no lock.  Fetching the  *)
(* session's deque from the defaultdict, appending to it and testing it    *)
(* are separate steps, and a miss runs the factory before the new deque is *)
(* stored, so two threads can both miss and the later store wins.          *)
(***************************************************************************)
EXTENDS Naturals, SequencesExt

CONSTANTS Threads, Sessions, Intents,
          LoopThreshold    \* INTENT_LOOP_THRESHOLD

ASSUME IntentAssumption == LoopThreshold \in Nat \ {0}

NoDeque == <<>>
Deques  == Threads \X Sessions   \* <<t, s>>: the one t made when it missed s

VARIABLES history,  \* the defaultdict: each session's deque, or NoDeque
          deque,    \* the contents of every deque ever made
          call,     \* each thread's request and the deque it holds
          at,       \* where each thread is in record_intent
          said      \* history: the last appends for each session, and to which deque

loopVars == <<history, deque, call, at, said>>

MaxLenShort == LoopThreshold - 1   \* mutant: too short to ever hold a loop

MaxLen == LoopThreshold + 1   \* the deque's maxlen

Calls == [session : Sessions, intent : Intents, holds : Deques \cup {NoDeque}]

LoopTypeOK ==
  /\ history \in [Sessions -> Deques \cup {NoDeque}]
  /\ \A d \in Deques : deque[d] \in Seq(Intents) /\ Len(deque[d]) <= MaxLen
  /\ \A t \in Threads : at[t] # "idle" => call[t] \in Calls
  /\ at \in [Threads -> {"idle", "missed", "append", "check"}]
  /\ \A s \in Sessions : Len(said[s]) <= LoopThreshold + 1

LoopInit ==
  /\ history = [s \in Sessions |-> NoDeque]
  /\ deque = [d \in Deques |-> <<>>]
  /\ call = [t \in Threads |-> NoDeque]
  /\ at = [t \in Threads |-> "idle"]
  /\ said = [s \in Sessions |-> <<>>]

-----------------------------------------------------------------------------
\* deque(maxlen=...).append
Pushed(s, x) == IF Len(s) = MaxLen THEN Append(Tail(s), x) ELSE Append(s, x)

\* As much of what a session said as the properties look at.
Recent(s) == IF Len(s) > LoopThreshold + 1 THEN Tail(s) ELSE s

AllAlike(s) == Cardinality(Range(s)) = 1

LoopFoundAnywhere(s) == Len(s) >= LoopThreshold   \* mutant: the set() test is lost

\* The condition under which record_intent raises IntentLoopError.
LoopFound(s) == Len(s) >= LoopThreshold /\ AllAlike(s)

\* self._intent_history[session_id]
Lookup(t, s, i) ==
  /\ at[t] = "idle"
  /\ call' = [call EXCEPT ![t] = [session |-> s, intent |-> i, holds |-> history[s]]]
  /\ at' = [at EXCEPT ![t] = IF history[s] = NoDeque THEN "missed" ELSE "append"]
  /\ UNCHANGED <<history, deque, said>>

\* The factory's deque is stored whether or not another thread stored one meanwhile.
StoreNew(t) ==
  LET d == <<t, call[t].session>>
  IN  /\ at[t] = "missed"
      /\ history' = [history EXCEPT ![call[t].session] = d]
      /\ call' = [call EXCEPT ![t].holds = d]
      /\ at' = [at EXCEPT ![t] = "append"]
      /\ UNCHANGED <<deque, said>>

AppendIntent(t) ==
  LET s == call[t].session
      i == call[t].intent
  IN  /\ at[t] = "append"
      /\ deque' = [deque EXCEPT ![call[t].holds] = Pushed(@, i)]
      /\ said' = [said EXCEPT ![s] = Recent(Append(@, [intent |-> i, to |-> call[t].holds]))]
      /\ at' = [at EXCEPT ![t] = "check"]
      /\ UNCHANGED <<history, call>>

Leave(t) == /\ at' = [at EXCEPT ![t] = "idle"]
            /\ call' = [call EXCEPT ![t] = NoDeque]
            /\ UNCHANGED <<history, deque, said>>

Abort(t) == at[t] = "check" /\ LoopFound(deque[call[t].holds]) /\ Leave(t)
Pass(t)  == at[t] = "check" /\ ~LoopFound(deque[call[t].holds]) /\ Leave(t)

LoopNext == \E t \in Threads :
          \/ \E s \in Sessions, i \in Intents : Lookup(t, s, i)
          \/ StoreNew(t) \/ AppendIntent(t) \/ Abort(t) \/ Pass(t)

LoopSpec == LoopInit /\ [][LoopNext]_loopVars

-----------------------------------------------------------------------------
(* Properties *)

\* The append of the session s that had j others after it.
Ago(s, j) == said[s][Len(said[s]) - j]

\* The session's last n appends there are, all with one intent, and all to the deque d.
InARow(s, n) == n <= Len(said[s]) /\ \A j \in 0..n - 1 : Ago(s, j).intent = Ago(s, 0).intent
InOne(s, n, d) == \A j \in 0..n - 1 : Ago(s, j).to = d

\* The docstring of record_intent: IntentLoopError says that an intent was seen
\* INTENT_LOOP_THRESHOLD times in a row in its session.  So it was, unless the session's
\* first requests have made two deques and the last ones are divided between them.
AbortMeansLoop ==
  [][\A t \in Threads : Abort(t) =>
       LET s == call[t].session
       IN  /\ LoopThreshold <= Len(said[s])
           /\ InOne(s, LoopThreshold, call[t].holds) => InARow(s, LoopThreshold)]_loopVars

\* One more than the threshold in a row in one deque never gets through, whatever other
\* threads append: the whole deque is alike.
NoLoopOutlivesTheDeque ==
  [][\A t \in Threads : Pass(t) =>
       LET s == call[t].session
       IN  ~(InARow(s, LoopThreshold + 1) /\ InOne(s, LoopThreshold + 1, call[t].holds))]_loopVars

-----------------------------------------------------------------------------
(* Claims of the repository that the code does not keep: see the README. *)

\* circuit_breaker.py:17: "3 identical intents -> abort".
ThresholdInARowAborts ==
  [][\A t \in Threads : Pass(t) => ~InARow(call[t].session, LoopThreshold)]_loopVars

\* The same of a session that has said nothing else: of two first requests each stores a
\* deque, and what is in the first one is not counted.
FirstRequestsCount ==
  [][\A t \in Threads : Pass(t) => ~InARow(call[t].session, LoopThreshold + 1)]_loopVars

\* The docstring of record_intent: the intent of the request that is aborted was seen
\* INTENT_LOOP_THRESHOLD times in a row.  The test looks at what other threads appended.
OwnIntentAborts ==
  [][\A t \in Threads : Abort(t) => /\ InARow(call[t].session, LoopThreshold)
                                    /\ Ago(call[t].session, 0).intent = call[t].intent]_loopVars
=============================================================================
