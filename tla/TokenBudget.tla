----------------------------- MODULE TokenBudget -----------------------------
(***************************************************************************)
(* Loading a skill's instructions within the context window: the L2 loader *)
(* (src/src/execution/l2_instruction.py), the token predictor it prunes    *)
(* and measures with (src/src/core/token_predictor.py), and the reload the *)
(* engine falls back on when a load overruns.                              *)
(*                                                                         *)
(* Texts are their numbers of words, which is what count_tokens looks at   *)
(* without tiktoken.  The non-prunable instructions are kept and counted   *)
(* as one text, so they are one number.  The loop over the prunable ones   *)
(* is a step for each of them: the loader copies the list and not the      *)
(* dicts in it, so whoever registered them can still edit their contents   *)
(* before they are counted, and between the count and the combined text.   *)
(***************************************************************************)
EXTENDS Integers, FiniteSets

CONSTANTS Instructions,    \* the prunable instructions of the skill
          ContextWindow, ReservedTokens,
          WordCounts,      \* how long a text can be
          Weights,
          ContextTokens,   \* what a request may have used: context_tokens_used
          LateBound,       \* how many pieces are edited after they were counted
          Nothing

\* int(context_window * HARD_CUTOFF_RATIO)
HardLimit == (9 * ContextWindow) \div 10

\* What extra_context_tokens is in the reload after an overrun: aggressive doubles it.
ReloadExtra == 2 * ReservedTokens

\* available in prune_instructions; it may be negative
Available(extra) == HardLimit - (ReservedTokens + extra)

ASSUME BudgetAssumption ==
  /\ IsFiniteSet(Instructions)
  /\ ContextWindow \in Nat /\ ReservedTokens \in Nat
  /\ WordCounts \subseteq Nat /\ Weights \subseteq Nat /\ ContextTokens \subseteq Nat
  /\ LateBound \in Nat /\ Nothing \notin Instructions

\* The reload reserves enough for the safety buffer and for what the rounding of each
\* instruction hides.  It holds for the engine's window of 8192 tokens, of which 512 are
\* reserved, and up to 575 instructions; it does not for a window above 13100.
ASSUME HeadroomAssumption ==
  115 * (Available(ReloadExtra) + Cardinality(Instructions)) < 100 * (HardLimit + 1)

VARIABLES stored,     \* the skill's instructions in _store, or Nothing
          phase,      \* what the pipeline is doing
          extra,      \* extra_context_tokens of the load under way
          left,       \* the prunable instructions still to be considered
          kept,       \* the prunable ones retained
          committed,  \* tokens of what is retained, counted one by one
          words,      \* the length of what is retained, as one text
          late        \* history: the pieces edited since they were counted

vars == <<stored, phase, extra, left, kept, committed, words, late>>

\* The non-prunable instructions are one piece, called Nothing.
Pieces == Instructions \cup {Nothing}

Texts == [words : WordCounts, weight : Weights]
Skills == [fixed : WordCounts, prunable : [Instructions -> Texts]]

ASSUME StoreAssumption == Nothing \notin Skills

Phases == {"idle", "loading", "overrun", "reloading", "loaded", "missing", "raised"}

TypeOK ==
  /\ stored \in Skills \cup {Nothing}
  /\ phase \in Phases
  /\ extra \in Nat /\ committed \in Nat /\ words \in Int
  /\ left \subseteq Instructions /\ kept \subseteq Instructions \ left
  /\ late \subseteq Pieces \ left

Init ==
  /\ stored = Nothing /\ phase = "idle" /\ extra = 0
  /\ left = {} /\ kept = {} /\ committed = 0 /\ words = 0 /\ late = {}

-----------------------------------------------------------------------------
\* count_tokens without tiktoken: 1.3 for each word, and at least one
Count(w) == IF (13 * w) \div 10 > 1 THEN (13 * w) \div 10 ELSE 1

\* int(raw * SAFETY_BUFFER_FACTOR); a product that is whole may come out just below itself.
Predictions(raw) ==
  LET p == (115 * raw) \div 100
  IN  IF raw > 0 /\ (115 * raw) % 100 = 0 THEN {p - 1, p} ELSE {p}

Pruning == phase \in {"loading", "reloading"}

\* Once in a behaviour: a load reads the store once, so a later registration is only
\* another start.
RegisterInstructions(s) ==
  /\ stored = Nothing
  /\ stored' = s
  /\ UNCHANGED <<phase, extra, left, kept, committed, words, late>>

\* prune_instructions up to its loop
StartPruning(e) ==
  /\ extra' = e
  /\ left' = Instructions /\ kept' = {} /\ late' = {}
  /\ committed' = Count(stored.fixed) /\ words' = stored.fixed

Load(e) ==
  /\ ~Pruning /\ phase # "overrun"
  /\ \/ /\ stored = Nothing /\ phase' = "missing"
        /\ UNCHANGED <<extra, left, kept, committed, words, late>>
     \/ stored # Nothing /\ phase' = "loading" /\ StartPruning(e)
  /\ UNCHANGED stored

\* The sort is ascending; equal weights fall in the order of the list, left open here.
Lightest ==
  {i \in left : \A j \in left : stored.prunable[i].weight <= stored.prunable[j].weight}

FitsWithRoom(i) ==   \* mutant: < for <=
  committed + Count(stored.prunable[i].words) < Available(extra)

Fits(i) == committed + Count(stored.prunable[i].words) <= Available(extra)

Consider ==
  /\ Pruning
  /\ \E i \in Lightest :
       /\ left' = left \ {i}
       /\ \/ /\ Fits(i)
             /\ kept' = kept \cup {i}
             /\ committed' = committed + Count(stored.prunable[i].words)
             /\ words' = words + stored.prunable[i].words
          \/ ~Fits(i) /\ UNCHANGED <<kept, committed, words>>
  /\ UNCHANGED <<stored, phase, extra, late>>

\* The dicts that are pruned are the stored ones.
EditText(p, w) ==
  /\ Pruning \/ phase = "overrun"
  /\ Cardinality(late) < LateBound
  /\ \/ /\ p = Nothing
        /\ stored' = [stored EXCEPT !.fixed = w]
        /\ words' = words + w - stored.fixed
     \/ /\ p # Nothing
        /\ stored' = [stored EXCEPT !.prunable[p].words = w]
        /\ words' = IF p \in kept THEN words + w - stored.prunable[p].words ELSE words
  /\ late' = IF p \in left THEN late ELSE late \cup {p}
  /\ UNCHANGED <<phase, extra, left, kept, committed>>

\* predict_tokens on the combined text of what is retained
Measured(fits) ==
  Pruning /\ left = {} /\ \E p \in Predictions(Count(words)) : (p <= HardLimit) = fits

Return ==
  /\ Measured(TRUE)
  /\ phase' = "loaded"
  /\ UNCHANGED <<stored, extra, left, kept, committed, words, late>>

\* TokenBudgetExceededError in load
Overrun ==
  /\ phase = "loading" /\ Measured(FALSE)
  /\ phase' = "overrun"
  /\ UNCHANGED <<stored, extra, left, kept, committed, words, late>>

ReloadAsBefore ==   \* mutant: the reload reserves no more than the load
  /\ phase = "overrun"
  /\ phase' = "reloading" /\ StartPruning(0)
  /\ UNCHANGED stored

\* The engine calls reload_pruned(aggressive=True).
Reload ==
  /\ phase = "overrun"
  /\ phase' = "reloading" /\ StartPruning(ReloadExtra)
  /\ UNCHANGED stored

\* TokenBudgetExceededError in reload_pruned ends the request.
Raise ==
  /\ phase = "reloading" /\ Measured(FALSE)
  /\ phase' = "raised"
  /\ UNCHANGED <<stored, extra, left, kept, committed, words, late>>

Next ==
  \/ \E s \in Skills : RegisterInstructions(s)
  \/ \E e \in ContextTokens : Load(e)
  \/ Consider \/ Return \/ Overrun \/ Reload \/ Raise
  \/ \E p \in Pieces, w \in WordCounts : EditText(p, w)

Spec == Init /\ [][Next]_vars

-----------------------------------------------------------------------------
(* Properties *)

\* A skill is lost to its token budget only if its non-prunable instructions overrun it
\* on their own, or one of the texts that are kept was edited after it was counted: what
\* the prunable ones fill up in a load, the reload leaves free, the safety buffer and the
\* rounding of every single count included.
ReloadRecovers ==
  phase = "raised" /\ late \cap (kept \cup {Nothing}) = {}
    => (115 * Count(stored.fixed)) \div 100 > HardLimit

\* Nothing is pruned for want of room that is there in the end: no instruction that was
\* dropped fits beside those that were kept after it, unless it was edited since.
DroppedWouldNotFit ==
  Pruning /\ left = {} =>
    \A i \in Instructions \ (kept \cup late) :
      committed + Count(stored.prunable[i].words) > Available(extra)

-----------------------------------------------------------------------------
(* Claims of the repository that the code does not keep: see the README. *)

\* token_predictor.py:99: "Prunable instructions are removed in ascending *weight* order
\* (lowest weight first)", and skill_schema.py:52: "higher = kept longer".
LightestDropped ==
  phase = "loaded" =>
    \A i \in kept, j \in Instructions \ kept :
      stored.prunable[j].weight <= stored.prunable[i].weight

\* l2_instruction.py:88: load raises "If even non-prunable instructions exceed the hard token
\* limit."
OnlyEssentialsOverrun ==
  phase = "overrun" => (115 * Count(stored.fixed)) \div 100 > HardLimit

\* l2_instruction.py:120: reload_pruned is a "Reload with more aggressive pruning".
ReloadReservesMore == [][Reload => extra' > extra]_vars
=============================================================================
