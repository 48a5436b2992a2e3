--------------------------- MODULE ExecutionProofs ---------------------------
(***************************************************************************)
(* TokenBudget and L3Execution for every window, reserve, set of           *)
(* instructions, contents and number of edits that leave the headroom      *)
(* HeadroomAssumption asks for.                                            *)
(*                                                                         *)
(* The loader alone: a reload recovers from every overrun that the         *)
(* non-prunable instructions do not cause themselves, and no instruction   *)
(* is dropped for room that is there in the end, up to the texts that are  *)
(* edited after they were counted.  The executor leaves the                *)
(* loader alone, so that holds under it too, and what a success applied is *)
(* what its payload hash covers: the argument counts the edits of one      *)
(* piece since pre_hash, for a content that differs from the hashed one    *)
(* was edited at least once, and one that was read differently and is as   *)
(* hashed again was edited twice.                                          *)
(*                                                                         *)
(* L1Discovery, whose state is its own, for any threads, queries, rows and *)
(* renames: a retrieval that no change of the index falls into has, at     *)
(* every turn of its loop, the relevant ones of the entries it has passed, *)
(* so what it caches is current until the next change.  What it chooses is *)
(* the best of each kind: by induction over the turns of the loop, on a    *)
(* list whose order is that of how many entries are ahead of each.         *)
(* Renames end: by induction over the turns of resolve its path repeats no *)
(* id before its last, so it has an end after as many turns as there are   *)
(* ids.  Inductions are by the least number that is not in a set, which    *)
(* NatLessThanWellFounded and WFMin give, and what a recursive function or *)
(* a fold from the left is follows once one is shown to exist (Iteration,  *)
(* FoldExists).                                                            *)
(***************************************************************************)
EXTENDS L3Execution, L1Discovery, FiniteSetTheorems, TLAPS

-----------------------------------------------------------------------------
(* The loader *)

\* Counting rounds down by less than a token, and is at least one.
LEMMA CountBounds ==
  ASSUME NEW w \in Nat
  PROVE  /\ Count(w) \in Nat /\ Count(w) >= 1
         /\ 13 * w <= 10 * Count(w) + 9
  BY SMT DEF Count

\* A text whose words weigh at most m tokens and a fraction counts at most m.
LEMMA CountAtMost ==
  ASSUME NEW w \in Nat, NEW m \in Nat, m >= 1, 13 * w <= 10 * m + 9
  PROVE  Count(w) <= m
  BY SMT DEF Count

\* A prediction never exceeds the exact product.
LEMMA PredictionAtMost ==
  ASSUME NEW raw \in Nat, NEW p \in Predictions(raw)
  PROVE  p \in Int /\ p <= (115 * raw) \div 100 /\ 100 * p <= 115 * raw
  BY SMT DEF Predictions

\* Nothing that is retained was edited since it was counted.
Fresh == late \cap (kept \cup {Nothing}) = {}

Underway == Pruning \/ phase = "overrun"

\* What is retained was counted: as long as it is as it was then, its own text is longer
\* than the sum of the counts by less than a token for each piece.
Rounding ==
  Underway /\ Fresh
    => words \in Nat /\ 13 * words <= 10 * committed + 9 * (Cardinality(kept) + 1)

\* Beyond the non-prunable instructions nothing is retained that did not fit.
Bounded ==
  Underway => \/ kept = {} /\ words = stored.fixed
              \/ committed <= Available(extra)

\* What was dropped does not fit, and never will, as it was then.
Dropped == Underway => \A i \in Instructions \ (left \cup kept \cup late) : ~Fits(i)

IInv ==
  /\ TypeOK
  /\ Underway => stored \in Skills /\ stored # Nothing /\ committed >= 1
  /\ phase = "raised" => stored # Nothing
  /\ Rounding /\ Bounded /\ Dropped
  /\ phase = "reloading" => extra = ReloadExtra
  /\ ReloadRecovers

\* Nothing is stored and nothing is being pruned at the start.
LEMMA InitInv == Init => IInv
  BY DEF Init, IInv, TypeOK, Phases, Pruning, Underway, Rounding, Bounded, Dropped, ReloadRecovers

\* Starting over with what is stored establishes everything the loop relies on.
LEMMA StartInv ==
  ASSUME IInv, NEW e \in Nat, stored \in Skills, stored # Nothing, StartPruning(e),
         UNCHANGED stored, phase' \in {"loading", "reloading"},
         phase' = "reloading" => e = ReloadExtra
  PROVE  IInv'
<1>1. stored.fixed \in Nat
  BY BudgetAssumption DEF Skills
<1>2. /\ Count(stored.fixed) \in Nat /\ Count(stored.fixed) >= 1
      /\ 13 * stored.fixed <= 10 * Count(stored.fixed) + 9
  BY <1>1, CountBounds
<1>3. TypeOK'
  BY <1>1, <1>2 DEF StartPruning, TypeOK, Phases, IInv
<1>4. Rounding'
  BY <1>1, <1>2, FS_EmptySet DEF StartPruning, Rounding
<1>5. Bounded' /\ Dropped'
  BY DEF StartPruning, Bounded, Dropped
<1> QED
  BY <1>2, <1>3, <1>4, <1>5 DEF IInv, StartPruning, ReloadRecovers, Pruning, Underway

\* One turn of the loop: an instruction is retained or dropped.
LEMMA ConsiderInv == IInv /\ Consider => IInv'
<1> SUFFICES ASSUME IInv, Consider PROVE IInv'
  OBVIOUS
<1>1. PICK i \in Lightest :
        /\ left' = left \ {i}
        /\ \/ /\ Fits(i)
              /\ kept' = kept \cup {i}
              /\ committed' = committed + Count(stored.prunable[i].words)
              /\ words' = words + stored.prunable[i].words
           \/ ~Fits(i) /\ UNCHANGED <<kept, committed, words>>
  BY DEF Consider
<1>2. UNCHANGED <<stored, phase, extra, late>> /\ Pruning /\ Underway
  BY DEF Consider, Underway
<1>3. i \in left /\ i \in Instructions /\ i \notin kept
  BY <1>1 DEF Lightest, IInv, TypeOK
<1> DEFINE w == stored.prunable[i].words
           c == Count(w)
<1>4. w \in Nat
  BY <1>2, <1>3, BudgetAssumption DEF IInv, Skills, Texts
<1>5. c \in Nat /\ c >= 1 /\ 13 * w <= 10 * c + 9
  BY <1>4, CountBounds
<1>6. committed \in Nat /\ words \in Int /\ extra \in Nat
  BY DEF IInv, TypeOK
<1>7. Available(extra) \in Int
  BY <1>6, BudgetAssumption DEF Available, HardLimit
<1>8. \A j \in Instructions : Count(stored.prunable[j].words) \in Nat
  <2> SUFFICES ASSUME NEW j \in Instructions PROVE Count(stored.prunable[j].words) \in Nat
    OBVIOUS
  <2>1. stored.prunable[j].words \in Nat
    BY <1>2, BudgetAssumption DEF IInv, Skills, Texts
  <2> QED
    BY <2>1, CountBounds
<1>9. IsFiniteSet(kept) /\ Cardinality(kept) \in Nat
  BY BudgetAssumption, FS_Subset, FS_CardinalityType DEF IInv, TypeOK
<1>10. CASE Fits(i) /\ kept' = kept \cup {i} /\ committed' = committed + c /\ words' = words + w
  <2>1. TypeOK'
    BY <1>1, <1>2, <1>3, <1>4, <1>5, <1>6, <1>10 DEF IInv, TypeOK
  <2>2. Cardinality(kept') = Cardinality(kept) + 1
    BY <1>3, <1>9, <1>10, FS_AddElement
  <2>3. Rounding'
    <3> SUFFICES ASSUME Fresh'
                 PROVE  /\ words' \in Nat
                        /\ 13 * words' <= 10 * committed' + 9 * (Cardinality(kept') + 1)
      BY DEF Rounding
    <3>0. Fresh
      BY <1>2, <1>10 DEF Fresh
    <3>1. words \in Nat /\ 13 * words <= 10 * committed + 9 * (Cardinality(kept) + 1)
      BY <1>2, <3>0 DEF IInv, Rounding
    <3>2. 13 * (words + w) <= 10 * (committed + c) + 9 * (Cardinality(kept) + 1 + 1)
      BY <3>1, <1>4, <1>5, <1>6, <1>9
    <3> QED
      BY <3>1, <3>2, <2>2, <1>4, <1>10
  <2>4. committed' <= Available(extra)'
    BY <1>2, <1>10 DEF Fits, Available
  <2>5. Dropped'
    <3> SUFFICES ASSUME NEW j \in Instructions, j \notin left', j \notin kept', j \notin late'
                 PROVE  ~Fits(j)'
      BY DEF Dropped
    <3>1. ~Fits(j)
      BY <1>1, <1>2, <1>10 DEF IInv, Dropped
    <3>2. committed + Count(stored.prunable[j].words) > Available(extra)
      BY <3>1, <1>6, <1>7, <1>8 DEF Fits
    <3>3. committed' + Count(stored.prunable[j].words) > Available(extra)
      BY <3>2, <1>5, <1>6, <1>7, <1>8, <1>10
    <3>4. ~(committed' + Count(stored.prunable[j].words) <= Available(extra))
      BY <3>3, <1>5, <1>6, <1>7, <1>8, <1>10
    <3> QED
      BY <3>4, <1>2 DEF Fits, Available
  <2> QED
    BY <2>1, <2>3, <2>4, <2>5, <1>2, <1>5, <1>6, <1>10
       DEF IInv, Bounded, Pruning, Underway, ReloadRecovers
<1>11. CASE ~Fits(i) /\ UNCHANGED <<kept, committed, words>>
  <2>1. TypeOK'
    BY <1>1, <1>2, <1>3, <1>11 DEF IInv, TypeOK
  <2>2. Dropped'
    BY <1>1, <1>2, <1>11 DEF IInv, Dropped, Fits, Available, Pruning, Underway
  <2> QED
    BY <2>1, <2>2, <1>2, <1>11
       DEF IInv, Rounding, Fresh, Bounded, Pruning, Underway, ReloadRecovers, Available
<1> QED
  BY <1>1, <1>10, <1>11

\* A reload that overruns had nothing but the non-prunable instructions to measure.
LEMMA RaiseInv == IInv /\ Raise => IInv'
<1> SUFFICES ASSUME IInv, Raise PROVE IInv'
  OBVIOUS
<1> DEFINE n == Cardinality(Instructions)
           k == Cardinality(kept)
           a == Available(ReloadExtra)
<1>1. phase = "reloading" /\ phase' = "raised" /\ Pruning /\ Underway
      /\ UNCHANGED <<stored, extra, left, kept, committed, words, late>>
  BY DEF Raise, Measured, Underway
<1>a. IInv' \/ Fresh
  BY <1>1 DEF IInv, TypeOK, Phases, Rounding, Bounded, Dropped, Pruning, Underway,
              ReloadRecovers, Fresh
<1> SUFFICES ASSUME Fresh PROVE IInv'
  BY <1>a
<1>2. PICK p \in Predictions(Count(words)) : ~(p <= HardLimit)
  BY DEF Raise, Measured
<1>3. words \in Nat /\ committed \in Nat /\ committed >= 1 /\ stored \in Skills
  BY <1>1 DEF IInv, TypeOK, Rounding
<1>4. Count(words) \in Nat
  BY <1>3, CountBounds
<1>5. p \in Int /\ p <= (115 * Count(words)) \div 100 /\ 100 * p <= 115 * Count(words)
  BY <1>2, <1>4, PredictionAtMost
<1>6. HardLimit \in Nat /\ a \in Int
  BY BudgetAssumption DEF HardLimit, Available, ReloadExtra
<1>7. n \in Nat /\ k \in Nat /\ k <= n
  BY BudgetAssumption, FS_Subset, FS_CardinalityType DEF IInv, TypeOK
<1>8. words = stored.fixed
  <2>1. SUFFICES ASSUME committed <= a PROVE FALSE
    BY <1>1 DEF IInv, Bounded
  <2>2. 13 * words <= 10 * committed + 9 * (k + 1)
    BY <1>1 DEF IInv, Rounding
  <2>3. 13 * words <= 10 * (a + n) + 9 /\ a + n \in Nat /\ a + n >= 1
    BY <2>1, <2>2, <1>3, <1>6, <1>7
  <2>4. Count(words) <= a + n
    BY <2>3, <1>3, CountAtMost
  <2>5. 115 * (a + n) < 100 * (HardLimit + 1)
    BY HeadroomAssumption
  <2> QED
    BY <2>3, <2>4, <2>5, <1>2, <1>4, <1>5, <1>6
<1>9. (115 * Count(stored.fixed)) \div 100 > HardLimit
  BY <1>2, <1>4, <1>5, <1>6, <1>8
<1> QED
  BY <1>1, <1>3, <1>9
     DEF IInv, TypeOK, Phases, Rounding, Bounded, Dropped, Pruning, Underway, ReloadRecovers

\* An edit of a text leaves what was counted as it was; it is fresh no longer if it was.
LEMMA EditInv ==
  ASSUME IInv, NEW p \in Pieces, NEW w \in WordCounts, EditText(p, w)
  PROVE  IInv'
<1>1. /\ Underway /\ stored \in Skills /\ stored # Nothing
      /\ w \in Nat /\ Nothing \notin Instructions
      /\ UNCHANGED <<phase, extra, left, kept, committed>>
      /\ late' = IF p \in left THEN late ELSE late \cup {p}
  BY BudgetAssumption DEF EditText, IInv, Underway
<1>2. stored.fixed \in Nat /\ stored.prunable \in [Instructions -> Texts]
      /\ \A i \in Instructions : stored.prunable[i].words \in Nat
  BY <1>1, BudgetAssumption DEF Skills, Texts
<1>3. CASE p = Nothing
  <2>1. stored' = [stored EXCEPT !.fixed = w] /\ words' = words + w - stored.fixed
    BY <1>3 DEF EditText
  <2>2. /\ stored' \in Skills /\ stored'.fixed = w /\ stored'.prunable = stored.prunable
        /\ words' \in Int
    BY <1>1, <1>2, <2>1 DEF Skills, IInv, TypeOK
  <2>3. p \notin left /\ ~Fresh'
    BY <1>1, <1>3 DEF IInv, TypeOK, Fresh
  <2>4. Bounded'
    BY <1>1, <1>2, <2>1, <2>2 DEF IInv, Bounded, Underway, Pruning, Available
  <2>5. Dropped'
    BY <1>1, <2>2, <2>3 DEF IInv, Dropped, Underway, Pruning, Fits, Available
  <2> QED
    BY <1>1, <2>2, <2>3, <2>4, <2>5, StoreAssumption
    DEF IInv, TypeOK, Rounding, Underway, Pruning, ReloadRecovers
<1>4. CASE p # Nothing
  <2>1. /\ stored' = [stored EXCEPT !.prunable[p].words = w] /\ p \in Instructions
        /\ words' = IF p \in kept THEN words + w - stored.prunable[p].words ELSE words
    BY <1>4 DEF EditText, Pieces
  <2>2. stored' \in Skills /\ stored'.fixed = stored.fixed
    BY <1>1, <1>2, <2>1 DEF Skills, Texts
  <2>3. \A i \in Instructions : i # p => stored'.prunable[i] = stored.prunable[i]
    BY <1>1, <1>2, <2>1 DEF Skills
  <2>4. words' \in Int
    BY <1>1, <1>2, <2>1 DEF IInv, TypeOK
  <2>5. Fresh' => Fresh /\ words' = words
    BY <1>1, <2>1 DEF IInv, TypeOK, Fresh
  <2>6. Rounding'
    BY <1>1, <2>5 DEF IInv, Rounding, Underway, Pruning
  <2>7. Bounded'
    BY <1>1, <2>1, <2>2 DEF IInv, Bounded, Underway, Pruning, Available
  <2>8. Dropped'
    BY <1>1, <2>1, <2>3 DEF IInv, Dropped, Underway, Pruning, Fits, Available
  <2>9. TypeOK'
    BY <1>1, <2>2, <2>4 DEF IInv, TypeOK
  <2>10. stored' # Nothing
    BY <2>2, StoreAssumption
  <2> QED
    BY <1>1, <2>2, <2>6, <2>7, <2>8, <2>9, <2>10
    DEF IInv, Underway, Pruning, ReloadRecovers
<1> QED
  BY <1>3, <1>4

\* Every step keeps the invariant.
LEMMA NextInv == IInv /\ [Next]_vars => IInv'
<1> SUFFICES ASSUME IInv, [Next]_vars PROVE IInv'
  OBVIOUS
<1> USE DEF Phases
<1>1. ASSUME NEW s \in Skills, RegisterInstructions(s) PROVE IInv'
  <2>1. ~Underway /\ phase # "raised"
    BY <1>1 DEF RegisterInstructions, IInv, Underway
  <2> QED
    BY <1>1, <2>1 DEF RegisterInstructions, IInv, TypeOK, Pruning, Underway, Rounding, Bounded,
                      Dropped, ReloadRecovers
<1>2. ASSUME NEW e \in ContextTokens, Load(e) PROVE IInv'
  <2>1. CASE stored = Nothing /\ phase' = "missing"
             /\ UNCHANGED <<stored, extra, left, kept, committed, words, late>>
    BY <2>1 DEF IInv, TypeOK, Pruning, Underway, Rounding, Bounded, Dropped, ReloadRecovers
  <2>2. CASE stored # Nothing /\ phase' = "loading" /\ StartPruning(e) /\ UNCHANGED stored
    <3>1. stored \in Skills /\ e \in Nat
      BY <2>2, BudgetAssumption DEF IInv, TypeOK
    <3> QED
      BY <2>2, <3>1, StartInv
  <2> QED
    BY <1>2, <2>1, <2>2 DEF Load
<1>3. CASE Consider
  BY <1>3, ConsiderInv
<1>4. CASE Return
  BY <1>4 DEF Return, IInv, TypeOK, Pruning, Underway, Rounding, Bounded, Dropped, ReloadRecovers
<1>5. CASE Reload
  <2>1. ReloadExtra \in Nat
    BY BudgetAssumption DEF ReloadExtra
  <2> QED
    BY <1>5, <2>1, StartInv DEF Reload, IInv, Underway
<1>8. CASE Overrun
  BY <1>8 DEF Overrun, Measured, IInv, TypeOK, Pruning, Underway, Rounding, Fresh, Bounded,
              Dropped, Fits, Available, ReloadRecovers
<1>9. ASSUME NEW p \in Pieces, NEW w \in WordCounts, EditText(p, w) PROVE IInv'
  BY <1>9, EditInv
<1>6. CASE Raise
  BY <1>6, RaiseInv
<1>7. CASE UNCHANGED vars
  BY <1>7 DEF vars, IInv, TypeOK, Pruning, Underway, Rounding, Fresh, Bounded, Dropped, Fits,
              ReloadRecovers, Available
<1> QED
  BY <1>1, <1>2, <1>3, <1>4, <1>5, <1>6, <1>7, <1>8, <1>9 DEF Next

\* The loader's working state keeps its types.
THEOREM TypeCorrect == Spec => []TypeOK
<1>1. IInv => TypeOK
  BY DEF IInv
<1> QED
  BY InitInv, NextInv, <1>1, PTL DEF Spec

\* Whatever a skill's instructions are and however many tokens the request has used, the
\* pruned reload fails only if the non-prunable instructions alone overrun the limit, or
\* one of the texts it keeps is edited between its count and the combined text.
THEOREM ReloadAlwaysRecovers == Spec => []ReloadRecovers
<1>1. IInv => ReloadRecovers
  BY DEF IInv
<1> QED
  BY InitInv, NextInv, <1>1, PTL DEF Spec

\* Pruning never drops an instruction that would have fitted in the end, edits before it
\* was counted and of what was kept included.
THEOREM DroppedNeverFits == Spec => []DroppedWouldNotFit
<1>1. IInv => DroppedWouldNotFit
  <2> SUFFICES ASSUME IInv, Pruning, left = {}, NEW i \in Instructions \ (kept \cup late)
               PROVE  committed + Count(stored.prunable[i].words) > Available(extra)
    BY DEF DroppedWouldNotFit
  <2>1. ~Fits(i)
    BY DEF IInv, Dropped, Underway
  <2>2. stored.prunable[i].words \in Nat
    BY BudgetAssumption DEF IInv, Skills, Texts, Underway
  <2>3. Count(stored.prunable[i].words) \in Nat
    BY <2>2, CountBounds
  <2>4. committed \in Nat /\ Available(extra) \in Int
    BY BudgetAssumption DEF IInv, TypeOK, Available, HardLimit
  <2> QED
    BY <2>1, <2>3, <2>4 DEF Fits
<1> QED
  BY InitInv, NextInv, <1>1, PTL DEF Spec

-----------------------------------------------------------------------------
(* The executor *)

Counted ==
  /\ {content, hashed, seen} \subseteq [Pieces -> Contents] /\ edits \in Seq(Pieces)
  /\ left \cup kept \subseteq Instructions
  /\ stage = "rehashing" => unread = {}
  /\ stage \in {"reading", "rehashing"} =>
       /\ \A p \in Pieces : content[p] # hashed[p] => EditsOf(p) >= 1
       /\ \A p \in Loaded \ unread : seen[p] # hashed[p] =>
            EditsOf(p) >= (IF content[p] = hashed[p] THEN 2 ELSE 1)
  /\ AppliedAreHashed

\* Appending an edit of p counts one more for p and no more for the other pieces.
LEMMA AppendCounts ==
  ASSUME edits \in Seq(Pieces), NEW p \in Pieces, edits' = Append(edits, p)
  PROVE  /\ EditsOf(p)' = EditsOf(p) + 1
         /\ \A q \in Pieces : /\ EditsOf(q) \in Nat /\ EditsOf(q)' \in Nat
                              /\ EditsOf(q)' >= EditsOf(q)
<1> DEFINE Of(q) == {n \in DOMAIN edits : edits[n] = q}
<1>1. DOMAIN edits = 1..Len(edits) /\ Len(edits) \in Nat
  OBVIOUS
<1>2. \A q \in Pieces : IsFiniteSet(Of(q)) /\ Cardinality(Of(q)) \in Nat
  <2>1. IsFiniteSet(1..Len(edits))
    BY <1>1, FS_Interval
  <2>2. QED  BY <1>1, <2>1, FS_Subset, FS_CardinalityType
<1>3. \A q \in Pieces :
        {n \in DOMAIN edits' : edits'[n] = q} =
          IF q = p THEN Of(q) \cup {Len(edits) + 1} ELSE Of(q)
  BY <1>1
<1>4. Len(edits) + 1 \notin Of(p)
  BY <1>1
<1>5. Cardinality(Of(p) \cup {Len(edits) + 1}) = Cardinality(Of(p)) + 1
  BY <1>2, <1>4, FS_AddElement
<1>6. \A q \in Pieces : EditsOf(q) = Cardinality(Of(q))
  BY DEF EditsOf
<1>7. \A q \in Pieces :
        EditsOf(q)' = Cardinality(IF q = p THEN Of(q) \cup {Len(edits) + 1} ELSE Of(q))
  BY <1>3 DEF EditsOf
<1> HIDE DEF Of
<1>8. EditsOf(p)' = EditsOf(p) + 1
  BY <1>5, <1>6, <1>7
<1>9. \A q \in Pieces : q # p => EditsOf(q)' = EditsOf(q)
  BY <1>6, <1>7
<1>10. QED  BY <1>2, <1>6, <1>8, <1>9

\* Every step keeps the count: one step per action.
LEMMA Inductive ==
  ASSUME Counted, [L3Next]_<<vars, lvars>>
  PROVE  Counted'
<1>1. CASE Loading
  <2>1. left' \cup kept' \subseteq Instructions
    BY <1>1 DEF Loading, Counted, Next, RegisterInstructions, Load, StartPruning, Consider,
                Lightest, Return, Overrun, Reload, Raise, EditText
  <2>2. QED
    BY <1>1, <2>1 DEF Loading, Counted, AsLoaded, Contents, AppliedAreHashed
<1>2. ASSUME NEW p \in Pieces, Edit(p) PROVE Counted'
  <2>1. PICK c \in Contents \ {content[p]} : content' = [content EXCEPT ![p] = c]
    BY <1>2 DEF Edit
  <2>2. /\ Loaded' = Loaded /\ hashed' = hashed /\ seen' = seen /\ unread' = unread
        /\ stage' = stage /\ stage # "succeeded" /\ edits' = Append(edits, p)
    BY <1>2 DEF Edit, vars, Loaded
  <2>3. content' \in [Pieces -> Contents] /\ edits' \in Seq(Pieces)
    BY <2>1, <2>2 DEF Counted
  <2>4. /\ EditsOf(p)' = EditsOf(p) + 1
        /\ \A q \in Pieces : /\ EditsOf(q) \in Nat /\ EditsOf(q)' \in Nat
                             /\ EditsOf(q)' >= EditsOf(q)
    BY <2>2, AppendCounts DEF Counted
  <2>5. ASSUME stage \in {"reading", "rehashing"}
        PROVE  /\ \A q \in Pieces : content'[q] # hashed'[q] => EditsOf(q)' >= 1
               /\ \A q \in Loaded' \ unread' : seen'[q] # hashed'[q] =>
                    EditsOf(q)' >= (IF content'[q] = hashed'[q] THEN 2 ELSE 1)
    <3>1. \A q \in Pieces \ {p} : content'[q] = content[q]
      BY <2>1 DEF Counted
    <3>2. content'[p] # content[p]
      BY <2>1 DEF Counted
    <3>3. Loaded \subseteq Pieces
      BY DEF Counted, Loaded, Pieces
    <3>4. QED  BY <2>2, <2>4, <2>5, <3>1, <3>2, <3>3 DEF Counted
  <2>6. left' \cup kept' \subseteq Instructions
    BY <1>2 DEF Edit, vars, Counted
  <2>7. QED  BY <2>2, <2>3, <2>5, <2>6 DEF Counted, AppliedAreHashed
<1>3. CASE Execute
  BY <1>3 DEF Execute, Counted, AppliedAreHashed, vars, Loaded
<1>4. ASSUME NEW p \in Pieces, Read(p) PROVE Counted'
  BY <1>4 DEF Read, Counted, AppliedAreHashed, vars, Loaded, EditsOf
<1>5. CASE ReadAll
  BY <1>5 DEF ReadAll, Counted, AppliedAreHashed, vars, Loaded, EditsOf
<1>6. CASE Rehash
  <2>1. stage' = "succeeded" => \A p \in Loaded : content[p] = hashed[p]
    BY <1>6 DEF Rehash
  <2>2. stage' \notin {"reading", "rehashing"} /\ stage = "rehashing"
    BY <1>6 DEF Rehash
  <2>3. QED
    BY <1>6, <2>1, <2>2 DEF Rehash, Counted, AppliedAreHashed, vars, Loaded, EditsOf
<1>7. CASE UNCHANGED <<vars, lvars>>
  BY <1>7 DEF Counted, AppliedAreHashed, vars, lvars, Loaded, EditsOf
<1>8. QED
  BY <1>1, <1>2, <1>3, <1>4, <1>5, <1>6, <1>7 DEF L3Next

-----------------------------------------------------------------------------
\* InProcessL3Executor.execute of src/src/execution/l3_executor.py: a success whose payload
\* hash does not cover a piece as it was applied saw that piece edited and restored.
THEOREM AppliedAreAlwaysHashed == L3Spec => []AppliedAreHashed
<1>1. L3Init => Counted
  BY DEF L3Init, Init, Counted, AsLoaded, Contents, AppliedAreHashed
<1>2. Counted => AppliedAreHashed
  BY DEF Counted
<1>3. QED  BY <1>1, <1>2, Inductive, PTL DEF L3Spec

\* The executor and those who edit contents leave the loader's working state alone: what
\* is proved of Spec above holds of L3Spec.
THEOREM ExecutorKeepsLoader == L3Spec => Spec
<1>1. L3Init => Init
  BY DEF L3Init
<1>2. [L3Next]_<<vars, lvars>> => [Next]_vars
  BY DEF L3Next, Loading, Edit, Read, Execute, ReadAll, Rehash, vars, lvars
<1>3. QED  BY <1>1, <1>2, PTL DEF L3Spec, Spec

\* The executor reads only what is loaded: an edit changes contents, never which pieces
\* there are, and a load comes between two executions.
Staged == unread \subseteq Loaded /\ stage \in Stages

LEMMA StagesKept ==
  ASSUME Staged, [L3Next]_<<vars, lvars>>
  PROVE  Staged'
<1>1. CASE Loading
  BY <1>1 DEF Loading, Staged, Stages
<1>2. ASSUME NEW p \in Pieces, Edit(p) \/ Read(p) PROVE Staged'
  BY <1>2 DEF Edit, Read, Staged, Loaded, vars
<1>3. CASE Execute
  BY <1>3 DEF Execute, Staged, Stages, Loaded, vars
<1>4. CASE ReadAll \/ Rehash
  BY <1>4 DEF ReadAll, Rehash, Staged, Stages, Loaded, vars
<1>5. CASE UNCHANGED <<vars, lvars>>
  BY <1>5 DEF Staged, Loaded, vars, lvars
<1>6. QED  BY <1>1, <1>2, <1>3, <1>4, <1>5 DEF L3Next

\* L3TypeOK: loader and executor keep their types, whoever edits the contents meanwhile,
\* and what execute has still to read is loaded throughout.
THEOREM ExecutorTypeCorrect == L3Spec => []L3TypeOK
<1>1. L3Init => Counted /\ Staged
  BY DEF L3Init, Init, Counted, AsLoaded, Contents, AppliedAreHashed, Staged, Stages
<1>2. TypeOK /\ Counted /\ Staged => L3TypeOK
  BY DEF Counted, Staged, L3TypeOK
<1>3. QED
  BY <1>1, <1>2, Inductive, StagesKept, ExecutorKeepsLoader, TypeCorrect, PTL DEF L3Spec

-----------------------------------------------------------------------------
(* Discovery *)

\* What a retrieval for q finds in the index as it is, and in its first n entries.
Relevant(q) == Part(index, {i \in DOMAIN index : InRegion(index[i], q)})
RelevantUpTo(n, q) == Part(index, {i \in 1..n : InRegion(index[i], q)})

IdsNow(q) == [i \in DOMAIN Chosen(Relevant(q), q) |-> Chosen(Relevant(q), q)[i].id]

Retrieving == {"scan", "rank", "store"}

IsRetrieval(c) ==
  /\ c = [pc |-> c.pc, query |-> c.query, size |-> c.size, pos |-> c.pos,
          scored |-> c.scored, list |-> c.list, stale |-> c.stale]
  /\ c.stale \in BOOLEAN

\* How far a retrieval is that no change of the index has fallen into.
UpToDate(c) ==
  /\ c.size = Len(index)
  /\ c.pc = "scan" => c.pos \in 1..(c.size + 1) /\ c.scored = RelevantUpTo(c.pos - 1, c.query)
  /\ c.pc = "rank" => c.scored = Relevant(c.query)
  /\ c.pc = "store" => Ids(c.list) = IdsNow(c.query)

Listed(d) == Len(d) \in Nat /\ d = [i \in 1..Len(d) |-> d[i]]

DiscoveryInv ==
  /\ Listed(index)
  /\ cache = [k \in Keys |-> cache[k]] /\ call = [t \in Threads |-> call[t]]
  /\ \A t \in Threads :
       call[t].pc \in Retrieving => /\ IsRetrieval(call[t])
                                    /\ ~call[t].stale => UpToDate(call[t])
  /\ CacheIsCurrent

LEMMA CurrentMeans ==
  CacheIsCurrent <=>
    ((\A t \in Threads : call[t].pc # "clear")
       => \A k \in Keys : cache[k] # NoList /\ ~cache[k].stale
                            => Ids(cache[k].list) = IdsNow(cache[k].query))
  BY Zenon DEF CacheIsCurrent, Relevant, IdsNow

LEMMA DiscoveryInitInv == DiscoveryInit => DiscoveryInv
<1> SUFFICES ASSUME DiscoveryInit PROVE DiscoveryInv
  OBVIOUS
<1>1. /\ index = <<>> /\ cache = [k \in Keys |-> NoList] /\ call = [t \in Threads |-> Idle]
      /\ Idle.pc = "idle"
  BY DEF DiscoveryInit, Idle
<1>2. Listed(index)
  BY <1>1 DEF Listed
<1>3. CacheIsCurrent
  BY <1>1, CurrentMeans
<1> QED
  BY <1>1, <1>2, <1>3 DEF DiscoveryInv, Retrieving

\* A dict is a list again when one entry was set.
LEMMA PutListed ==
  ASSUME NEW d, Listed(d), NEW r
  PROVE  Listed(Put(d, r))
<1> DEFINE n == Len(d)
           S == {d[i] : i \in 1..n} \cup {r}
<1>1. n \in Nat /\ d = [i \in 1..n |-> d[i]]
  BY DEF Listed
<1>2. d \in Seq(S) /\ DOMAIN d = 1..n
  <2>1. \A i \in 1..n : d[i] \in S
    OBVIOUS
  <2> HIDE DEF S
  <2>2. d \in [1..n -> S]
    BY <1>1, <2>1
  <2> QED
    BY <1>1, <2>2
<1>3. CASE \E i \in DOMAIN d : d[i].id = r.id
  <2> DEFINE p == [i \in 1..n |-> IF d[i].id = r.id THEN r ELSE d[i]]
  <2>1. Put(d, r) = p
    BY <1>2, <1>3 DEF Put
  <2>2. \A i \in 1..n : p[i] \in S
    OBVIOUS
  <2>3. p \in Seq(S)
    <3> HIDE DEF S
    <3> QED
      BY <1>1, <2>2
  <2> HIDE DEF p, S
  <2>4. Listed(p)
    BY <2>3 DEF Listed
  <2> QED
    BY <2>1, <2>4
<1>4. CASE ~\E i \in DOMAIN d : d[i].id = r.id
  <2>1. Put(d, r) = Append(d, r)
    BY <1>4 DEF Put
  <2>2. r \in S
    OBVIOUS
  <2> HIDE DEF S
  <2> DEFINE p == Append(d, r)
  <2>3. p \in Seq(S)
    BY <1>2, <2>2
  <2> HIDE DEF p
  <2>4. Listed(p)
    BY <2>3 DEF Listed
  <2> QED
    BY <2>1, <2>4 DEF p
<1> QED
  BY <1>3, <1>4

\* A step of one retrieval that leaves index and cache alone.
LEMMA RetrievalInv ==
  ASSUME DiscoveryInv, NEW t \in Threads, NEW c,
         call' = [call EXCEPT ![t] = c], index' = index, cache' = cache,
         call[t].pc # "clear",
         c.pc \in Retrieving => IsRetrieval(c) /\ (~c.stale => UpToDate(c))
  PROVE  DiscoveryInv'
<1>1. /\ \A u \in Threads : call'[u] = IF u = t THEN c ELSE call[u]
      /\ call' = [u \in Threads |-> call'[u]]
  BY DEF DiscoveryInv
<1>2. \A u \in Threads :
        call'[u].pc \in Retrieving => /\ IsRetrieval(call'[u])
                                      /\ ~call'[u].stale => UpToDate(call'[u])
  BY <1>1 DEF DiscoveryInv
<1>3. ASSUME NEW u \in Threads
      PROVE  /\ IsRetrieval(call[u])' <=> IsRetrieval(call'[u])
             /\ UpToDate(call[u])' <=> UpToDate(call'[u])
  BY DEF IsRetrieval, UpToDate, RelevantUpTo, Relevant, IdsNow
<1>4. \A u \in Threads :
        call'[u].pc \in Retrieving => /\ IsRetrieval(call[u])'
                                      /\ ~call'[u].stale => UpToDate(call[u])'
  BY <1>2, <1>3
<1>5. (\A u \in Threads : call'[u].pc # "clear") => \A u \in Threads : call[u].pc # "clear"
  BY <1>1
<1>6. CacheIsCurrent'
  BY <1>5, CurrentMeans DEF DiscoveryInv, CacheIsCurrent
<1> QED
  BY <1>1, <1>4, <1>6 DEF DiscoveryInv, Listed

\* One turn of the loop keeps what was found what it should be.
LEMMA ScanInv ==
  ASSUME DiscoveryInv, NEW t \in Threads, Scan(t)
  PROVE  DiscoveryInv'
<1> DEFINE c == call[t]
           here == {i \in {c.pos} : InRegion(index[i], c.query)}
           passed == [i \in DOMAIN c.scored \cup here |-> IF i \in here THEN index[i] ELSE c.scored[i]]
           next == [c EXCEPT !.pos = @ + 1, !.scored = passed]
<1>1. /\ c.pc = "scan" /\ index' = index /\ cache' = cache
      /\ IsRetrieval(c) /\ (~c.stale => UpToDate(c)) /\ Listed(index)
  BY DEF Scan, Ends, DiscoveryInv, Retrieving
<1>2. \/ call' = [call EXCEPT ![t] = Idle]
      \/ Len(index) = c.size /\ call' = [call EXCEPT ![t] = IF c.pos > c.size THEN [c EXCEPT !.pc = "rank"]
                                                                             ELSE next]
  BY DEF Scan, Ends
<1>3. Idle.pc = "idle"
  BY DEF Idle
<1> HIDE DEF c
<1>4. CASE call' = [call EXCEPT ![t] = Idle]
  BY <1>1, <1>3, <1>4, RetrievalInv DEF c, Retrieving
<1>5. ASSUME c.pos > c.size, Len(index) = c.size, call' = [call EXCEPT ![t] = [c EXCEPT !.pc = "rank"]]
      PROVE  DiscoveryInv'
  <2> DEFINE d == [c EXCEPT !.pc = "rank"]
  <2>1. /\ d = [pc |-> "rank", query |-> c.query, size |-> c.size, pos |-> c.pos,
                scored |-> c.scored, list |-> c.list, stale |-> c.stale]
        /\ c.stale \in BOOLEAN
    BY <1>1 DEF IsRetrieval
  <2> HIDE DEF d
  <2>2. ASSUME ~c.stale PROVE c.scored = Relevant(c.query)
    <3>1. /\ c.size = Len(index) /\ c.pos \in 1..(c.size + 1)
          /\ c.scored = RelevantUpTo(c.pos - 1, c.query)
      BY <1>1, <2>2 DEF UpToDate
    <3>2. DOMAIN index = 1..(c.pos - 1)
      BY <1>1, <1>5, <3>1 DEF Listed
    <3> QED
      BY <3>1, <3>2 DEF Relevant, RelevantUpTo
  <2>3. IsRetrieval(d) /\ (~d.stale => UpToDate(d))
    BY <2>1, <2>2, <1>5 DEF IsRetrieval, UpToDate
  <2> QED
    BY <1>1, <1>5, <2>3, RetrievalInv DEF c, d
<1>6. ASSUME ~(c.pos > c.size), Len(index) = c.size, call' = [call EXCEPT ![t] = next]
      PROVE  DiscoveryInv'
  <2>1. /\ next = [pc |-> "scan", query |-> c.query, size |-> c.size, pos |-> c.pos + 1,
                   scored |-> passed, list |-> c.list, stale |-> c.stale]
        /\ c.stale \in BOOLEAN
    <3> HIDE DEF passed
    <3> DEFINE d == [c EXCEPT !.pos = @ + 1]
    <3>1. /\ d = [pc |-> "scan", query |-> c.query, size |-> c.size, pos |-> c.pos + 1,
                  scored |-> c.scored, list |-> c.list, stale |-> c.stale]
          /\ c.stale \in BOOLEAN
      BY <1>1 DEF IsRetrieval
    <3>2. next = [d EXCEPT !.scored = passed]
      OBVIOUS
    <3> HIDE DEF d, next
    <3> QED
      BY <3>1, <3>2
  <2> HIDE DEF next
  <2>2. ASSUME ~c.stale
        PROVE  c.pos + 1 \in 1..(c.size + 1) /\ passed = RelevantUpTo((c.pos + 1) - 1, c.query)
    <3>1. /\ c.size = Len(index) /\ c.pos \in 1..(c.size + 1) /\ c.size \in Nat
          /\ c.scored = RelevantUpTo(c.pos - 1, c.query)
      BY <1>1, <2>2 DEF UpToDate, Listed
    <3>2. c.pos + 1 \in 1..(c.size + 1) /\ (c.pos + 1) - 1 = c.pos /\ c.pos \in Nat
      BY <1>6, <3>1
    <3>3. /\ DOMAIN c.scored = {i \in 1..(c.pos - 1) : InRegion(index[i], c.query)}
          /\ \A i \in DOMAIN c.scored : c.scored[i] = index[i]
      BY <3>1 DEF RelevantUpTo, Part
    <3>4. DOMAIN c.scored \cup here = {i \in 1..c.pos : InRegion(index[i], c.query)}
      BY <3>1, <3>2, <3>3
    <3>5. \A i \in DOMAIN c.scored \cup here :
            (IF i \in here THEN index[i] ELSE c.scored[i]) = index[i]
      BY <3>3
    <3>6. passed = [i \in {i \in 1..c.pos : InRegion(index[i], c.query)} |-> index[i]]
      BY <3>4, <3>5
    <3> QED
      BY <3>2, <3>6 DEF RelevantUpTo, Part
  <2> HIDE DEF passed
  <2>3. IsRetrieval(next) /\ (~next.stale => UpToDate(next))
    BY <2>1, <2>2, <1>6 DEF IsRetrieval, UpToDate
  <2> QED
    BY <1>1, <1>6, <2>1, <2>3, RetrievalInv DEF c
<1> QED
  BY <1>2, <1>4, <1>5, <1>6

LEMMA RankInv ==
  ASSUME DiscoveryInv, NEW t \in Threads, Rank(t)
  PROVE  DiscoveryInv'
<1> DEFINE c == call[t]
           chosen == Chosen(c.scored, c.query)
           list == [i \in DOMAIN chosen |-> CandidateOf(chosen[i], c.query)]
           next == [c EXCEPT !.pc = "store", !.list = list]
<1>1. /\ c.pc = "rank" /\ index' = index /\ cache' = cache
      /\ IsRetrieval(c) /\ (~c.stale => UpToDate(c)) /\ Listed(index)
  BY DEF Rank, Ends, DiscoveryInv, Retrieving
<1>2. \/ call' = [call EXCEPT ![t] = Idle]
      \/ call' = [call EXCEPT ![t] = next]
  BY Zenon DEF Rank, Ends
<1>3. Idle.pc = "idle"
  BY DEF Idle
<1> HIDE DEF c
<1>4. CASE call' = [call EXCEPT ![t] = Idle]
  BY <1>1, <1>3, <1>4, RetrievalInv DEF c, Retrieving
<1>5. ASSUME call' = [call EXCEPT ![t] = next]
      PROVE  DiscoveryInv'
  <2>1. /\ next = [pc |-> "store", query |-> c.query, size |-> c.size, pos |-> c.pos,
                   scored |-> c.scored, list |-> list, stale |-> c.stale]
        /\ c.stale \in BOOLEAN
    <3> HIDE DEF list
    <3> DEFINE d == [c EXCEPT !.pc = "store"]
    <3>1. /\ d = [pc |-> "store", query |-> c.query, size |-> c.size, pos |-> c.pos,
                  scored |-> c.scored, list |-> c.list, stale |-> c.stale]
          /\ c.stale \in BOOLEAN
      BY <1>1 DEF IsRetrieval
    <3>2. next = [d EXCEPT !.list = list]
      OBVIOUS
    <3> HIDE DEF d, next
    <3> QED
      BY <3>1, <3>2
  <2>2. Ids(list) = [i \in DOMAIN chosen |-> chosen[i].id]
    <3> HIDE DEF chosen
    <3>1. DOMAIN list = DOMAIN chosen /\ \A i \in DOMAIN chosen : list[i].of = chosen[i].id
      BY DEF CandidateOf
    <3> HIDE DEF list
    <3> QED
      BY <3>1 DEF Ids
  <2> HIDE DEF next, list
  <2>3. ASSUME ~c.stale PROVE c.size = Len(index) /\ Ids(list) = IdsNow(c.query)
    BY <2>2, <2>3, <1>1 DEF UpToDate, IdsNow
  <2>4. IsRetrieval(next) /\ (~next.stale => UpToDate(next))
    BY <2>1, <2>3 DEF IsRetrieval, UpToDate
  <2> QED
    BY <1>1, <1>5, <2>1, <2>4, RetrievalInv DEF c
<1> QED
  BY <1>2, <1>4, <1>5

LEMMA StoreInv ==
  ASSUME DiscoveryInv, NEW t \in Threads, Store(t)
  PROVE  DiscoveryInv'
<1> DEFINE c == call[t]
           key == CacheKey[c.query]
           entry == [list |-> c.list, query |-> c.query, stale |-> c.stale]
<1>1. /\ c.pc = "store" /\ index' = index /\ Listed(index)
      /\ cache' = [cache EXCEPT ![key] = entry] /\ call' = [call EXCEPT ![t] = Idle]
      /\ ~c.stale => Ids(c.list) = IdsNow(c.query)
  BY DEF Store, Ends, DiscoveryInv, Retrieving, UpToDate
<1>2. /\ cache' = [k \in Keys |-> cache'[k]] /\ call' = [u \in Threads |-> call'[u]]
      /\ \A k \in Keys : cache'[k] \in {cache[k], entry}
      /\ \A u \in Threads : call'[u] = IF u = t THEN Idle ELSE call[u]
      /\ Idle.pc = "idle"
  <2> HIDE DEF key, entry
  <2> QED
    BY <1>1 DEF DiscoveryInv, Idle
<1>3. \A u \in Threads :
        call'[u].pc \in Retrieving => /\ IsRetrieval(call[u])'
                                      /\ ~call'[u].stale => UpToDate(call[u])'
  <2> SUFFICES ASSUME NEW u \in Threads, call'[u].pc \in Retrieving
               PROVE  IsRetrieval(call[u])' /\ (~call'[u].stale => UpToDate(call[u])')
    OBVIOUS
  <2>1. call'[u] = call[u]
    BY <1>2 DEF Retrieving
  <2>2. IsRetrieval(call[u]) /\ (~call[u].stale => UpToDate(call[u]))
    BY <2>1 DEF DiscoveryInv
  <2> QED
    BY <1>1, <2>1, <2>2 DEF IsRetrieval, UpToDate, RelevantUpTo, Relevant, IdsNow
<1>4. CacheIsCurrent'
  <2> SUFFICES ASSUME \A u \in Threads : call'[u].pc # "clear",
                      NEW k \in Keys, cache'[k] # NoList, ~cache'[k].stale
               PROVE  Ids(cache'[k].list) = IdsNow(cache'[k].query)
    <3>1. \A q : IdsNow(q)' = IdsNow(q)
      BY <1>1 DEF IdsNow, Relevant
    <3>2. CacheIsCurrent' <=>
            ((\A u \in Threads : call'[u].pc # "clear")
               => \A k \in Keys : cache'[k] # NoList /\ ~cache'[k].stale
                                    => Ids(cache'[k].list) = IdsNow(cache[k].query)')
      BY Zenon DEF CacheIsCurrent, Relevant, IdsNow
    <3> QED
      BY <3>1, <3>2, <1>1 DEF IdsNow, Relevant
  <2>1. \A u \in Threads : call[u].pc # "clear"
    BY <1>1, <1>2
  <2>2. CASE cache'[k] = cache[k]
    BY <2>1, <2>2, CurrentMeans DEF DiscoveryInv
  <2>3. CASE cache'[k] = entry
    BY <2>3, <1>1
  <2> QED
    BY <1>2, <2>2, <2>3
<1> QED
  BY <1>1, <1>2, <1>3, <1>4 DEF DiscoveryInv, Listed

\* A thread's call once the index or an alias has changed under it.
Outdated(c) == IF c.pc \in Retrieving THEN [c EXCEPT !.stale = TRUE] ELSE c

LEMMA OutdatedStays ==
  ASSUME NEW c, c.pc \in Retrieving => IsRetrieval(c)
  PROVE  /\ Outdated(c).pc = c.pc
         /\ c.pc \in Retrieving => IsRetrieval(Outdated(c)) /\ Outdated(c).stale
<1>1. CASE c.pc \in Retrieving
  <2>1. PICK true : true = TRUE
    OBVIOUS
  <2>2. Outdated(c) = [c EXCEPT !.stale = true]
    BY <1>1, <2>1 DEF Outdated
  <2>3. c = [pc |-> c.pc, query |-> c.query, size |-> c.size, pos |-> c.pos,
             scored |-> c.scored, list |-> c.list, stale |-> c.stale]
    BY <1>1 DEF IsRetrieval
  <2>4. [c EXCEPT !.stale = true] =
          [pc |-> c.pc, query |-> c.query, size |-> c.size, pos |-> c.pos,
           scored |-> c.scored, list |-> c.list, stale |-> true]
    BY ONLY <2>3
  <2> QED
    BY <2>1, <2>2, <2>4 DEF IsRetrieval
<1>2. CASE c.pc \notin Retrieving
  BY <1>2 DEF Outdated
<1> QED
  BY <1>1, <1>2

LEMMA IndexSetInv ==
  ASSUME DiscoveryInv, NEW t \in Threads, NEW r \in Rows, IndexSet(t, r)
  PROVE  DiscoveryInv'
<1>1. /\ index' = Put(index, [r EXCEPT !.id = Resolve(@)]) /\ cache' = cache
      /\ call' = [u \in Threads |-> IF u = t THEN [pc |-> "clear"] ELSE Outdated(call[u])]
  BY DEF IndexSet, Outdated, Retrieving
<1>2. Listed(index')
  BY <1>1, PutListed DEF DiscoveryInv
<1>3. call'[t].pc = "clear"
  BY <1>1
<1>4. \A u \in Threads :
        call'[u].pc \in Retrieving => IsRetrieval(call[u])' /\ call'[u].stale
  <2> SUFFICES ASSUME NEW u \in Threads, call'[u].pc \in Retrieving
               PROVE  IsRetrieval(call'[u]) /\ call'[u].stale
    BY DEF IsRetrieval
  <2>1. call'[u] = Outdated(call[u])
    BY <1>1, <1>3 DEF Retrieving
  <2> QED
    BY <2>1, OutdatedStays DEF DiscoveryInv
<1>5. CacheIsCurrent'
  BY <1>3 DEF CacheIsCurrent
<1> QED
  BY <1>1, <1>2, <1>4, <1>5 DEF DiscoveryInv, Listed

LEMMA IndexClearInv ==
  ASSUME DiscoveryInv, NEW t \in Threads, IndexClear(t)
  PROVE  DiscoveryInv'
<1>1. /\ index' = index /\ cache' = [k \in Keys |-> NoList]
      /\ call' = [call EXCEPT ![t] = Idle] /\ Idle.pc = "idle"
  BY DEF IndexClear, Idle
<1>2. /\ call' = [u \in Threads |-> call'[u]]
      /\ \A u \in Threads : call'[u] = IF u = t THEN Idle ELSE call[u]
  BY <1>1 DEF DiscoveryInv
<1>3. \A u \in Threads :
        call'[u].pc \in Retrieving => /\ IsRetrieval(call[u])'
                                      /\ ~call'[u].stale => UpToDate(call[u])'
  <2> SUFFICES ASSUME NEW u \in Threads, call'[u].pc \in Retrieving
               PROVE  IsRetrieval(call[u])' /\ (~call'[u].stale => UpToDate(call[u])')
    OBVIOUS
  <2>1. call'[u] = call[u]
    BY <1>1, <1>2 DEF Retrieving
  <2>2. IsRetrieval(call[u]) /\ (~call[u].stale => UpToDate(call[u]))
    BY <2>1 DEF DiscoveryInv
  <2> QED
    BY <1>1, <2>1, <2>2 DEF IsRetrieval, UpToDate, RelevantUpTo, Relevant, IdsNow
<1>4. CacheIsCurrent'
  BY <1>1 DEF CacheIsCurrent
<1> QED
  BY <1>1, <1>2, <1>3, <1>4 DEF DiscoveryInv, Listed

LEMMA RegisterAliasInv ==
  ASSUME DiscoveryInv, NEW old, NEW new, RegisterAlias(old, new)
  PROVE  DiscoveryInv'
<1>1. /\ index' = index /\ cache' = cache
      /\ call' = [u \in Threads |-> Outdated(call[u])]
  BY DEF RegisterAlias, Outdated, Retrieving
<1>2. \A u \in Threads : call[u].pc = call'[u].pc
  BY <1>1, OutdatedStays DEF DiscoveryInv
<1>3. \A u \in Threads :
        call'[u].pc \in Retrieving => IsRetrieval(call[u])' /\ call'[u].stale
  <2> SUFFICES ASSUME NEW u \in Threads, call'[u].pc \in Retrieving
               PROVE  IsRetrieval(call'[u]) /\ call'[u].stale
    BY DEF IsRetrieval
  <2> QED
    BY <1>1, <1>2, OutdatedStays DEF DiscoveryInv
<1>4. CacheIsCurrent'
  BY <1>1, <1>2 DEF DiscoveryInv, CacheIsCurrent
<1> QED
  BY <1>1, <1>3, <1>4 DEF DiscoveryInv, Listed

LEMMA DiscoveryNextInv == DiscoveryInv /\ [DiscoveryNext]_discoveryVars => DiscoveryInv'
<1> SUFFICES ASSUME DiscoveryInv, [DiscoveryNext]_discoveryVars PROVE DiscoveryInv'
  OBVIOUS
<1>0. Idle.pc = "idle"
  BY DEF Idle
<1>1. ASSUME NEW t \in Threads, NEW q \in Queries, Lookup(t, q) PROVE DiscoveryInv'
  <2> DEFINE c == [pc |-> IF cache[CacheKey[q]] = NoList THEN "miss" ELSE "hit", query |-> q]
  <2>1. /\ call' = [call EXCEPT ![t] = c] /\ index' = index /\ cache' = cache
        /\ call[t] = Idle /\ c.pc \notin Retrieving
    BY <1>1 DEF Lookup, Retrieving
  <2> QED
    BY <1>0, <2>1, RetrievalInv
<1>2. ASSUME NEW t \in Threads, Hit(t) PROVE DiscoveryInv'
  BY <1>0, <1>2, RetrievalInv DEF Hit, Ends, Retrieving
<1>3. ASSUME NEW t \in Threads, StartScan(t) PROVE DiscoveryInv'
  <2> DEFINE c == [pc |-> "scan", query |-> call[t].query, size |-> Len(index), pos |-> 1,
                   scored |-> Part(index, {}), list |-> <<>>, stale |-> FALSE]
  <2>1. /\ call[t].pc = "miss" /\ index' = index /\ cache' = cache
        /\ call' = [call EXCEPT ![t] = Idle] \/ call' = [call EXCEPT ![t] = c]
    BY <1>3 DEF StartScan, Ends
  <2>2. IsRetrieval(c) /\ c.pc = "scan"
    BY DEF IsRetrieval
  <2>3. UpToDate(c)
    <3>1. Len(index) \in Nat
      BY DEF DiscoveryInv, Listed
    <3>2. Part(index, {}) = RelevantUpTo(0, call[t].query)
      BY DEF Part, RelevantUpTo
    <3> QED
      BY <3>1, <3>2 DEF UpToDate
  <2> HIDE DEF c
  <2> QED
    BY <1>0, <2>1, <2>2, <2>3, RetrievalInv DEF Retrieving
<1>4. ASSUME NEW t \in Threads, NEW r \in Rows, IndexSet(t, r) PROVE DiscoveryInv'
  BY <1>4, IndexSetInv
<1>5. ASSUME NEW p \in Renames, RegisterAlias(p[1], p[2]) PROVE DiscoveryInv'
  BY <1>5, RegisterAliasInv
<1>6. CASE UNCHANGED discoveryVars
  <2>1. index' = index /\ cache' = cache /\ call' = call
    BY <1>6 DEF discoveryVars
  <2>2. ASSUME NEW t \in Threads
        PROVE  /\ IsRetrieval(call[t])' <=> IsRetrieval(call[t])
               /\ UpToDate(call[t])' <=> UpToDate(call[t])
    BY <2>1 DEF IsRetrieval, UpToDate, RelevantUpTo, Relevant, IdsNow
  <2>3. CacheIsCurrent' <=> CacheIsCurrent
    BY <2>1 DEF CacheIsCurrent
  <2> QED
    BY <2>1, <2>2, <2>3 DEF DiscoveryInv, Listed
<1> QED
  BY <1>1, <1>2, <1>3, <1>4, <1>5, <1>6, ScanInv, RankInv, StoreInv, IndexClearInv DEF DiscoveryNext

\* Between index changes the cache holds what a retrieval would find now, whatever the
\* queries, skills and threads, and however candidates are chosen.
THEOREM CacheStaysCurrent == DiscoverySpec => []CacheIsCurrent
<1>1. DiscoveryInv => CacheIsCurrent
  BY DEF DiscoveryInv
<1> QED
  BY <1>1, DiscoveryInitInv, DiscoveryNextInv, PTL DEF DiscoverySpec

-----------------------------------------------------------------------------
(* Numbers *)

\* A set of numbers that is not empty has a least one.
LEMMA LeastNumber ==
  ASSUME NEW T, T \subseteq Nat, T # {}
  PROVE  \E m \in T : \A n \in T : m <= n
<1> DEFINE R == OpToRel(<, Nat)
<1>1. IsWellFoundedOn(R, Nat)
  BY NatLessThanWellFounded
<1>2. \A m, n \in Nat : n < m => <<n, m>> \in R
  BY DEF OpToRel
<1> HIDE DEF R
<1>3. PICK m \in T : \A n \in T : ~(<<n, m>> \in R)
  BY <1>1, WFMin
<1>4. ASSUME NEW n \in T PROVE m <= n
  <2>1. m \in Nat /\ n \in Nat
    OBVIOUS
  <2>2. ~(n < m)
    BY <1>2, <1>3, <2>1
  <2> QED
    BY <2>1, <2>2
<1> QED
  BY <1>4

\* Induction, for a property that is given as a set of numbers.
LEMMA AllNumbers ==
  ASSUME NEW T, 0 \in T, \A n \in Nat : n \in T => n + 1 \in T
  PROVE  \A n \in Nat : n \in T
<1> SUFFICES ASSUME Nat \ T # {} PROVE FALSE
  OBVIOUS
<1>1. PICK m \in Nat \ T : \A n \in Nat \ T : m <= n
  BY LeastNumber
<1>2. m # 0 /\ m - 1 \in Nat
  BY <1>1
<1>3. m - 1 \in T
  BY <1>1, <1>2
<1> QED
  BY <1>1, <1>2, <1>3

\* f starts with a in V, and goes on as Step says.
IsRun(f, V, a, Step) ==
  f \in [Nat -> V] /\ f[0] = a /\ \A n \in Nat : f[n + 1] = Step[n][f[n]]

\* A function on the numbers that is given by its start and its steps exists.
LEMMA Iteration ==
  ASSUME NEW V, NEW a \in V, NEW Step \in [Nat -> [V -> V]]
  PROVE  \E f : IsRun(f, V, a, Step)
<1> DEFINE Upto(g, n) == /\ g \in [0..n -> V] /\ g[0] = a
                         /\ \A m \in Nat : m < n => g[m + 1] = Step[m][g[m]]
           T == {n \in Nat : \E g : Upto(g, n)}
<1>1. 0 \in T
  <2> DEFINE g == [m \in 0..0 |-> a]
  <2>1. Upto(g, 0)
    OBVIOUS
  <2> QED
    BY <2>1
<1>2. ASSUME NEW n \in Nat, n \in T PROVE n + 1 \in T
  <2>1. PICK g : Upto(g, n)
    BY <1>2
  <2> DEFINE h == [m \in 0..(n + 1) |-> IF m = n + 1 THEN Step[n][g[n]] ELSE g[m]]
  <2>2. g[n] \in V /\ Step[n][g[n]] \in V
    BY <2>1
  <2>3. h \in [0..(n + 1) -> V] /\ h[0] = a
    BY <2>1, <2>2
  <2>4. ASSUME NEW m \in Nat, m < n + 1 PROVE h[m + 1] = Step[m][h[m]]
    BY <2>1, <2>4
  <2>5. Upto(h, n + 1)
    BY <2>3, <2>4
  <2> HIDE DEF Upto, h
  <2> QED
    BY <2>5
<1>3. \A n \in Nat : \E g : Upto(g, n)
  <2>1. \A n \in Nat : n \in T
    <3> HIDE DEF T
    <3> QED
      BY <1>1, <1>2, AllNumbers
  <2> HIDE DEF Upto
  <2> QED
    BY <2>1
<1>4. ASSUME NEW n \in Nat, NEW p \in Nat, NEW g, NEW h, Upto(g, n), Upto(h, p)
      PROVE  \A m \in Nat : m <= n /\ m <= p => g[m] = h[m]
  <2> DEFINE K == {m \in Nat : m <= n /\ m <= p => g[m] = h[m]}
  <2>1. 0 \in K
    BY <1>4
  <2>2. ASSUME NEW m \in Nat, m \in K PROVE m + 1 \in K
    BY <1>4, <2>2
  <2>3. \A m \in Nat : m \in K
    <3> HIDE DEF K
    <3> QED
      BY <2>1, <2>2, AllNumbers
  <2> QED
    BY <2>3
<1> DEFINE G(n) == CHOOSE g : Upto(g, n)
           f == [n \in Nat |-> G(n)[n]]
<1>5. \A n \in Nat : Upto(G(n), n)
  <2> HIDE DEF Upto
  <2> QED
    BY <1>3
<1> HIDE DEF G
<1>6. f \in [Nat -> V] /\ f[0] = a
  BY <1>5
<1>7. ASSUME NEW n \in Nat PROVE f[n + 1] = Step[n][f[n]]
  <2>1. G(n + 1)[n] = G(n)[n]
    <3>1. Upto(G(n + 1), n + 1) /\ Upto(G(n), n)
      BY <1>5
    <3> HIDE DEF Upto
    <3> QED
      BY <1>4, <3>1
  <2>2. G(n + 1)[n + 1] = Step[n][G(n + 1)[n]]
    BY <1>5
  <2> QED
    BY <2>1, <2>2
<1>8. IsRun(f, V, a, Step)
  <2> HIDE DEF f
  <2> QED
    BY <1>6, <1>7 DEF IsRun
<1> QED
  BY <1>8

-----------------------------------------------------------------------------
(* The sorted list *)

\* A set of positions that is not empty has a last one.
LEMMA LastPosition ==
  ASSUME NEW n \in Nat, NEW s \in SUBSET (1..n), s # {}
  PROVE  Max(s) \in s /\ \A i \in s : i <= Max(s)
<1> DEFINE T == {n - i : i \in s}
<1>1. T \subseteq Nat /\ T # {}
  <2>1. \A i \in s : n - i \in Nat
    OBVIOUS
  <2> QED
    BY <2>1
<1>2. PICK m \in T : \A k \in T : m <= k
  <2> HIDE DEF T
  <2> QED
    BY <1>1, LeastNumber
<1>3. PICK x \in s : m = n - x
  BY <1>2
<1>4. \A i \in s : x >= i
  <2> SUFFICES ASSUME NEW i \in s PROVE x >= i
    OBVIOUS
  <2>1. n - x <= n - i
    BY <1>2, <1>3
  <2> QED
    BY <2>1
<1>5. Max(s) \in s /\ \A i \in s : Max(s) >= i
  BY <1>4, Zenon DEF Max
<1> QED
  BY <1>5

\* A set of positions is finite, and one less without its last.
LEMMA PositionsLess ==
  ASSUME NEW n \in Nat, NEW s \in SUBSET (1..n)
  PROVE  /\ Cardinality(s) \in Nat
         /\ s # {} => /\ Max(s) \in s /\ Cardinality(s) >= 1
                      /\ Cardinality(s \ {Max(s)}) = Cardinality(s) - 1
<1>1. IsFiniteSet(1..n)
  BY FS_Interval
<1>2. IsFiniteSet(s)
  BY <1>1, FS_Subset
<1>3. Cardinality(s) \in Nat
  BY <1>2, FS_CardinalityType
<1>4. ASSUME s # {}
      PROVE  /\ Max(s) \in s /\ Cardinality(s) >= 1
             /\ Cardinality(s \ {Max(s)}) = Cardinality(s) - 1
  <2>1. Max(s) \in s
    BY <1>4, LastPosition
  <2>2. Cardinality(s) # 0
    BY <1>2, <1>4, FS_EmptySet
  <2>3. Cardinality(s \ {Max(s)}) = Cardinality(s) - 1
    BY <1>2, <2>1, FS_RemoveElement
  <2> QED
    BY <1>3, <2>1, <2>2, <2>3
<1> QED
  BY <1>3, <1>4

\* f gives for each set of positions what a fold over them comes to.
IsFold(f, W, base, n, seq, Turn) ==
  /\ f \in [SUBSET (1..n) -> W]
  /\ \A s \in SUBSET (1..n) :
       f[s] = IF s = {} THEN base ELSE Turn[<<f[s \ {Max(s)}], seq[Max(s)]>>]

\* The function on sets of positions that a fold from the left computes.
LEMMA FoldExists ==
  ASSUME NEW W, NEW base \in W, NEW S, NEW n \in Nat, NEW seq \in [1..n -> S],
         NEW Turn \in [W \X S -> W]
  PROVE  \E f : IsFold(f, W, base, n, seq, Turn)
<1> DEFINE P == SUBSET (1..n)
           X == [P -> W]
           More(g) == [s \in P |-> IF s = {} THEN base
                                   ELSE Turn[<<g[s \ {Max(s)}], seq[Max(s)]>>]]
           Step == [m \in Nat |-> [g \in X |-> More(g)]]
           a == [s \in P |-> base]
<1>1. \A s \in P : s # {} => /\ Max(s) \in s /\ Max(s) \in 1..n /\ s \ {Max(s)} \in P
                             /\ seq[Max(s)] \in S
  <2> SUFFICES ASSUME NEW s \in P, s # {}
               PROVE  Max(s) \in s /\ Max(s) \in 1..n /\ s \ {Max(s)} \in P /\ seq[Max(s)] \in S
    OBVIOUS
  <2>1. Max(s) \in s
    BY LastPosition
  <2> QED
    BY <2>1
<1>2. \A g \in X : More(g) \in X
  <2> SUFFICES ASSUME NEW g \in X, NEW s \in P, s # {}
               PROVE  Turn[<<g[s \ {Max(s)}], seq[Max(s)]>>] \in W
    OBVIOUS
  <2> HIDE DEF P
  <2> QED
    BY <1>1
<1>3. a \in X /\ Step \in [Nat -> [X -> X]]
  <2> HIDE DEF P, More
  <2> QED
    BY <1>2
<1>4. PICK F : IsRun(F, X, a, Step)
  <2> HIDE DEF X, Step, a
  <2> QED
    BY <1>3, Iteration
<1>5. F \in [Nat -> X] /\ F[0] = a /\ \A m \in Nat : F[m + 1] = More(F[m])
  <2> HIDE DEF X, More, a
  <2> QED
    BY <1>4 DEF IsRun
<1> DEFINE f == [s \in P |-> F[Cardinality(s)][s]]
<1>6. \A s \in P : Cardinality(s) \in Nat
  <2> SUFFICES ASSUME NEW s \in P PROVE Cardinality(s) \in Nat
    OBVIOUS
  <2> QED
    BY PositionsLess
<1>7. f \in [P -> W]
  <2>1. \A m \in Nat, s \in P : F[m][s] \in W
    <3> HIDE DEF P
    <3> QED
      BY <1>5
  <2> HIDE DEF P
  <2> QED
    BY <1>6, <2>1
<1>8. ASSUME NEW s \in P
      PROVE  f[s] = IF s = {} THEN base ELSE Turn[<<f[s \ {Max(s)}], seq[Max(s)]>>]
  <2>1. CASE s = {}
    <3>1. f[s] = a[s]
      <4>1. Cardinality(s) = 0
        BY <2>1, FS_EmptySet
      <4> HIDE DEF P, a
      <4> QED
        BY <1>5, <4>1
    <3> HIDE DEF f, P
    <3> QED
      BY <2>1, <3>1
  <2>2. CASE s # {}
    <3> DEFINE c == Cardinality(s)
               r == s \ {Max(s)}
    <3>1. c - 1 \in Nat /\ c = (c - 1) + 1 /\ Cardinality(r) = c - 1 /\ r \in P
      <4>1. c \in Nat /\ c >= 1 /\ Cardinality(r) = c - 1
        BY <2>2, PositionsLess
      <4> HIDE DEF c, r
      <4>2. r \in P
        BY DEF r
      <4> QED
        BY <4>1, <4>2
    <3> HIDE DEF c
    <3>2. F[c] = More(F[c - 1])
      <4> HIDE DEF More
      <4> QED
        BY <1>5, <3>1
    <3>3. F[c][s] = Turn[<<F[c - 1][r], seq[Max(s)]>>]
      <4> HIDE DEF P
      <4> QED
        BY <2>2, <3>2
    <3>4. f[s] = F[c][s] /\ f[r] = F[c - 1][r]
      <4> HIDE DEF P, r
      <4> QED
        BY <3>1 DEF c
    <3> HIDE DEF f
    <3> QED
      BY <2>2, <3>3, <3>4
  <2> QED
    BY <2>1, <2>2
<1>9. IsFold(f, W, base, n, seq, Turn)
  <2> HIDE DEF f
  <2> QED
    BY <1>7, <1>8 DEF IsFold
<1> QED
  BY <1>9

\* The entries that stand before the one at i in the sorted list.
Ahead(rows, q, i) ==
  {j \in DOMAIN rows : \/ Alike(rows[j], q) > Alike(rows[i], q)
                       \/ Alike(rows[j], q) = Alike(rows[i], q) /\ j < i}

\* s holds the n rows, and none of them behind one with a lower score.
InOrder(s, n, rows, q) ==
  /\ n \in Nat /\ DOMAIN s = 1..n
  /\ \A k \in 1..n : \E i \in DOMAIN rows : s[k] = rows[i]
  /\ \A i \in DOMAIN rows : \E k \in 1..n : s[k] = rows[i]
  /\ \A k, l \in 1..n : k < l => Alike(s[k], q) >= Alike(s[l], q)

\* Sorting keeps every entry, and puts no entry behind one with a lower score.
LEMMA SortedRows ==
  ASSUME NEW rows, NEW q, IsFiniteSet(DOMAIN rows), DOMAIN rows \subseteq Nat,
         \A i \in DOMAIN rows : Alike(rows[i], q) \in Int
  PROVE  InOrder(Sorted(rows, q), Cardinality(DOMAIN rows), rows, q)
<1> DEFINE D == DOMAIN rows
           n == Cardinality(D)
           A(i) == Ahead(rows, q, i)
           c(i) == Cardinality(A(i))
           a(i) == Alike(rows[i], q)
<1>0. n \in Nat
  BY FS_CardinalityType
<1>1. ASSUME NEW i \in D
      PROVE  A(i) \subseteq D \ {i} /\ IsFiniteSet(A(i)) /\ c(i) \in Nat /\ c(i) < n
  <2>1. A(i) \subseteq D \ {i}
    BY DEF Ahead
  <2>2. IsFiniteSet(D \ {i}) /\ Cardinality(D \ {i}) = n - 1
    BY FS_RemoveElement
  <2> HIDE DEF A, D
  <2>3. IsFiniteSet(A(i)) /\ c(i) <= n - 1 /\ c(i) \in Nat
    BY <2>1, <2>2, FS_Subset, FS_CardinalityType
  <2> QED
    BY <1>0, <2>1, <2>3
<1>2. ASSUME NEW i \in D, NEW j \in D, i \in A(j)
      PROVE  c(i) < c(j)
  <2>1. A(i) \subseteq A(j)
    <3>1. /\ a(i) \in Int /\ a(j) \in Int
          /\ a(i) > a(j) \/ (a(i) = a(j) /\ i < j)
      BY <1>2 DEF Ahead
    <3>2. ASSUME NEW h \in A(i) PROVE h \in A(j)
      <4>1. /\ h \in D /\ h \in Nat /\ i \in Nat /\ j \in Nat /\ a(h) \in Int
            /\ a(h) > a(i) \/ (a(h) = a(i) /\ h < i)
        BY <3>2 DEF Ahead
      <4> HIDE DEF a, D
      <4>2. a(h) > a(j) \/ (a(h) = a(j) /\ h < j)
        BY <3>1, <4>1
      <4> QED
        BY <4>1, <4>2 DEF Ahead, a, D
    <3> QED
      BY <3>2
  <2>2. i \notin A(i) /\ IsFiniteSet(A(i)) /\ IsFiniteSet(A(j)) /\ c(i) \in Nat /\ c(j) \in Nat
    BY <1>1
  <2> HIDE DEF A, D
  <2>3. A(i) # A(j)
    BY <1>2, <2>2
  <2>4. c(i) <= c(j) /\ c(i) # c(j)
    BY <2>1, <2>2, <2>3, FS_Subset
  <2> QED
    BY <2>2, <2>4
<1>3. ASSUME NEW i \in D, NEW j \in D, i # j
      PROVE  i \in A(j) \/ j \in A(i)
  <2>1. a(i) \in Int /\ a(j) \in Int /\ i \in Nat /\ j \in Nat
    OBVIOUS
  <2> HIDE DEF a
  <2>2. (a(i) > a(j) \/ (a(i) = a(j) /\ i < j)) \/ (a(j) > a(i) \/ (a(j) = a(i) /\ j < i))
    BY <1>3, <2>1
  <2> QED
    BY <2>2 DEF Ahead, a
<1>4. \A i, j \in D : c(i) = c(j) => i = j
  <2> SUFFICES ASSUME NEW i \in D, NEW j \in D, c(i) = c(j), i # j PROVE FALSE
    OBVIOUS
  <2>1. c(i) < c(j) \/ c(j) < c(i)
    BY <1>2, <1>3
  <2>2. c(i) \in Nat /\ c(j) \in Nat
    BY <1>1
  <2> HIDE DEF c
  <2> QED
    BY <2>1, <2>2
<1> DEFINE place == [i \in D |-> c(i) + 1]
<1>5. /\ place \in [D -> 1..n]
      /\ \A i, j \in D : place[i] = place[j] => i = j
  <2>1. \A i \in D : c(i) + 1 \in 1..n
    BY <1>0, <1>1
  <2>2. \A i, j \in D : c(i) + 1 = c(j) + 1 => c(i) = c(j)
    BY <1>1
  <2> HIDE DEF D, c, n
  <2> QED
    BY <2>1, <2>2, <1>4
<1>6. \A k \in 1..n : \E i \in D : c(i) = k - 1
  <2>1. IsFiniteSet(1..n) /\ Cardinality(1..n) = n
    <3> HIDE DEF n
    <3> QED
      BY <1>0, FS_Interval
  <2>2. place \in Injection(D, 1..n)
    <3> HIDE DEF place, D, n
    <3>1. DOMAIN place = D
      BY <1>5
    <3> QED
      BY <1>5, <3>1 DEF Injection, IsInjective
  <2>3. place \in Surjection(D, 1..n)
    <3> HIDE DEF place
    <3> QED
      BY <2>1, <2>2, FS_Injection
  <2> SUFFICES ASSUME NEW k \in 1..n PROVE \E i \in D : c(i) = k - 1
    OBVIOUS
  <2>4. PICK i \in D : place[i] = k
    <3> HIDE DEF place, D
    <3> QED
      BY <2>3 DEF Surjection
  <2>5. c(i) + 1 = k /\ c(i) \in Nat
    BY <2>4, <1>1
  <2> HIDE DEF c
  <2> QED
    BY <2>5
<1> DEFINE s == Sorted(rows, q)
           at(k) == CHOOSE i \in D : c(i) = k - 1
<1>7. s = [k \in 1..n |-> rows[at(k)]]
  BY Zenon DEF Sorted, Ahead
<1>8. \A k \in 1..n : at(k) \in D /\ c(at(k)) = k - 1
  <2> HIDE DEF D, c
  <2> QED
    BY <1>6
<1> HIDE DEF s, at, D, c, n
<1>9. \A i \in D : \E k \in 1..n : at(k) = i
  <2> SUFFICES ASSUME NEW i \in D PROVE \E k \in 1..n : at(k) = i
    OBVIOUS
  <2>1. c(i) + 1 \in 1..n /\ (c(i) + 1) - 1 = c(i)
    BY <1>0, <1>1
  <2>2. at(c(i) + 1) \in D /\ c(at(c(i) + 1)) = c(i)
    BY <1>8, <2>1
  <2> QED
    BY <1>4, <2>1, <2>2
<1>10. ASSUME NEW k \in 1..n, NEW l \in 1..n, k < l
       PROVE  a(at(k)) >= a(at(l)) /\ at(k) # at(l)
  <2>1. at(k) \in D /\ at(l) \in D /\ c(at(k)) = k - 1 /\ c(at(l)) = l - 1
    BY <1>8
  <2>2. at(k) # at(l) /\ ~(c(at(l)) < c(at(k)))
    BY <1>0, <1>10, <2>1
  <2>3. at(k) \in A(at(l))
    BY <1>2, <1>3, <2>1, <2>2
  <2> QED
    <3>1. a(at(k)) \in Int /\ a(at(l)) \in Int
      BY <2>1 DEF D
    <3>2. a(at(k)) > a(at(l)) \/ a(at(k)) = a(at(l))
      BY <2>3 DEF Ahead
    <3> HIDE DEF a
    <3> QED
      BY <2>2, <3>1, <3>2
<1>11. \A k \in 1..n : s[k] = rows[at(k)]
  BY <1>7
<1>12. DOMAIN s = 1..n
  BY <1>7
<1>13. ASSUME NEW k \in 1..n, NEW l \in 1..n, k < l
       PROVE  Alike(s[k], q) >= Alike(s[l], q)
  BY <1>10, <1>11, <1>13
<1>14. InOrder(s, n, rows, q)
  BY <1>0, <1>8, <1>9, <1>11, <1>12, <1>13 DEF InOrder, D
<1> QED
  BY <1>14 DEF s, n, D

-----------------------------------------------------------------------------
(* The loop over the sorted list *)

\* One turn of the loop over the sorted list.
Take(q, list, r) ==
  IF \/ Len(list) >= TopK
     \/ Alike(r, q) < SIMILARITY_REVIEW_LOW
     \/ \E i \in DOMAIN list : list[i].kind = r.kind
    THEN list ELSE Append(list, r)

\* f gives for each set of positions what the loop gathers from them.
Gathered(seq, q, f) ==
  f = [s \in SUBSET (DOMAIN seq) |->
         IF s = {} THEN <<>> ELSE Take(q, f[s \ {Max(s)}], seq[Max(s)])]

\* What the loop has gathered after the first k of a sorted list.
After(seq, q, k) == (CHOOSE f : Gathered(seq, q, f))[1..k]

\* The definition of Chosen, once its fold is expanded.
LEMMA ChosenIsFold ==
  ASSUME NEW rows, NEW q
  PROVE  Chosen(rows, q) = (CHOOSE f : Gathered(Sorted(rows, q), q, f))[DOMAIN Sorted(rows, q)]
  BY Zenon DEF Chosen, Take, FoldLeft, MapThenFoldSet, Gathered

LEMMA TakeType ==
  ASSUME NEW E, NEW list \in Seq(E), NEW r \in E, NEW q
  PROVE  Take(q, list, r) \in Seq(E)
<1>1. Append(list, r) \in Seq(E)
  OBVIOUS
<1> QED
  BY <1>1 DEF Take

\* The loop starts with nothing and takes its turns one after the other.
LEMMA LoopTurns ==
  ASSUME NEW E, NEW n \in Nat, NEW seq \in [1..n -> E], NEW q
  PROVE  /\ After(seq, q, 0) = <<>>
         /\ \A k \in 0..(n - 1) : After(seq, q, k + 1) = Take(q, After(seq, q, k), seq[k + 1])
<1> DEFINE W == Seq(E)
           Turn == [x \in W \X E |-> Take(q, x[1], x[2])]
           P == SUBSET (1..n)
<1>1. <<>> \in W /\ Turn \in [W \X E -> W]
  <2>1. \A x \in W \X E : Take(q, x[1], x[2]) \in W
    BY TakeType
  <2> QED
    BY <2>1
<1>0. PICK f : IsFold(f, W, <<>>, n, seq, Turn)
  <2> HIDE DEF W, Turn
  <2> QED
    BY <1>1, FoldExists
<1>2. /\ f \in [P -> W]
      /\ \A s \in P : f[s] = IF s = {} THEN <<>> ELSE Turn[<<f[s \ {Max(s)}], seq[Max(s)]>>]
  <2> HIDE DEF W, Turn
  <2> QED
    BY <1>0 DEF IsFold
<1>3. \A s \in P : f[s] = IF s = {} THEN <<>> ELSE Take(q, f[s \ {Max(s)}], seq[Max(s)])
  <2> SUFFICES ASSUME NEW s \in P, s # {}
               PROVE  f[s] = Take(q, f[s \ {Max(s)}], seq[Max(s)])
    BY <1>2
  <2>1. Max(s) \in s
    BY LastPosition
  <2>2. f[s \ {Max(s)}] \in W /\ seq[Max(s)] \in E
    BY <1>2, <2>1
  <2>3. <<f[s \ {Max(s)}], seq[Max(s)]>> \in W \X E
    BY <2>2
  <2>4. Turn[<<f[s \ {Max(s)}], seq[Max(s)]>>] = Take(q, f[s \ {Max(s)}], seq[Max(s)])
    <3> HIDE DEF W, P
    <3> QED
      BY <2>3
  <2> QED
    BY <1>2, <2>4
<1>4. Gathered(seq, q, f)
  <2>1. DOMAIN seq = 1..n
    OBVIOUS
  <2> HIDE DEF W
  <2>2. f = [s \in P |-> f[s]]
    BY <1>2
  <2>3. f = [s \in P |-> IF s = {} THEN <<>> ELSE Take(q, f[s \ {Max(s)}], seq[Max(s)])]
    <3> HIDE DEF P
    <3> QED
      BY <1>3, <2>2
  <2> QED
    BY <2>1, <2>3, Zenon DEF Gathered
<1> DEFINE g == CHOOSE f_1 : Gathered(seq, q, f_1)
<1>5. Gathered(seq, q, g)
  BY <1>4, Zenon
<1> HIDE DEF g
<1>6. \A s \in P : g[s] = IF s = {} THEN <<>> ELSE Take(q, g[s \ {Max(s)}], seq[Max(s)])
  <2>1. DOMAIN seq = 1..n
    OBVIOUS
  <2>2. g = [s \in P |-> IF s = {} THEN <<>> ELSE Take(q, g[s \ {Max(s)}], seq[Max(s)])]
    BY <1>5, <2>1, Zenon DEF Gathered
  <2> DEFINE e(s) == IF s = {} THEN <<>> ELSE Take(q, g[s \ {Max(s)}], seq[Max(s)])
  <2>3. g = [s \in P |-> e(s)]
    BY <2>2, Zenon
  <2> HIDE DEF e, P
  <2>4. \A s \in P : g[s] = e(s)
    BY <2>3
  <2> QED
    BY <2>4 DEF e
<1>7. \A k : After(seq, q, k) = g[1..k]
  BY Zenon DEF After, g
<1>8. g[1..0] = <<>>
  <2>1. 1..0 = {}
    OBVIOUS
  <2> QED
    BY <1>6, <2>1
<1>9. ASSUME NEW k \in 0..(n - 1)
      PROVE  g[1..(k + 1)] = Take(q, g[1..k], seq[k + 1])
  <2>1. 1..(k + 1) \in P /\ 1..(k + 1) # {} /\ (1..(k + 1)) \ {k + 1} = 1..k
    <3>1. k \in Nat /\ k + 1 <= n
      OBVIOUS
    <3>2. \A i : i \in 1..(k + 1) <=> i \in 1..k \/ i = k + 1
      BY <3>1
    <3>3. k + 1 \notin 1..k
      BY <3>1
    <3>4. 1..(k + 1) \subseteq 1..n
      BY <3>1
    <3> QED
      BY <3>2, <3>3, <3>4
  <2>2. Max(1..(k + 1)) = k + 1
    <3>1. 1..(k + 1) \in SUBSET (1..n)
      BY <2>1
    <3>2. Max(1..(k + 1)) \in 1..(k + 1) /\ \A i \in 1..(k + 1) : i <= Max(1..(k + 1))
      BY <2>1, <3>1, LastPosition
    <3> QED
      BY <3>2
  <2> HIDE DEF P
  <2> QED
    BY <1>6, <2>1, <2>2
<1> QED
  BY <1>7, <1>8, <1>9

Dissimilar(r, q) == Alike(r, q) < SIMILARITY_REVIEW_LOW

\* What the loop has gathered from the first k of a sorted list: what was left out of them
\* is too dissimilar, of a kind that is there, or behind TopK that are as good.
GoodAfter(seq, q, list, k) ==
  /\ Len(list) <= TopK
  /\ \A i \in DOMAIN list : \E m \in 1..k : list[i] = seq[m]
  /\ \A i, j \in DOMAIN list : list[i].kind = list[j].kind => i = j
  /\ \A m \in 1..k :
       \/ Dissimilar(seq[m], q)
       \/ \E i \in DOMAIN list : /\ list[i].kind = seq[m].kind
                                 /\ Alike(list[i], q) >= Alike(seq[m], q)
       \/ /\ Len(list) = TopK
          /\ \A i \in DOMAIN list : Alike(list[i], q) >= Alike(seq[m], q)

\* Of a list in descending order of scores.
Descending(seq, q, n) ==
  \A k, l \in 1..n : k < l => Alike(seq[k], q) >= Alike(seq[l], q)

LEMMA TakeGood ==
  ASSUME NEW E, NEW q, \A e \in E : Alike(e, q) \in Int,
         NEW n \in Nat, NEW seq \in [1..n -> E], Descending(seq, q, n),
         NEW k \in 0..(n - 1), NEW list \in Seq(E), GoodAfter(seq, q, list, k)
  PROVE  GoodAfter(seq, q, Take(q, list, seq[k + 1]), k + 1)
<1> DEFINE r == seq[k + 1]
<1>1. /\ r \in E /\ k \in Nat /\ k + 1 \in 1..n /\ TopK \in Nat
      /\ \A m : m \in 1..(k + 1) <=> m \in 1..k \/ m = k + 1
      /\ Len(list) \in Nat /\ DOMAIN list = 1..Len(list)
  BY DiscoveryAssumption
<1>2. \A i \in DOMAIN list : Alike(list[i], q) >= Alike(r, q)
  <2> SUFFICES ASSUME NEW i \in DOMAIN list PROVE Alike(list[i], q) >= Alike(r, q)
    OBVIOUS
  <2>1. PICK m \in 1..k : list[i] = seq[m]
    BY DEF GoodAfter
  <2>2. m \in 1..n /\ m < k + 1
    BY <1>1, <2>1
  <2> QED
    BY <1>1, <2>1, <2>2 DEF Descending
<1>3. CASE /\ Take(q, list, r) = list
           /\ \/ Len(list) >= TopK
              \/ Dissimilar(r, q)
              \/ \E i \in DOMAIN list : list[i].kind = r.kind
  <2>1. \/ Dissimilar(r, q)
        \/ \E i \in DOMAIN list : list[i].kind = r.kind /\ Alike(list[i], q) >= Alike(r, q)
        \/ Len(list) = TopK /\ \A i \in DOMAIN list : Alike(list[i], q) >= Alike(r, q)
    <3>1. Len(list) <= TopK
      BY DEF GoodAfter
    <3> HIDE DEF r
    <3>2. CASE Len(list) >= TopK
      BY <1>1, <1>2, <3>1, <3>2
    <3>3. CASE \E i \in DOMAIN list : list[i].kind = r.kind
      BY <1>2, <3>3
    <3> QED
      BY <1>3, <3>2, <3>3
  <2> HIDE DEF r
  <2>2. /\ Len(list) <= TopK
        /\ \A i \in DOMAIN list : \E m \in 1..(k + 1) : list[i] = seq[m]
        /\ \A i, j \in DOMAIN list : list[i].kind = list[j].kind => i = j
    BY <1>1 DEF GoodAfter
  <2>3. \A m \in 1..(k + 1) :
          \/ Dissimilar(seq[m], q)
          \/ \E i \in DOMAIN list : /\ list[i].kind = seq[m].kind
                                    /\ Alike(list[i], q) >= Alike(seq[m], q)
          \/ /\ Len(list) = TopK
             /\ \A i \in DOMAIN list : Alike(list[i], q) >= Alike(seq[m], q)
    BY <1>1, <2>1, Zenon DEF GoodAfter, r
  <2>4. GoodAfter(seq, q, list, k + 1)
    BY <2>2, <2>3 DEF GoodAfter
  <2> QED
    BY <1>3, <2>4 DEF r
<1>4. CASE /\ Take(q, list, r) = Append(list, r) /\ ~(Len(list) >= TopK)
           /\ ~ \E i \in DOMAIN list : list[i].kind = r.kind
  <2> DEFINE more == Append(list, r)
             z == Len(list) + 1
  <2>1. /\ more \in Seq(E) /\ DOMAIN more = 1..z /\ Len(more) = z /\ more[z] = r
        /\ \A i \in DOMAIN list : i \in 1..z /\ more[i] = list[i]
        /\ \A i \in 1..z : i \in DOMAIN list \/ i = z
        /\ z \in 1..z
    BY <1>1
  <2> HIDE DEF more, r, z
  <2>2. Len(more) <= TopK
    BY <1>1, <1>4, <2>1 DEF z
  <2>3. \A i \in DOMAIN more : \E m \in 1..(k + 1) : more[i] = seq[m]
    <3>1. more[z] = seq[k + 1] /\ k + 1 \in 1..(k + 1)
      BY <1>1, <2>1 DEF r
    <3>2. \A i \in DOMAIN list : \E m \in 1..(k + 1) : list[i] = seq[m]
      BY <1>1 DEF GoodAfter
    <3> QED
      BY <2>1, <3>1, <3>2
  <2>4. \A i, j \in DOMAIN more : more[i].kind = more[j].kind => i = j
    <3>1. \A i, j \in DOMAIN list : list[i].kind = list[j].kind => i = j
      BY DEF GoodAfter
    <3> QED
      BY <1>4, <2>1, <3>1
  <2>5. ASSUME NEW m \in 1..(k + 1)
        PROVE  \/ Dissimilar(seq[m], q)
               \/ \E i \in DOMAIN more : /\ more[i].kind = seq[m].kind
                                         /\ Alike(more[i], q) >= Alike(seq[m], q)
               \/ /\ Len(more) = TopK
                  /\ \A i \in DOMAIN more : Alike(more[i], q) >= Alike(seq[m], q)
    <3>1. CASE m = k + 1
      <4>1. Alike(r, q) \in Int
        BY <1>1
      <4>2. more[z].kind = seq[m].kind /\ Alike(more[z], q) >= Alike(seq[m], q)
        BY <2>1, <3>1, <4>1 DEF r
      <4> QED
        BY <2>1, <4>2
    <3>2. CASE m \in 1..k
      <4>1. \/ Dissimilar(seq[m], q)
            \/ \E i \in DOMAIN list : /\ list[i].kind = seq[m].kind
                                      /\ Alike(list[i], q) >= Alike(seq[m], q)
        BY <1>1, <1>4, <3>2 DEF GoodAfter
      <4> QED
        BY <2>1, <4>1
    <3> QED
      BY <1>1, <3>1, <3>2
  <2>6. GoodAfter(seq, q, more, k + 1)
    BY <2>2, <2>3, <2>4, <2>5 DEF GoodAfter
  <2> QED
    BY <1>4, <2>6 DEF more, r
<1> QED
  BY <1>3, <1>4 DEF Take, Dissimilar

\* Whatever the list, the loop keeps its promise after every turn.
LEMMA LoopGood ==
  ASSUME NEW E, NEW q, \A e \in E : Alike(e, q) \in Int,
         NEW n \in Nat, NEW seq \in [1..n -> E], Descending(seq, q, n)
  PROVE  After(seq, q, n) \in Seq(E) /\ GoodAfter(seq, q, After(seq, q, n), n)
<1> DEFINE T == {k \in Nat : k <= n => /\ After(seq, q, k) \in Seq(E)
                                       /\ GoodAfter(seq, q, After(seq, q, k), k)}
<1>1. 0 \in T
  <2>1. After(seq, q, 0) = <<>>
    BY LoopTurns
  <2>2. /\ Len(<<>>) = 0 /\ <<>> \in Seq(E) /\ DOMAIN <<>> = {} /\ 1..0 = {}
        /\ TopK \in Nat
    BY DiscoveryAssumption
  <2>3. GoodAfter(seq, q, <<>>, 0)
    BY <2>2 DEF GoodAfter
  <2> QED
    BY <2>1, <2>2, <2>3
<1>2. ASSUME NEW k \in Nat, k \in T PROVE k + 1 \in T
  <2> SUFFICES ASSUME k + 1 <= n
               PROVE  /\ After(seq, q, k + 1) \in Seq(E)
                      /\ GoodAfter(seq, q, After(seq, q, k + 1), k + 1)
    OBVIOUS
  <2>1. /\ k \in 0..(n - 1) /\ k + 1 \in 1..n /\ seq[k + 1] \in E
        /\ After(seq, q, k) \in Seq(E) /\ GoodAfter(seq, q, After(seq, q, k), k)
    BY <1>2
  <2>2. After(seq, q, k + 1) = Take(q, After(seq, q, k), seq[k + 1])
    BY <2>1, LoopTurns
  <2> QED
    BY <2>1, <2>2, TakeGood, TakeType
<1>3. \A k \in Nat : k \in T
  <2> HIDE DEF T
  <2> QED
    BY <1>1, <1>2, AllNumbers
<1> QED
  BY <1>3

\* What is chosen of any rows: the best of each kind, TopK at most.
BestOf(rows, q, list) ==
  /\ Listed(list) /\ DOMAIN list = 1..Len(list) /\ Len(list) <= TopK
  /\ \A i \in DOMAIN list : \E j \in DOMAIN rows : list[i] = rows[j]
  /\ \A i, j \in DOMAIN list : list[i].kind = list[j].kind => i = j
  /\ \A j \in DOMAIN rows :
       \/ Dissimilar(rows[j], q)
       \/ \E i \in DOMAIN list : /\ list[i].kind = rows[j].kind
                                 /\ Alike(list[i], q) >= Alike(rows[j], q)
       \/ /\ Len(list) = TopK
          /\ \A i \in DOMAIN list : Alike(list[i], q) >= Alike(rows[j], q)

LEMMA ChosenBest ==
  ASSUME NEW rows, NEW q, IsFiniteSet(DOMAIN rows), DOMAIN rows \subseteq Nat,
         \A i \in DOMAIN rows : Alike(rows[i], q) \in Int
  PROVE  BestOf(rows, q, Chosen(rows, q))
<1> DEFINE n == Cardinality(DOMAIN rows)
           s == Sorted(rows, q)
           E == {rows[i] : i \in DOMAIN rows}
<1>1. /\ n \in Nat /\ DOMAIN s = 1..n
      /\ \A k \in 1..n : \E i \in DOMAIN rows : s[k] = rows[i]
      /\ \A i \in DOMAIN rows : \E k \in 1..n : s[k] = rows[i]
      /\ \A k, l \in 1..n : k < l => Alike(s[k], q) >= Alike(s[l], q)
  BY SortedRows DEF InOrder
<1>2. s = [k \in 1..n |-> s[k]]
  BY <1>1, Zenon DEF Sorted
<1>3. Chosen(rows, q) = After(s, q, n)
  BY <1>1, ChosenIsFold, Zenon DEF After
<1> HIDE DEF s, n
<1>4. s \in [1..n -> E] /\ \A e \in E : Alike(e, q) \in Int
  BY <1>1, <1>2
<1>5. Descending(s, q, n)
  BY <1>1 DEF Descending
<1> HIDE DEF E
<1>6. After(s, q, n) \in Seq(E) /\ GoodAfter(s, q, After(s, q, n), n)
  BY <1>1, <1>4, <1>5, LoopGood
<1> DEFINE list == After(s, q, n)
<1>7. Listed(list) /\ DOMAIN list = 1..Len(list)
  BY <1>6 DEF Listed
<1> HIDE DEF list
<1>8. BestOf(rows, q, list)
  <2>1. GoodAfter(s, q, list, n)
    BY <1>6 DEF list
  <2>2. \A i \in DOMAIN list : \E j \in DOMAIN rows : list[i] = rows[j]
    BY <1>1, <2>1 DEF GoodAfter
  <2>3. ASSUME NEW j \in DOMAIN rows
        PROVE  \/ Dissimilar(rows[j], q)
               \/ \E i \in DOMAIN list : /\ list[i].kind = rows[j].kind
                                         /\ Alike(list[i], q) >= Alike(rows[j], q)
               \/ /\ Len(list) = TopK
                  /\ \A i \in DOMAIN list : Alike(list[i], q) >= Alike(rows[j], q)
    <3>1. PICK k \in 1..n : s[k] = rows[j]
      BY <1>1
    <3> QED
      BY <2>1, <3>1 DEF GoodAfter
  <2> QED
    BY <1>7, <2>1, <2>2, <2>3 DEF BestOf, GoodAfter
<1> QED
  BY <1>3, <1>8 DEF list

-----------------------------------------------------------------------------
(* The best of each kind *)

\* An entry has a score for every query.
Comparable(e) == \A q \in Queries : Alike(e, q) \in 0..100

DistinctIds(d) == \A i, j \in DOMAIN d : d[i].id = d[j].id => i = j

\* What a retrieval has found are entries, each at the place where the index has one with
\* its id, whatever happened to the index since; and what it stores are the chosen ones.
Found(c) ==
  /\ c.query \in Queries /\ c.pos \in Nat \ {0}
  /\ DOMAIN c.scored \subseteq DOMAIN index
  /\ \A i \in DOMAIN c.scored : c.scored[i].id = index[i].id /\ Comparable(c.scored[i])
  /\ c.pc = "store" =>
       /\ c.list = [i \in DOMAIN Chosen(c.scored, c.query) |-> c.list[i]]
       /\ \A i \in DOMAIN c.list : c.list[i].of = Chosen(c.scored, c.query)[i].id

EntriesInv ==
  /\ DistinctIds(index) /\ \A i \in DOMAIN index : Comparable(index[i])
  /\ \A t \in Threads : call[t].pc = "miss" => call[t].query \in Queries
  /\ \A t \in Threads : call[t].pc \in Retrieving => Found(call[t])

LEMMA EntriesInitInv == DiscoveryInit => EntriesInv
<1> SUFFICES ASSUME DiscoveryInit PROVE EntriesInv
  OBVIOUS
<1>1. DOMAIN index = {} /\ \A t \in Threads : call[t].pc = "idle"
  BY DEF DiscoveryInit, Idle
<1> QED
  BY <1>1 DEF EntriesInv, DistinctIds, Retrieving

\* A dict keeps its keys where they are, and has one entry for each.
LEMMA PutEntries ==
  ASSUME NEW d, Listed(d), DistinctIds(d), NEW r
  PROVE  /\ DOMAIN d \subseteq DOMAIN Put(d, r) /\ DistinctIds(Put(d, r))
         /\ \A i \in DOMAIN d : Put(d, r)[i].id = d[i].id
         /\ \A i \in DOMAIN Put(d, r) : Put(d, r)[i] = r \/ (i \in DOMAIN d /\ Put(d, r)[i] = d[i])
<1> DEFINE n == Len(d)
           S == {d[i] : i \in 1..n} \cup {r}
<1>1. n \in Nat /\ d = [i \in 1..n |-> d[i]]
  BY DEF Listed
<1>2. d \in Seq(S) /\ DOMAIN d = 1..n
  <2>1. \A i \in 1..n : d[i] \in S
    OBVIOUS
  <2> HIDE DEF S
  <2>2. d \in [1..n -> S]
    BY <1>1, <2>1
  <2> QED
    BY <1>1, <2>2
<1>3. CASE \E i \in DOMAIN d : d[i].id = r.id
  <2> DEFINE p == [i \in DOMAIN d |-> IF d[i].id = r.id THEN r ELSE d[i]]
  <2>1. Put(d, r) = p
    BY <1>3 DEF Put
  <2>2. DOMAIN p = DOMAIN d /\ \A i \in DOMAIN d : p[i].id = d[i].id
    OBVIOUS
  <2>3. \A i \in DOMAIN d : p[i] = r \/ p[i] = d[i]
    OBVIOUS
  <2> HIDE DEF p
  <2>4. DistinctIds(p)
    BY <2>2 DEF DistinctIds
  <2> QED
    BY <2>1, <2>2, <2>3, <2>4
<1>4. CASE ~\E i \in DOMAIN d : d[i].id = r.id
  <2> DEFINE p == Append(d, r)
  <2>1. Put(d, r) = p
    BY <1>4 DEF Put
  <2>2. r \in S
    OBVIOUS
  <2> HIDE DEF S
  <2>3. DOMAIN p = 1..(n + 1) /\ p[n + 1] = r /\ \A i \in DOMAIN d : p[i] = d[i]
    BY <1>1, <1>2, <2>2
  <2> HIDE DEF p
  <2>4. \A i : i \in DOMAIN p <=> i \in DOMAIN d \/ i = n + 1
    BY <1>1, <1>2, <2>3
  <2>5. DistinctIds(p)
    BY <1>4, <2>3, <2>4 DEF DistinctIds
  <2> QED
    BY <2>1, <2>3, <2>4, <2>5
<1> QED
  BY <1>3, <1>4

\* What a row is compared by does not depend on its id.
LEMMA RenamedComparable ==
  ASSUME NEW r \in Rows, NEW s
  PROVE  Comparable([r EXCEPT !.id = s])
<1>1. /\ r = [id |-> r.id, embedding |-> r.embedding, region |-> r.region, kind |-> r.kind]
      /\ \A q \in Queries : Score[<<q, r.embedding>>] \in 0..100
  BY DiscoveryAssumption
<1>2. [r EXCEPT !.id = s].embedding = r.embedding
  BY <1>1
<1> QED
  BY <1>1, <1>2 DEF Comparable, Alike

\* A retrieval found the same when its marker is set.
LEMMA OutdatedFound ==
  ASSUME NEW c, IsRetrieval(c), c.pc \in Retrieving
  PROVE  LET d == Outdated(c)
         IN  /\ d.pc = c.pc /\ d.query = c.query /\ d.pos = c.pos
             /\ d.scored = c.scored /\ d.list = c.list
<1>1. PICK true : true = TRUE
  OBVIOUS
<1>2. Outdated(c) = [c EXCEPT !.stale = true]
  BY <1>1 DEF Outdated
<1>3. c = [pc |-> c.pc, query |-> c.query, size |-> c.size, pos |-> c.pos,
           scored |-> c.scored, list |-> c.list, stale |-> c.stale]
  BY DEF IsRetrieval
<1>4. [c EXCEPT !.stale = true] =
        [pc |-> c.pc, query |-> c.query, size |-> c.size, pos |-> c.pos,
         scored |-> c.scored, list |-> c.list, stale |-> true]
  BY ONLY <1>3
<1> QED
  BY <1>2, <1>4

\* A step of one retrieval that leaves the index alone.
LEMMA RetrievalEntries ==
  ASSUME DiscoveryInv, EntriesInv, NEW t \in Threads, NEW c,
         call' = [call EXCEPT ![t] = c], index' = index,
         c.pc = "miss" => c.query \in Queries, c.pc \in Retrieving => Found(c)
  PROVE  EntriesInv'
<1>1. \A u \in Threads : call'[u] = IF u = t THEN c ELSE call[u]
  BY DEF DiscoveryInv
<1> QED
  BY <1>1 DEF EntriesInv, Found

\* A turn of the loop may find the entry at its position, which the index has.
LEMMA ScanEntries ==
  ASSUME DiscoveryInv, EntriesInv, NEW t \in Threads, Scan(t)
  PROVE  EntriesInv'
<1> DEFINE c == call[t]
           here == {i \in {c.pos} : InRegion(index[i], c.query)}
           passed == [i \in DOMAIN c.scored \cup here |-> IF i \in here THEN index[i] ELSE c.scored[i]]
           next == [c EXCEPT !.pos = @ + 1, !.scored = passed]
           ranked == [c EXCEPT !.pc = "rank"]
<1>1. c.pc = "scan" /\ index' = index /\ IsRetrieval(c) /\ Found(c) /\ Listed(index)
  BY DEF Scan, Ends, DiscoveryInv, EntriesInv, Retrieving
<1>2. \/ call' = [call EXCEPT ![t] = Idle]
      \/ call' = [call EXCEPT ![t] = ranked]
      \/ /\ Len(index) = c.size /\ ~(c.pos > c.size)
         /\ call' = [call EXCEPT ![t] = next]
  <2> HIDE DEF next, ranked
  <2> QED
    BY Zenon DEF Scan, Ends, next, ranked
<1>3. Idle.pc = "idle"
  BY DEF Idle
<1> HIDE DEF c
<1>4. CASE call' = [call EXCEPT ![t] = Idle]
  BY <1>1, <1>3, <1>4, RetrievalEntries DEF Retrieving
<1>5. CASE call' = [call EXCEPT ![t] = ranked]
  <2>1. /\ ranked.pc = "rank" /\ ranked.query = c.query /\ ranked.pos = c.pos
        /\ ranked.scored = c.scored
    BY <1>1 DEF IsRetrieval
  <2> HIDE DEF ranked
  <2>2. Found(ranked)
    BY <1>1, <2>1 DEF Found
  <2> QED
    BY <1>1, <1>5, <2>1, <2>2, RetrievalEntries
<1>6. CASE /\ Len(index) = c.size /\ ~(c.pos > c.size)
           /\ call' = [call EXCEPT ![t] = next]
  <2>1. /\ next.pc = "scan" /\ next.query = c.query /\ next.pos = c.pos + 1
        /\ next.scored = passed
    <3> HIDE DEF passed
    <3> QED
      BY <1>1 DEF IsRetrieval
  <2>2. c.pos \in DOMAIN index
    <3>1. Len(index) \in Nat /\ DOMAIN index = 1..Len(index) /\ c.pos \in Nat \ {0}
      BY <1>1 DEF Listed, Found
    <3> QED
      BY <1>6, <3>1
  <2>3. /\ DOMAIN passed \subseteq DOMAIN index
        /\ \A i \in DOMAIN passed : passed[i].id = index[i].id /\ Comparable(passed[i])
    <3>1. \A i \in DOMAIN index : Comparable(index[i])
      BY DEF EntriesInv
    <3>2. /\ DOMAIN c.scored \subseteq DOMAIN index
          /\ \A i \in DOMAIN c.scored : c.scored[i].id = index[i].id /\ Comparable(c.scored[i])
      BY <1>1 DEF Found
    <3>3. here \subseteq {c.pos}
      OBVIOUS
    <3> HIDE DEF here
    <3> QED
      BY <2>2, <3>1, <3>2, <3>3
  <2> HIDE DEF passed, next
  <2>4. Found(next)
    BY <1>1, <2>1, <2>3 DEF Found
  <2> QED
    BY <1>1, <1>6, <2>1, <2>4, RetrievalEntries
<1> QED
  BY <1>2, <1>4, <1>5, <1>6

\* What is ranked are the chosen ones, under the ids the index has them by.
LEMMA RankEntries ==
  ASSUME DiscoveryInv, EntriesInv, NEW t \in Threads, Rank(t)
  PROVE  EntriesInv'
<1> DEFINE c == call[t]
           chosen == Chosen(c.scored, c.query)
           list == [i \in DOMAIN chosen |-> CandidateOf(chosen[i], c.query)]
           next == [c EXCEPT !.pc = "store", !.list = list]
<1>1. c.pc = "rank" /\ index' = index /\ IsRetrieval(c) /\ Found(c)
  BY DEF Rank, Ends, DiscoveryInv, EntriesInv, Retrieving
<1>2. \/ call' = [call EXCEPT ![t] = Idle]
      \/ call' = [call EXCEPT ![t] = next]
  BY Zenon DEF Rank, Ends
<1>3. Idle.pc = "idle"
  BY DEF Idle
<1> HIDE DEF c
<1>4. CASE call' = [call EXCEPT ![t] = Idle]
  BY <1>1, <1>3, <1>4, RetrievalEntries DEF Retrieving
<1>5. CASE call' = [call EXCEPT ![t] = next]
  <2>1. /\ next.pc = "store" /\ next.query = c.query /\ next.pos = c.pos
        /\ next.scored = c.scored /\ next.list = list
    <3> HIDE DEF list
    <3> QED
      BY <1>1 DEF IsRetrieval
  <2>2. /\ list = [i \in DOMAIN chosen |-> list[i]]
        /\ \A i \in DOMAIN list : list[i].of = chosen[i].id
    <3> HIDE DEF chosen
    <3> QED
      BY DEF CandidateOf
  <2> HIDE DEF next, list, chosen
  <2>3. Found(next)
    BY <1>1, <2>1, <2>2 DEF Found, chosen
  <2> QED
    BY <1>1, <1>5, <2>1, <2>3, RetrievalEntries
<1> QED
  BY <1>2, <1>4, <1>5

\* The index may grow or change under a retrieval, but what it found stays where it was.
LEMMA IndexSetEntries ==
  ASSUME DiscoveryInv, EntriesInv, NEW t \in Threads, NEW r \in Rows, IndexSet(t, r)
  PROVE  EntriesInv'
<1> DEFINE e == [r EXCEPT !.id = Resolve(@)]
<1>1. /\ index' = Put(index, e)
      /\ call' = [u \in Threads |-> IF u = t THEN [pc |-> "clear"] ELSE Outdated(call[u])]
  BY DEF IndexSet, Outdated, Retrieving
<1>2. Comparable(e)
  BY RenamedComparable
<1> HIDE DEF e
<1>3. /\ DOMAIN index \subseteq DOMAIN index' /\ DistinctIds(index')
      /\ \A i \in DOMAIN index : index'[i].id = index[i].id
      /\ \A i \in DOMAIN index' : index'[i] = e \/ (i \in DOMAIN index /\ index'[i] = index[i])
  BY <1>1, PutEntries DEF DiscoveryInv, EntriesInv
<1>4. \A i \in DOMAIN index' : Comparable(index'[i])
  BY <1>2, <1>3 DEF EntriesInv
<1>5. ASSUME NEW u \in Threads
      PROVE  /\ call'[u].pc = "miss" => call'[u].query \in Queries
             /\ call'[u].pc \in Retrieving => Found(call[u])'
  <2>1. CASE u = t
    BY <1>1, <2>1 DEF Retrieving
  <2>2. CASE u # t /\ call[u].pc \notin Retrieving
    <3>1. call'[u] = call[u]
      BY <1>1, <2>2 DEF Outdated
    <3> QED
      BY <2>2, <3>1 DEF EntriesInv
  <2>3. CASE u # t /\ call[u].pc \in Retrieving
    <3> DEFINE c == call[u]
               d == call'[u]
    <3>1. Found(c) /\ IsRetrieval(c)
      BY <2>3 DEF EntriesInv, DiscoveryInv
    <3>2. /\ d.pc = c.pc /\ d.query = c.query /\ d.pos = c.pos
          /\ d.scored = c.scored /\ d.list = c.list
      BY <1>1, <2>3, <3>1, OutdatedFound
    <3>3. /\ DOMAIN d.scored \subseteq DOMAIN index'
          /\ \A i \in DOMAIN d.scored : d.scored[i].id = index'[i].id /\ Comparable(d.scored[i])
      BY <1>3, <3>1, <3>2 DEF Found
    <3>4. d.query \in Queries /\ d.pos \in Nat \ {0} /\ d.pc # "miss"
      BY <2>3, <3>1, <3>2 DEF Found, Retrieving
    <3>5. d.pc = "store" =>
            /\ d.list = [i \in DOMAIN Chosen(d.scored, d.query) |-> d.list[i]]
            /\ \A i \in DOMAIN d.list : d.list[i].of = Chosen(d.scored, d.query)[i].id
      BY <3>1, <3>2 DEF Found
    <3> HIDE DEF c, d
    <3> QED
      BY <3>3, <3>4, <3>5 DEF Found, d
  <2> QED
    BY <2>1, <2>2, <2>3
<1> QED
  BY <1>3, <1>4, <1>5 DEF EntriesInv, DistinctIds

LEMMA RegisterAliasEntries ==
  ASSUME DiscoveryInv, EntriesInv, NEW old, NEW new, RegisterAlias(old, new)
  PROVE  EntriesInv'
<1>1. index' = index /\ call' = [u \in Threads |-> Outdated(call[u])]
  BY DEF RegisterAlias, Outdated, Retrieving
<1>2. ASSUME NEW u \in Threads
      PROVE  /\ call'[u].pc = "miss" => call'[u].query \in Queries
             /\ call'[u].pc \in Retrieving => Found(call[u])'
  <2>1. CASE call[u].pc \notin Retrieving
    <3>1. call'[u] = call[u]
      BY <1>1, <2>1 DEF Outdated
    <3> QED
      BY <2>1, <3>1 DEF EntriesInv
  <2>2. CASE call[u].pc \in Retrieving
    <3> DEFINE c == call[u]
               d == call'[u]
    <3>1. Found(c) /\ IsRetrieval(c)
      BY <2>2 DEF EntriesInv, DiscoveryInv
    <3>2. /\ d.pc = c.pc /\ d.query = c.query /\ d.pos = c.pos
          /\ d.scored = c.scored /\ d.list = c.list
      BY <1>1, <2>2, <3>1, OutdatedFound
    <3>3. Found(d) /\ d.pc # "miss"
      BY <2>2, <3>1, <3>2 DEF Found, Retrieving
    <3> HIDE DEF c, d
    <3> QED
      BY <1>1, <3>3 DEF Found, d
  <2> QED
    BY <2>1, <2>2
<1> QED
  BY <1>1, <1>2 DEF EntriesInv, DistinctIds

LEMMA EntriesNextInv ==
  DiscoveryInv /\ EntriesInv /\ [DiscoveryNext]_discoveryVars => EntriesInv'
<1> SUFFICES ASSUME DiscoveryInv, EntriesInv, [DiscoveryNext]_discoveryVars PROVE EntriesInv'
  OBVIOUS
<1>0. Idle.pc = "idle"
  BY DEF Idle
<1>1. ASSUME NEW t \in Threads, NEW q \in Queries, Lookup(t, q) PROVE EntriesInv'
  <2> DEFINE c == [pc |-> IF cache[CacheKey[q]] = NoList THEN "miss" ELSE "hit", query |-> q]
  <2>1. /\ call' = [call EXCEPT ![t] = c] /\ index' = index
        /\ c.pc \notin Retrieving /\ c.query \in Queries
    BY <1>1 DEF Lookup, Retrieving
  <2> HIDE DEF c
  <2> QED
    BY <2>1, RetrievalEntries
<1>2. ASSUME NEW t \in Threads, Hit(t) \/ Store(t) \/ IndexClear(t) PROVE EntriesInv'
  <2>1. call' = [call EXCEPT ![t] = Idle] /\ index' = index
    BY <1>2 DEF Hit, Store, IndexClear, Ends
  <2> QED
    BY <1>0, <2>1, RetrievalEntries DEF Retrieving
<1>3. ASSUME NEW t \in Threads, StartScan(t) PROVE EntriesInv'
  <2> DEFINE c == [pc |-> "scan", query |-> call[t].query, size |-> Len(index), pos |-> 1,
                   scored |-> Part(index, {}), list |-> <<>>, stale |-> FALSE]
  <2>1. /\ call[t].pc = "miss" /\ index' = index
        /\ call' = [call EXCEPT ![t] = Idle] \/ call' = [call EXCEPT ![t] = c]
    BY <1>3 DEF StartScan, Ends
  <2>2. c.pc = "scan" /\ Found(c)
    <3>1. call[t].query \in Queries
      BY <2>1 DEF EntriesInv
    <3>2. DOMAIN c.scored = {}
      BY DEF Part
    <3> QED
      BY <3>1, <3>2 DEF Found
  <2> HIDE DEF c
  <2> QED
    BY <1>0, <2>1, <2>2, RetrievalEntries DEF Retrieving
<1>4. ASSUME NEW t \in Threads, NEW r \in Rows, IndexSet(t, r) PROVE EntriesInv'
  BY <1>4, IndexSetEntries
<1>5. ASSUME NEW p \in Renames, RegisterAlias(p[1], p[2]) PROVE EntriesInv'
  BY <1>5, RegisterAliasEntries
<1>6. CASE UNCHANGED discoveryVars
  <2>1. index' = index /\ call' = call
    BY <1>6 DEF discoveryVars
  <2> QED
    BY <2>1 DEF EntriesInv, DistinctIds, Found
<1> QED
  BY <1>1, <1>2, <1>3, <1>4, <1>5, <1>6, ScanEntries, RankEntries DEF DiscoveryNext

\* The candidates a retrieval stores are the best of each kind of what it found.
LEMMA EntriesBest == DiscoveryInv /\ EntriesInv => BestOfEachKind
<1> SUFFICES ASSUME DiscoveryInv, EntriesInv, NEW t \in Threads, call[t].pc = "store"
             PROVE  LET c == call[t]
                        scored == Range(c.scored)
                        Row(x) == CHOOSE r \in scored : r.id = x.of
                        found == {Row(x) : x \in Range(c.list)}
                    IN  /\ Len(c.list) = Cardinality(found) /\ Len(c.list) <= TopK
                        /\ \A x, y \in found : x.kind = y.kind => x = y
                        /\ \A r \in scored \ found :
                             \/ Alike(r, c.query) < SIMILARITY_REVIEW_LOW
                             \/ \E x \in found : /\ x.kind = r.kind
                                                 /\ Alike(x, c.query) >= Alike(r, c.query)
                             \/ /\ Len(c.list) = TopK
                                /\ \A x \in found : Alike(x, c.query) >= Alike(r, c.query)
  BY Zenon DEF BestOfEachKind
<1> DEFINE c == call[t]
           q == c.query
           rows == c.scored
           list == c.list
           chosen == Chosen(rows, q)
           n == Len(chosen)
           scored == Range(rows)
           Row(x) == CHOOSE r \in scored : r.id = x.of
           found == {Row(x) : x \in Range(list)}
<1>1. /\ q \in Queries /\ DOMAIN rows \subseteq DOMAIN index /\ Listed(index) /\ DistinctIds(index)
      /\ \A i \in DOMAIN rows : rows[i].id = index[i].id /\ Comparable(rows[i])
      /\ list = [i \in DOMAIN chosen |-> list[i]]
      /\ \A i \in DOMAIN list : list[i].of = chosen[i].id
  BY DEF Retrieving, DiscoveryInv, EntriesInv, Found
<1> HIDE DEF c, rows, list, q
<1>2. IsFiniteSet(DOMAIN rows) /\ DOMAIN rows \subseteq Nat
  <2>1. Len(index) \in Nat /\ DOMAIN index = 1..Len(index)
    BY <1>1 DEF Listed
  <2>2. IsFiniteSet(1..Len(index))
    BY <2>1, FS_Interval
  <2> QED
    BY <1>1, <2>1, <2>2, FS_Subset
<1>3. \A i \in DOMAIN rows : Alike(rows[i], q) \in Int
  BY <1>1 DEF Comparable
<1>4. BestOf(rows, q, chosen)
  BY <1>2, <1>3, ChosenBest
<1> HIDE DEF chosen, n
<1>5. /\ n \in Nat /\ DOMAIN chosen = 1..n /\ n <= TopK /\ DOMAIN list = 1..n
      /\ \A i \in 1..n : \E j \in DOMAIN rows : chosen[i] = rows[j]
      /\ \A i, j \in 1..n : chosen[i].kind = chosen[j].kind => i = j
      /\ \A j \in DOMAIN rows :
           \/ Alike(rows[j], q) < SIMILARITY_REVIEW_LOW
           \/ \E i \in 1..n : /\ chosen[i].kind = rows[j].kind
                              /\ Alike(chosen[i], q) >= Alike(rows[j], q)
           \/ n = TopK /\ \A i \in 1..n : Alike(chosen[i], q) >= Alike(rows[j], q)
  <2>1. n \in Nat /\ DOMAIN chosen = 1..n /\ n <= TopK
    BY <1>4 DEF BestOf, n
  <2>2. DOMAIN list = 1..n
    BY <1>1, <2>1
  <2> QED
    BY <1>4, <2>1, <2>2, Zenon DEF BestOf, Dissimilar, n
<1>6. Len(list) = n
  <2> DEFINE T == {list[i] : i \in 1..n}
  <2>1. list \in [1..n -> T]
    BY <1>1, <1>5
  <2> HIDE DEF T
  <2>2. list \in Seq(T)
    BY <1>5, <2>1
  <2> QED
    BY <1>5, <2>2
<1>7. scored = {rows[j] : j \in DOMAIN rows} /\ Range(list) = {list[i] : i \in 1..n}
  BY <1>5 DEF Range
<1>8. ASSUME NEW i \in 1..n PROVE Row(list[i]) = chosen[i]
  <2>1. PICK j \in DOMAIN rows : chosen[i] = rows[j]
    BY <1>5
  <2>2. chosen[i] \in scored /\ chosen[i].id = list[i].of
    BY <1>1, <1>5, <1>7, <2>1
  <2>3. ASSUME NEW r \in scored, r.id = list[i].of PROVE r = chosen[i]
    <3>1. PICK h \in DOMAIN rows : r = rows[h]
      BY <1>7
    <3>2. index[h].id = index[j].id /\ h \in DOMAIN index /\ j \in DOMAIN index
      BY <1>1, <2>1, <2>2, <2>3, <3>1
    <3> QED
      BY <1>1, <2>1, <3>1, <3>2 DEF DistinctIds
  <2> HIDE DEF scored
  <2> QED
    BY <2>2, <2>3
<1> HIDE DEF Row
<1>9. found = {chosen[i] : i \in 1..n}
  BY <1>7, <1>8
<1> HIDE DEF found
<1>10. Cardinality(found) = n
  <2> DEFINE f == [i \in 1..n |-> chosen[i]]
  <2>1. f \in [1..n -> found] /\ \A i, j \in 1..n : f[i] = f[j] => i = j
    BY <1>5, <1>9
  <2>2. \A x \in found : \E i \in 1..n : f[i] = x
    BY <1>9
  <2>3. DOMAIN f = 1..n
    OBVIOUS
  <2> HIDE DEF f
  <2>4. f \in Bijection(1..n, found)
    BY <2>1, <2>2, <2>3 DEF Bijection, Injection, Surjection, IsInjective
  <2>5. ExistsBijection(1..n, found)
    BY <2>4 DEF ExistsBijection
  <2> QED
    BY <1>5, <2>5, FS_CountingElements
<1>11. \A x, y \in found : x.kind = y.kind => x = y
  BY <1>5, <1>9
<1>12. ASSUME NEW r \in scored
       PROVE  \/ Alike(r, q) < SIMILARITY_REVIEW_LOW
              \/ \E x \in found : x.kind = r.kind /\ Alike(x, q) >= Alike(r, q)
              \/ n = TopK /\ \A x \in found : Alike(x, q) >= Alike(r, q)
  <2>1. PICK j \in DOMAIN rows : r = rows[j]
    BY <1>7
  <2> QED
    BY <1>5, <1>9, <2>1
<1> HIDE DEF scored
<1>13. /\ n = Cardinality(found) /\ n <= TopK
       /\ \A r \in scored \ found :
            \/ Alike(r, q) < SIMILARITY_REVIEW_LOW
            \/ \E x \in found : x.kind = r.kind /\ Alike(x, q) >= Alike(r, q)
            \/ n = TopK /\ \A x \in found : Alike(x, q) >= Alike(r, q)
  BY <1>5, <1>10, <1>12
<1> QED
  BY <1>6, <1>11, <1>13, Zenon DEF found, Row, scored, rows, list, q, c

\* What retrieve caches are the best candidates of each kind among the entries its scan
\* found, TopK at most, whatever happened to the index meanwhile.
THEOREM CandidatesAreBest == DiscoverySpec => []BestOfEachKind
<1> QED
  BY DiscoveryInitInv, DiscoveryNextInv, EntriesInitInv, EntriesNextInv, EntriesBest, PTL
     DEF DiscoverySpec

-----------------------------------------------------------------------------
(* Renames *)

\* The aliases are ids that lead to ids.
AliasesInv == /\ DOMAIN aliases \subseteq SkillIds
              /\ \A x \in DOMAIN aliases : aliases[x] \in SkillIds

\* One turn of the loop of resolve: the path it has taken, and on to the next id unless
\* there is none or it is where it was before.
GoesOn(p) == Last(p) \in DOMAIN aliases /\ Last(p) \notin Range(Front(p))
Onward(p) == IF GoesOn(p) THEN Append(p, aliases[Last(p)]) ELSE p

Followed(s, f) == f = [n \in Nat |-> IF n = 0 THEN <<s>> ELSE Onward(f[n - 1])]
PathFrom(s) == CHOOSE f : Followed(s, f)

Paths == {p \in Seq(SkillIds) : p # <<>>}

LEMMA PathShape ==
  ASSUME NEW p \in Paths
  PROVE  /\ Len(p) \in Nat \ {0} /\ DOMAIN p = 1..Len(p)
         /\ Len(p) \in 1..Len(p) /\ p[Len(p)] \in SkillIds
         /\ Last(p) = p[Len(p)]
         /\ Range(Front(p)) = {p[i] : i \in 1..(Len(p) - 1)}
<1>1. Len(p) \in Nat /\ Len(p) # 0 /\ DOMAIN p = 1..Len(p) /\ p \in Seq(SkillIds)
  BY DEF Paths
<1>2. Len(p) \in 1..Len(p) /\ p[Len(p)] \in SkillIds
  BY <1>1
<1>3. Front(p) = [i \in 1..(Len(p) - 1) |-> p[i]]
  BY <1>1 DEF Front
<1>4. Range(Front(p)) = {p[i] : i \in 1..(Len(p) - 1)}
  BY <1>3 DEF Range
<1> QED
  BY <1>1, <1>2, <1>4 DEF Last

LEMMA OnwardPath ==
  ASSUME AliasesInv, NEW p \in Paths
  PROVE  Onward(p) \in Paths
<1>1. CASE GoesOn(p)
  <2> DEFINE x == aliases[Last(p)]
  <2>1. x \in SkillIds
    BY <1>1 DEF GoesOn, AliasesInv
  <2> HIDE DEF x
  <2>2. Append(p, x) \in Seq(SkillIds) /\ Append(p, x) # <<>>
    BY <2>1 DEF Paths
  <2> QED
    BY <1>1, <2>2 DEF Onward, Paths, x
<1>2. CASE ~GoesOn(p)
  BY <1>2 DEF Onward
<1> QED
  BY <1>1, <1>2

\* The loop of resolve is a sequence of turns.
LEMMA PathTurns ==
  ASSUME AliasesInv, NEW s \in SkillIds
  PROVE  PathFrom(s)[0] = <<s>> /\ \A n \in Nat : PathFrom(s)[n + 1] = Onward(PathFrom(s)[n])
<1> DEFINE Step == [n \in Nat |-> [p \in Paths |-> Onward(p)]]
<1>1. <<s>> \in Paths /\ Step \in [Nat -> [Paths -> Paths]]
  BY OnwardPath DEF Paths
<1>2. PICK f : IsRun(f, Paths, <<s>>, Step)
  <2> HIDE DEF Step
  <2> QED
    BY <1>1, Iteration
<1>3. f \in [Nat -> Paths] /\ f[0] = <<s>> /\ \A n \in Nat : f[n + 1] = Onward(f[n])
  BY <1>2 DEF IsRun
<1>4. \A n \in Nat : f[n] = IF n = 0 THEN <<s>> ELSE Onward(f[n - 1])
  <2> SUFFICES ASSUME NEW n \in Nat, n # 0 PROVE f[n] = Onward(f[n - 1])
    BY <1>3
  <2>1. n - 1 \in Nat /\ (n - 1) + 1 = n
    OBVIOUS
  <2> QED
    BY <1>3, <2>1
<1>5. Followed(s, f)
  <2>1. f = [n \in Nat |-> f[n]]
    BY <1>3
  <2>2. f = [n \in Nat |-> IF n = 0 THEN <<s>> ELSE Onward(f[n - 1])]
    BY <1>4, <2>1
  <2> QED
    BY <2>2, Zenon DEF Followed
<1> DEFINE g == PathFrom(s)
<1>6. Followed(s, g)
  BY <1>5, Zenon DEF PathFrom
<1> HIDE DEF g
<1>7. \A n \in Nat : g[n] = IF n = 0 THEN <<s>> ELSE Onward(g[n - 1])
  <2> DEFINE e(n) == IF n = 0 THEN <<s>> ELSE Onward(g[n - 1])
  <2>1. g = [n \in Nat |-> e(n)]
    BY <1>6, Zenon DEF Followed
  <2> HIDE DEF e
  <2>2. \A n \in Nat : g[n] = e(n)
    BY <2>1
  <2> QED
    BY <2>2 DEF e
<1>8. \A n \in Nat : g[n + 1] = Onward(g[n])
  <2> SUFFICES ASSUME NEW n \in Nat PROVE g[n + 1] = Onward(g[n])
    OBVIOUS
  <2>1. n + 1 \in Nat /\ n + 1 # 0 /\ (n + 1) - 1 = n
    OBVIOUS
  <2> QED
    BY <1>7, <2>1
<1> QED
  BY <1>7, <1>8 DEF g

\* The definition of Resolve, in terms of its turns.
LEMMA ResolveIsLast ==
  ASSUME NEW s
  PROVE  Resolve(s) = Last(PathFrom(s)[Cardinality(SkillIds)])
  BY Zenon DEF Resolve, PathFrom, Followed, Onward, GoesOn

\* p follows aliases from s, was nowhere twice before its last id, and either took all of
\* n turns or has come to its end.
IsPath(p, s, n) ==
  /\ p \in Paths /\ p[1] = s /\ Len(p) <= n + 1
  /\ \A i \in 1..(Len(p) - 1) : p[i] \in DOMAIN aliases /\ p[i + 1] = aliases[p[i]]
  /\ \A i, j \in 1..(Len(p) - 1) : p[i] = p[j] => i = j
  /\ Len(p) = n + 1 \/ ~GoesOn(p)

LEMMA OnwardIsPath ==
  ASSUME AliasesInv, NEW s \in SkillIds, NEW n \in Nat, NEW p, IsPath(p, s, n)
  PROVE  IsPath(Onward(p), s, n + 1)
<1>1. /\ p \in Paths /\ p[1] = s /\ Len(p) <= n + 1 /\ Len(p) \in Nat \ {0}
      /\ DOMAIN p = 1..Len(p) /\ Last(p) = p[Len(p)] /\ Len(p) \in 1..Len(p)
      /\ Range(Front(p)) = {p[i] : i \in 1..(Len(p) - 1)}
  BY PathShape DEF IsPath
<1>2. CASE ~GoesOn(p)
  <2>1. Onward(p) = p /\ Len(p) <= (n + 1) + 1
    BY <1>1, <1>2 DEF Onward
  <2> QED
    BY <1>2, <2>1 DEF IsPath
<1>3. CASE GoesOn(p)
  <2> DEFINE k == Len(p)
             x == aliases[Last(p)]
             more == Append(p, x)
  <2>1. Onward(p) = more /\ more \in Paths
    BY <1>1, <1>3, OnwardPath DEF Onward
  <2>2. k = n + 1
    BY <1>1, <1>3 DEF IsPath
  <2>3. /\ Len(more) = k + 1 /\ more[k + 1] = x
        /\ \A i \in 1..k : more[i] = p[i]
    BY <1>1 DEF Paths
  <2>4. p[k] \in DOMAIN aliases /\ x = aliases[p[k]] /\ \A i \in 1..(k - 1) : p[i] # p[k]
    BY <1>1, <1>3 DEF GoesOn
  <2>5. \A i \in 1..k : i \in 1..(k - 1) \/ i = k
    <3>1. k \in Nat
      BY <1>1
    <3> HIDE DEF k
    <3> QED
      BY <3>1
  <2> HIDE DEF more, x
  <2>6. ASSUME NEW i \in 1..k PROVE more[i] \in DOMAIN aliases /\ more[i + 1] = aliases[more[i]]
    <3>1. CASE i = k
      BY <2>3, <2>4, <3>1
    <3>2. CASE i \in 1..(k - 1)
      <4>1. i + 1 \in 1..k
        BY <1>1, <3>2
      <4> QED
        BY <2>3, <3>2, <4>1 DEF IsPath
    <3> QED
      BY <2>5, <3>1, <3>2
  <2>7. ASSUME NEW i \in 1..k, NEW j \in 1..k, more[i] = more[j] PROVE i = j
    <3>1. p[i] = p[j]
      BY <2>3, <2>7
    <3> QED
      BY <2>4, <2>5, <3>1 DEF IsPath
  <2>8. more[1] = s /\ (k + 1) - 1 = k
    BY <1>1, <2>3
  <2>9. Len(more) = (n + 1) + 1
    BY <2>2, <2>3
  <2>10. Len(more) - 1 = k
    BY <1>1, <2>3
  <2> HIDE DEF k
  <2>11. IsPath(more, s, n + 1)
    <3>1. Len(more) <= (n + 1) + 1
      BY <2>9
    <3> QED
      BY <2>1, <2>6, <2>7, <2>8, <2>9, <2>10, <3>1 DEF IsPath
  <2> QED
    BY <2>1, <2>11
<1> QED
  BY <1>2, <1>3

LEMMA AllPaths ==
  ASSUME AliasesInv, NEW s \in SkillIds
  PROVE  \A n \in Nat : IsPath(PathFrom(s)[n], s, n)
<1> DEFINE T == {n \in Nat : IsPath(PathFrom(s)[n], s, n)}
<1>1. 0 \in T
  <2>1. PathFrom(s)[0] = <<s>>
    BY PathTurns
  <2>2. <<s>> \in Paths /\ Len(<<s>>) = 1 /\ <<s>>[1] = s /\ 1..(1 - 1) = {}
    BY DEF Paths
  <2>3. IsPath(<<s>>, s, 0)
    BY <2>2 DEF IsPath
  <2> QED
    BY <2>1, <2>3
<1>2. ASSUME NEW n \in Nat, n \in T PROVE n + 1 \in T
  <2>1. PathFrom(s)[n + 1] = Onward(PathFrom(s)[n])
    BY PathTurns
  <2> QED
    BY <1>2, <2>1, OnwardIsPath
<1>3. \A n \in Nat : n \in T
  <2> HIDE DEF T
  <2> QED
    BY <1>1, <1>2, AllNumbers
<1> QED
  BY <1>3

\* As many turns as there are ids are enough.
LEMMA PathsEnd ==
  ASSUME AliasesInv, NEW s \in SkillIds, NEW p, IsPath(p, s, Cardinality(SkillIds))
  PROVE  ~GoesOn(p)
<1> DEFINE N == Cardinality(SkillIds)
<1>1. N \in Nat /\ IsFiniteSet(SkillIds)
  BY DiscoveryAssumption, FS_CardinalityType
<1> SUFFICES ASSUME GoesOn(p) PROVE FALSE
  OBVIOUS
<1>2. /\ Len(p) = N + 1 /\ p \in Paths
      /\ \A i, j \in 1..N : p[i] = p[j] => i = j
  BY <1>1 DEF IsPath
<1>3. /\ Last(p) \in SkillIds /\ Range(Front(p)) = {p[i] : i \in 1..N}
      /\ \A i \in 1..N : p[i] \in SkillIds
  <2>1. Len(p) - 1 = N
    BY <1>1, <1>2
  <2>2. Last(p) \in SkillIds /\ Range(Front(p)) = {p[i] : i \in 1..N} /\ DOMAIN p = 1..Len(p)
    BY <1>2, <2>1, PathShape
  <2>3. \A i \in 1..Len(p) : p[i] \in SkillIds
    BY <1>2, <2>2 DEF Paths
  <2>4. \A i \in 1..N : i \in 1..Len(p)
    BY <1>1, <1>2
  <2> QED
    BY <2>2, <2>3, <2>4
<1> DEFINE f == [i \in 1..N |-> p[i]]
<1>4. f \in Injection(1..N, SkillIds)
  <2> HIDE DEF N
  <2>1. f \in [1..N -> SkillIds] /\ DOMAIN f = 1..N /\ \A i \in 1..N : f[i] = p[i]
    BY <1>3
  <2> HIDE DEF f
  <2> QED
    BY <1>2, <2>1 DEF Injection, IsInjective
<1>5. Cardinality(1..N) = N
  <2> HIDE DEF N
  <2> QED
    BY <1>1, FS_Interval
<1>6. f \in Surjection(1..N, SkillIds)
  <2> HIDE DEF f
  <2> QED
    BY <1>1, <1>4, <1>5, FS_Injection
<1>7. \A x \in SkillIds : \E i \in 1..N : p[i] = x
  <2> HIDE DEF N
  <2> QED
    BY <1>6 DEF Surjection
<1>8. Last(p) \in Range(Front(p))
  <2> HIDE DEF N
  <2> QED
    BY <1>3, <1>7
<1> QED
  BY <1>8 DEF GoesOn

Images(S) == {aliases[x] : x \in S \cap DOMAIN aliases}
Reaches(s, f) == f = [n \in Nat |-> IF n = 0 THEN {s} ELSE Images(f[n - 1])]
AfterTurns(s) == CHOOSE f : Reaches(s, f)

LEMMA ReachedIsUnion ==
  ASSUME NEW s
  PROVE  ReachedFrom(s) = UNION {AfterTurns(s)[n] : n \in 1..Cardinality(SkillIds)}
  BY Zenon DEF ReachedFrom, AfterTurns, Reaches, Images

\* The ids n aliases away are those one alias away from those n - 1 away.
LEMMA ReachTurns ==
  ASSUME AliasesInv, NEW s \in SkillIds
  PROVE  AfterTurns(s)[0] = {s} /\ \A n \in Nat : AfterTurns(s)[n + 1] = Images(AfterTurns(s)[n])
<1> DEFINE V == SUBSET SkillIds
           Step == [n \in Nat |-> [S \in V |-> Images(S)]]
<1>1. {s} \in V /\ Step \in [Nat -> [V -> V]]
  <2>1. \A S \in V : Images(S) \in V
    BY DEF AliasesInv, Images
  <2> HIDE DEF V
  <2>2. Step \in [Nat -> [V -> V]]
    BY <2>1
  <2> QED
    BY <2>2 DEF V
<1>2. PICK f : IsRun(f, V, {s}, Step)
  <2> HIDE DEF Step, V
  <2> QED
    BY <1>1, Iteration
<1>3. f \in [Nat -> V] /\ f[0] = {s} /\ \A n \in Nat : f[n + 1] = Images(f[n])
  <2> HIDE DEF V
  <2> QED
    BY <1>2 DEF IsRun
<1>4. \A n \in Nat : f[n] = IF n = 0 THEN {s} ELSE Images(f[n - 1])
  <2> SUFFICES ASSUME NEW n \in Nat, n # 0 PROVE f[n] = Images(f[n - 1])
    BY <1>3
  <2>1. n - 1 \in Nat /\ (n - 1) + 1 = n
    OBVIOUS
  <2> QED
    BY <1>3, <2>1
<1>5. Reaches(s, f)
  <2>1. f = [n \in Nat |-> f[n]]
    BY <1>3
  <2>2. f = [n \in Nat |-> IF n = 0 THEN {s} ELSE Images(f[n - 1])]
    BY <1>4, <2>1
  <2> QED
    BY <2>2, Zenon DEF Reaches
<1> DEFINE g == AfterTurns(s)
<1>6. Reaches(s, g)
  BY <1>5, Zenon DEF AfterTurns
<1> HIDE DEF g
<1>7. \A n \in Nat : g[n] = IF n = 0 THEN {s} ELSE Images(g[n - 1])
  <2> DEFINE e(n) == IF n = 0 THEN {s} ELSE Images(g[n - 1])
  <2>1. g = [n \in Nat |-> e(n)]
    BY <1>6, Zenon DEF Reaches
  <2> HIDE DEF e
  <2>2. \A n \in Nat : g[n] = e(n)
    BY <2>1
  <2> QED
    BY <2>2 DEF e
<1>8. \A n \in Nat : g[n + 1] = Images(g[n])
  <2> SUFFICES ASSUME NEW n \in Nat PROVE g[n + 1] = Images(g[n])
    OBVIOUS
  <2>1. n + 1 \in Nat /\ n + 1 # 0 /\ (n + 1) - 1 = n
    OBVIOUS
  <2> QED
    BY <1>7, <2>1
<1> QED
  BY <1>7, <1>8 DEF g

\* On a path, an id reaches what comes behind it.
LEMMA PathReaches ==
  ASSUME AliasesInv, NEW s \in SkillIds, NEW n \in Nat, NEW p, IsPath(p, s, n),
         NEW j \in 1..Len(p), NEW d \in Nat, j + d <= Len(p)
  PROVE  p[j] \in SkillIds /\ p[j + d] \in AfterTurns(p[j])[d]
<1> DEFINE T == {e \in Nat : j + e <= Len(p) => p[j + e] \in AfterTurns(p[j])[e]}
<1>1. p \in Paths /\ Len(p) \in Nat /\ DOMAIN p = 1..Len(p) /\ p[j] \in SkillIds
  <2>1. p \in Paths /\ Len(p) \in Nat /\ DOMAIN p = 1..Len(p)
    BY PathShape DEF IsPath
  <2> QED
    BY <2>1 DEF Paths
<1>2. /\ AfterTurns(p[j])[0] = {p[j]}
      /\ \A e \in Nat : AfterTurns(p[j])[e + 1] = Images(AfterTurns(p[j])[e])
  BY <1>1, ReachTurns
<1>3. 0 \in T
  <2>1. j + 0 = j
    BY <1>1
  <2> QED
    BY <1>2, <2>1
<1>4. ASSUME NEW e \in Nat, e \in T PROVE e + 1 \in T
  <2> SUFFICES ASSUME j + (e + 1) <= Len(p) PROVE p[j + (e + 1)] \in AfterTurns(p[j])[e + 1]
    OBVIOUS
  <2>1. j + e \in 1..(Len(p) - 1) /\ (j + e) + 1 = j + (e + 1)
    BY <1>1
  <2>2. p[j + e] \in DOMAIN aliases /\ p[j + (e + 1)] = aliases[p[j + e]]
    BY <2>1 DEF IsPath
  <2>3. p[j + e] \in AfterTurns(p[j])[e]
    BY <1>1, <1>4, <2>1
  <2> QED
    BY <1>2, <2>2, <2>3 DEF Images
<1>5. \A e \in Nat : e \in T
  <2> HIDE DEF T
  <2> QED
    BY <1>3, <1>4, AllNumbers
<1> QED
  BY <1>1, <1>5

\* The path of resolve ends where the property wants it to.
LEMMA AliasesEnd == AliasesInv => RenamesEnd
<1> SUFFICES ASSUME AliasesInv, NEW s \in SkillIds
             PROVE  LET x == Resolve(s)
                    IN  /\ x = s \/ x \in ReachedFrom(s)
                        /\ x \notin DOMAIN aliases \/ x \in ReachedFrom(x)
  BY Zenon DEF RenamesEnd
<1> DEFINE N == Cardinality(SkillIds)
           p == PathFrom(s)[N]
           x == Resolve(s)
           k == Len(p)
<1>1. N \in Nat
  BY DiscoveryAssumption, FS_CardinalityType
<1>2. IsPath(p, s, N)
  <2> HIDE DEF N
  <2> QED
    BY <1>1, AllPaths
<1>3. x = Last(p)
  BY ResolveIsLast
<1>4. ~GoesOn(p)
  BY <1>2, PathsEnd
<1> HIDE DEF p, x
<1>5. /\ k \in Nat \ {0} /\ k <= N + 1 /\ x = p[k] /\ p[1] = s /\ x \in SkillIds
      /\ Range(Front(p)) = {p[i] : i \in 1..(k - 1)}
  BY <1>2, <1>3, PathShape DEF IsPath
<1> HIDE DEF N, k
<1>6. ASSUME NEW j \in 1..(k - 1) PROVE x \in ReachedFrom(p[j])
  <2>1. k - j \in 1..N /\ k - j \in Nat /\ j + (k - j) = k /\ j \in 1..k
    BY <1>1, <1>5
  <2>2. x \in AfterTurns(p[j])[k - j]
    <3>1. j + (k - j) <= k
      BY <1>5, <2>1
    <3>2. p[j + (k - j)] \in AfterTurns(p[j])[k - j]
      BY <1>1, <1>2, <2>1, <3>1, PathReaches DEF k
    <3> QED
      BY <1>5, <2>1, <3>2
  <2>3. x \in UNION {AfterTurns(p[j])[n] : n \in 1..N}
    BY <2>1, <2>2
  <2> QED
    BY <2>3, ReachedIsUnion DEF N
<1>7. x = s \/ x \in ReachedFrom(s)
  <2>1. CASE k = 1
    BY <1>5, <2>1
  <2>2. CASE k # 1
    <3>1. 1 \in 1..(k - 1)
      BY <1>5, <2>2
    <3> QED
      BY <1>5, <1>6, <3>1
  <2> QED
    BY <2>1, <2>2
<1>8. x \notin DOMAIN aliases \/ x \in ReachedFrom(x)
  <2> SUFFICES ASSUME x \in DOMAIN aliases PROVE x \in ReachedFrom(x)
    OBVIOUS
  <2>1. x \in Range(Front(p))
    BY <1>3, <1>4 DEF GoesOn
  <2>2. PICK j \in 1..(k - 1) : x = p[j]
    BY <1>5, <2>1
  <2> QED
    BY <1>6, <2>2
<1> QED
  BY <1>7, <1>8 DEF x

LEMMA AliasesInitInv == DiscoveryInit => AliasesInv
  BY DEF DiscoveryInit, AliasesInv

LEMMA AliasesNextInv == AliasesInv /\ [DiscoveryNext]_discoveryVars => AliasesInv'
<1> SUFFICES ASSUME AliasesInv, [DiscoveryNext]_discoveryVars PROVE AliasesInv'
  OBVIOUS
<1>1. ASSUME NEW p \in Renames, RegisterAlias(p[1], p[2]) PROVE AliasesInv'
  <2>1. p[1] \in SkillIds /\ p[2] \in SkillIds
    BY DiscoveryAssumption
  <2>2. aliases' = [s \in DOMAIN aliases \cup {p[1]} |-> IF s = p[1] THEN p[2] ELSE aliases[s]]
    BY <1>1 DEF RegisterAlias
  <2> QED
    BY <2>1, <2>2 DEF AliasesInv
<1>2. CASE UNCHANGED aliases
  BY <1>2 DEF AliasesInv
<1>3. ASSUME NEW t \in Threads,
             \/ \E q \in Queries : Lookup(t, q)
             \/ Hit(t) \/ StartScan(t) \/ Scan(t) \/ Rank(t) \/ Store(t)
             \/ \E r \in Rows : IndexSet(t, r)
             \/ IndexClear(t)
      PROVE  UNCHANGED aliases
  BY <1>3, Zenon DEF Lookup, Hit, StartScan, Scan, Rank, Store, IndexSet, IndexClear, Ends
<1> QED
  BY <1>1, <1>2, <1>3 DEF DiscoveryNext, discoveryVars

\* However aliases are registered, following them ends within as many turns as there are
\* ids, at an id that is no alias or on a circle.
THEOREM RenamesAlwaysEnd == DiscoverySpec => []RenamesEnd
<1> QED
  BY AliasesInitInv, AliasesNextInv, AliasesEnd, PTL DEF DiscoverySpec

-----------------------------------------------------------------------------
(* Types *)

IndexRows == {[r EXCEPT !.id = s] : r \in Rows, s \in SkillIds}

\* A call in a known stage, with entries of the index found and with candidates to store.
Typed(c) ==
  /\ c.pc \in {"idle", "hit", "miss", "scan", "rank", "store", "clear"}
  /\ c.pc \in Retrieving => \A i \in DOMAIN c.scored : c.scored[i] \in IndexRows
  /\ c.pc = "store" => c.list \in Seq(Candidates) /\ c.list # <<>>

TypesInv ==
  /\ \A i \in DOMAIN index : index[i] \in IndexRows
  /\ \A k \in Keys : cache[k] # NoList => cache[k] \in Entries /\ cache[k].list # <<>>
  /\ \A t \in Threads : Typed(call[t])

LEMMA TypesInitInv == DiscoveryInit => TypesInv
<1> SUFFICES ASSUME DiscoveryInit PROVE TypesInv
  OBVIOUS
<1>1. DOMAIN index = {} /\ \A k \in Keys : cache[k] = NoList
  BY DEF DiscoveryInit
<1>2. \A t \in Threads : call[t].pc = "idle"
  BY DEF DiscoveryInit, Idle
<1> QED
  BY <1>1, <1>2 DEF TypesInv, Typed, Retrieving

\* An id resolves to an id.
LEMMA ResolveType ==
  ASSUME AliasesInv, NEW s \in SkillIds
  PROVE  Resolve(s) \in SkillIds
<1> DEFINE N == Cardinality(SkillIds)
           p == PathFrom(s)[N]
<1>1. N \in Nat
  BY DiscoveryAssumption, FS_CardinalityType
<1>2. IsPath(p, s, N)
  BY <1>1, AllPaths
<1> HIDE DEF p
<1>3. Last(p) \in SkillIds
  BY <1>2, PathShape DEF IsPath
<1> QED
  BY <1>3, ResolveIsLast DEF p

\* A step of one call that leaves the index alone, and of the cache keeps what it keeps.
LEMMA CallTypes ==
  ASSUME DiscoveryInv, TypesInv, NEW t \in Threads, NEW c, Typed(c),
         call' = [call EXCEPT ![t] = c], index' = index,
         \A k \in Keys : cache'[k] \in {cache[k], NoList}
  PROVE  TypesInv'
<1>1. \A u \in Threads : call'[u] = IF u = t THEN c ELSE call[u]
  BY DEF DiscoveryInv
<1>2. \A u \in Threads : Typed(call'[u])
  BY <1>1 DEF TypesInv
<1>3. \A k \in Keys : cache'[k] # NoList => cache'[k] \in Entries /\ cache'[k].list # <<>>
  BY DEF TypesInv
<1> QED
  BY <1>2, <1>3 DEF TypesInv, Typed

\* The marker of a retrieval is no part of what the others are typed by.
LEMMA OutdatedTyped ==
  ASSUME NEW c, Typed(c), c.pc \in Retrieving => IsRetrieval(c)
  PROVE  Typed(Outdated(c))
<1>1. CASE c.pc \notin Retrieving
  BY <1>1 DEF Outdated
<1>2. CASE c.pc \in Retrieving
  <2> DEFINE d == Outdated(c)
  <2>1. d.pc = c.pc /\ d.scored = c.scored /\ d.list = c.list
    BY <1>2, OutdatedFound
  <2> HIDE DEF d
  <2>2. Typed(d)
    BY <2>1 DEF Typed
  <2> QED
    BY <2>2 DEF d
<1> QED
  BY <1>1, <1>2

LEMMA ScanTypes ==
  ASSUME DiscoveryInv, EntriesInv, TypesInv, NEW t \in Threads, Scan(t)
  PROVE  TypesInv'
<1> DEFINE c == call[t]
           here == {i \in {c.pos} : InRegion(index[i], c.query)}
           passed == [i \in DOMAIN c.scored \cup here |-> IF i \in here THEN index[i] ELSE c.scored[i]]
           next == [c EXCEPT !.pos = @ + 1, !.scored = passed]
           ranked == [c EXCEPT !.pc = "rank"]
<1>1. /\ c.pc = "scan" /\ index' = index /\ cache' = cache
      /\ IsRetrieval(c) /\ Found(c) /\ Listed(index) /\ Typed(c)
  BY DEF Scan, Ends, DiscoveryInv, EntriesInv, TypesInv, Retrieving
<1>2. \/ call' = [call EXCEPT ![t] = Idle]
      \/ call' = [call EXCEPT ![t] = ranked]
      \/ /\ Len(index) = c.size /\ ~(c.pos > c.size)
         /\ call' = [call EXCEPT ![t] = next]
  <2> HIDE DEF next, ranked
  <2> QED
    BY Zenon DEF Scan, Ends, next, ranked
<1>3. Typed(Idle)
  BY DEF Idle, Typed, Retrieving
<1> HIDE DEF c
<1>4. CASE call' = [call EXCEPT ![t] = Idle]
  BY <1>1, <1>3, <1>4, CallTypes
<1>5. CASE call' = [call EXCEPT ![t] = ranked]
  <2>1. ranked.pc = "rank" /\ ranked.scored = c.scored
    BY <1>1 DEF IsRetrieval
  <2> HIDE DEF ranked
  <2>2. Typed(ranked)
    BY <1>1, <2>1 DEF Typed, Retrieving
  <2> QED
    BY <1>1, <1>5, <2>2, CallTypes
<1>6. CASE /\ Len(index) = c.size /\ ~(c.pos > c.size)
           /\ call' = [call EXCEPT ![t] = next]
  <2>1. next.pc = "scan" /\ next.scored = passed
    <3> HIDE DEF passed
    <3> QED
      BY <1>1 DEF IsRetrieval
  <2>2. c.pos \in DOMAIN index
    <3>1. Len(index) \in Nat /\ DOMAIN index = 1..Len(index) /\ c.pos \in Nat \ {0}
      BY <1>1 DEF Listed, Found
    <3> QED
      BY <1>6, <3>1
  <2>3. \A i \in DOMAIN passed : passed[i] \in IndexRows
    <3>1. index[c.pos] \in IndexRows
      BY <2>2 DEF TypesInv
    <3>2. \A i \in DOMAIN c.scored : c.scored[i] \in IndexRows
      BY <1>1 DEF Typed, Retrieving
    <3>3. here \subseteq {c.pos}
      OBVIOUS
    <3> HIDE DEF here, IndexRows
    <3> QED
      BY <3>1, <3>2, <3>3
  <2> HIDE DEF passed, next
  <2>4. Typed(next)
    BY <2>1, <2>3 DEF Typed
  <2> QED
    BY <1>1, <1>6, <2>4, CallTypes
<1> QED
  BY <1>2, <1>4, <1>5, <1>6

\* A chosen entry of the index makes a candidate.
LEMMA CandidateType ==
  ASSUME AliasesInv, NEW e \in IndexRows, NEW q \in Queries, Comparable(e)
  PROVE  CandidateOf(e, q) \in Candidates
<1>1. PICK r \in Rows, s \in SkillIds : e = [r EXCEPT !.id = s]
  BY DEF IndexRows
<1>2. r = [id |-> r.id, embedding |-> r.embedding, region |-> r.region, kind |-> r.kind]
  BY DiscoveryAssumption
<1>3. e.id \in SkillIds
  BY <1>1, <1>2
<1>4. Resolve(e.id) \in SkillIds /\ Alike(e, q) \in 0..100
  BY <1>3, ResolveType DEF Comparable
<1> DEFINE score == Alike(e, q)
           close == score < SIMILARITY_REVIEW_HIGH
<1>5. CandidateOf(e, q) = [id |-> Resolve(e.id), of |-> e.id, score |-> score,
                           requires_review |-> close]
  BY DEF CandidateOf
<1>6. close \in BOOLEAN
  OBVIOUS
<1> HIDE DEF close, score
<1> QED
  BY <1>3, <1>4, <1>5, <1>6 DEF Candidates, score

LEMMA RankTypes ==
  ASSUME DiscoveryInv, EntriesInv, AliasesInv, TypesInv, NEW t \in Threads, Rank(t)
  PROVE  TypesInv'
<1> DEFINE c == call[t]
           chosen == Chosen(c.scored, c.query)
           list == [i \in DOMAIN chosen |-> CandidateOf(chosen[i], c.query)]
           next == [c EXCEPT !.pc = "store", !.list = list]
<1>1. /\ c.pc = "rank" /\ index' = index /\ cache' = cache
      /\ IsRetrieval(c) /\ Found(c) /\ Listed(index) /\ Typed(c)
  BY DEF Rank, Ends, DiscoveryInv, EntriesInv, TypesInv, Retrieving
<1>2. \/ call' = [call EXCEPT ![t] = Idle]
      \/ chosen # <<>> /\ call' = [call EXCEPT ![t] = next]
  BY Zenon DEF Rank, Ends
<1>3. Typed(Idle)
  BY DEF Idle, Typed, Retrieving
<1> HIDE DEF c
<1>4. CASE call' = [call EXCEPT ![t] = Idle]
  BY <1>1, <1>3, <1>4, CallTypes
<1>5. CASE chosen # <<>> /\ call' = [call EXCEPT ![t] = next]
  <2>1. next.pc = "store" /\ next.scored = c.scored /\ next.list = list
    <3> HIDE DEF list
    <3> QED
      BY <1>1 DEF IsRetrieval
  <2>2. /\ c.query \in Queries
        /\ \A i \in DOMAIN c.scored : Comparable(c.scored[i]) /\ c.scored[i] \in IndexRows
    BY <1>1 DEF Found, Typed, Retrieving
  <2>3. BestOf(c.scored, c.query, chosen)
    <3>1. IsFiniteSet(DOMAIN c.scored) /\ DOMAIN c.scored \subseteq Nat
      <4>1. DOMAIN index = 1..Len(index) /\ Len(index) \in Nat
        BY <1>1 DEF Listed
      <4>2. IsFiniteSet(1..Len(index)) /\ 1..Len(index) \subseteq Nat
        BY <4>1, FS_Interval
      <4>3. DOMAIN c.scored \subseteq 1..Len(index)
        BY <1>1, <4>1 DEF Found
      <4> QED
        BY <4>2, <4>3, FS_Subset
    <3>2. \A i \in DOMAIN c.scored : Alike(c.scored[i], c.query) \in Int
      BY <2>2 DEF Comparable
    <3> QED
      BY <3>1, <3>2, ChosenBest
  <2> HIDE DEF chosen
  <2>4. /\ Len(chosen) \in Nat /\ DOMAIN chosen = 1..Len(chosen)
        /\ \A i \in DOMAIN chosen : chosen[i] \in IndexRows /\ Comparable(chosen[i])
    BY <2>2, <2>3 DEF BestOf, Listed
  <2>5. \A i \in 1..Len(chosen) : list[i] \in Candidates
    BY <2>2, <2>4, CandidateType
  <2>6. Len(chosen) # 0
    <3> SUFFICES ASSUME Len(chosen) = 0 PROVE chosen = <<>>
      BY <1>5
    <3> QED
      BY <2>3 DEF BestOf, Listed
  <2>7. list \in Seq(Candidates) /\ list # <<>>
    <3>1. list = [i \in 1..Len(chosen) |-> list[i]]
      BY <2>4
    <3> HIDE DEF list
    <3>2. list \in [1..Len(chosen) -> Candidates]
      BY <2>5, <3>1
    <3> QED
      BY <2>4, <2>6, <3>2
  <2> HIDE DEF list, next
  <2>8. Typed(next)
    BY <1>1, <2>1, <2>7 DEF Typed, Retrieving
  <2> QED
    BY <1>1, <1>5, <2>8, CallTypes
<1> QED
  BY <1>2, <1>4, <1>5

LEMMA StoreTypes ==
  ASSUME DiscoveryInv, EntriesInv, TypesInv, NEW t \in Threads, Store(t)
  PROVE  TypesInv'
<1> DEFINE c == call[t]
           key == CacheKey[c.query]
           entry == [list |-> c.list, query |-> c.query, stale |-> c.stale]
<1>1. /\ c.pc = "store" /\ index' = index
      /\ cache' = [cache EXCEPT ![key] = entry] /\ call' = [call EXCEPT ![t] = Idle]
      /\ IsRetrieval(c) /\ Found(c) /\ Typed(c)
  BY DEF Store, Ends, DiscoveryInv, EntriesInv, TypesInv, Retrieving
<1>2. entry \in Entries /\ entry.list # <<>>
  BY <1>1 DEF IsRetrieval, Found, Typed, Entries
<1>3. /\ \A u \in Threads : call'[u] = IF u = t THEN Idle ELSE call[u]
      /\ \A k \in Keys : cache'[k] \in {cache[k], entry}
  <2> HIDE DEF key, entry
  <2> QED
    BY <1>1 DEF DiscoveryInv
<1>4. Typed(Idle)
  BY DEF Idle, Typed, Retrieving
<1>5. \A u \in Threads : Typed(call'[u])
  BY <1>3, <1>4 DEF TypesInv
<1> HIDE DEF entry
<1>6. \A k \in Keys : cache'[k] # NoList => cache'[k] \in Entries /\ cache'[k].list # <<>>
  BY <1>2, <1>3 DEF TypesInv
<1> QED
  BY <1>1, <1>5, <1>6 DEF TypesInv, Typed

LEMMA IndexSetTypes ==
  ASSUME DiscoveryInv, EntriesInv, AliasesInv, TypesInv,
         NEW t \in Threads, NEW r \in Rows, IndexSet(t, r)
  PROVE  TypesInv'
<1> DEFINE e == [r EXCEPT !.id = Resolve(@)]
<1>1. /\ index' = Put(index, e) /\ cache' = cache
      /\ call' = [u \in Threads |-> IF u = t THEN [pc |-> "clear"] ELSE Outdated(call[u])]
  BY DEF IndexSet, Outdated, Retrieving
<1>2. e \in IndexRows
  <2>1. Resolve(r.id) \in SkillIds
    BY DiscoveryAssumption, ResolveType
  <2>2. e = [r EXCEPT !.id = Resolve(r.id)]
    OBVIOUS
  <2> QED
    BY <2>1, <2>2 DEF IndexRows
<1> HIDE DEF e
<1>3. \A i \in DOMAIN index' : index'[i] = e \/ (i \in DOMAIN index /\ index'[i] = index[i])
  BY <1>1, PutEntries DEF DiscoveryInv, EntriesInv
<1>4. \A i \in DOMAIN index' : index'[i] \in IndexRows
  BY <1>2, <1>3 DEF TypesInv
<1>5. \A u \in Threads : Typed(call'[u])
  <2>1. Typed([pc |-> "clear"])
    BY DEF Typed, Retrieving
  <2>2. \A u \in Threads : Typed(Outdated(call[u]))
    BY OutdatedTyped DEF TypesInv, DiscoveryInv
  <2> QED
    BY <1>1, <2>1, <2>2
<1> QED
  BY <1>1, <1>4, <1>5 DEF TypesInv, Typed

LEMMA TypesNextInv ==
  DiscoveryInv /\ EntriesInv /\ AliasesInv /\ TypesInv /\ [DiscoveryNext]_discoveryVars => TypesInv'
<1> SUFFICES ASSUME DiscoveryInv, EntriesInv, AliasesInv, TypesInv, [DiscoveryNext]_discoveryVars
             PROVE  TypesInv'
  OBVIOUS
<1>0. Typed(Idle)
  BY DEF Idle, Typed, Retrieving
<1>1. ASSUME NEW t \in Threads, NEW q \in Queries, Lookup(t, q) PROVE TypesInv'
  <2> DEFINE c == [pc |-> IF cache[CacheKey[q]] = NoList THEN "miss" ELSE "hit", query |-> q]
  <2>1. call' = [call EXCEPT ![t] = c] /\ index' = index /\ cache' = cache /\ Typed(c)
    BY <1>1 DEF Lookup, Typed, Retrieving
  <2> HIDE DEF c
  <2> QED
    BY <2>1, CallTypes
<1>2. ASSUME NEW t \in Threads, Hit(t) \/ IndexClear(t) PROVE TypesInv'
  <2>1. /\ call' = [call EXCEPT ![t] = Idle] /\ index' = index
        /\ cache' = cache \/ cache' = [k \in Keys |-> NoList]
    BY <1>2 DEF Hit, IndexClear, Ends
  <2> QED
    BY <1>0, <2>1, CallTypes
<1>3. ASSUME NEW t \in Threads, StartScan(t) PROVE TypesInv'
  <2> DEFINE c == [pc |-> "scan", query |-> call[t].query, size |-> Len(index), pos |-> 1,
                   scored |-> Part(index, {}), list |-> <<>>, stale |-> FALSE]
  <2>1. /\ index' = index /\ cache' = cache
        /\ call' = [call EXCEPT ![t] = Idle] \/ call' = [call EXCEPT ![t] = c]
    BY <1>3 DEF StartScan, Ends
  <2>2. Typed(c)
    BY DEF Typed, Part
  <2> HIDE DEF c
  <2> QED
    BY <1>0, <2>1, <2>2, CallTypes
<1>4. ASSUME NEW p \in Renames, RegisterAlias(p[1], p[2]) PROVE TypesInv'
  <2>1. /\ index' = index /\ cache' = cache
        /\ call' = [u \in Threads |-> Outdated(call[u])]
    BY <1>4 DEF RegisterAlias, Outdated, Retrieving
  <2>2. \A u \in Threads : Typed(call'[u])
    BY <2>1, OutdatedTyped DEF TypesInv, DiscoveryInv
  <2> QED
    BY <2>1, <2>2 DEF TypesInv, Typed
<1>5. CASE UNCHANGED discoveryVars
  BY <1>5 DEF discoveryVars, TypesInv, Typed
<1>6. ASSUME NEW t \in Threads, NEW r \in Rows, IndexSet(t, r) PROVE TypesInv'
  BY <1>6, IndexSetTypes
<1> QED
  BY <1>1, <1>2, <1>3, <1>4, <1>5, <1>6, ScanTypes, RankTypes, StoreTypes DEF DiscoveryNext

LEMMA TypesMean == DiscoveryInv /\ EntriesInv /\ AliasesInv /\ TypesInv => DiscoveryTypeOK
<1> SUFFICES ASSUME DiscoveryInv, EntriesInv, AliasesInv, TypesInv PROVE DiscoveryTypeOK
  OBVIOUS
<1>1. index \in Seq(IndexRows)
  <2>1. Len(index) \in Nat /\ index = [i \in 1..Len(index) |-> index[i]]
    BY DEF DiscoveryInv, Listed
  <2>2. \A i \in 1..Len(index) : index[i] \in IndexRows
    BY <2>1 DEF TypesInv
  <2>3. index \in [1..Len(index) -> IndexRows]
    BY <2>1, <2>2
  <2> QED
    BY <2>1, <2>3
<1>2. DOMAIN aliases \subseteq SkillIds /\ Range(aliases) \subseteq SkillIds
  BY DEF AliasesInv, Range
<1>3. \A i, j \in DOMAIN index : index[i].id = index[j].id => i = j
  BY DEF EntriesInv, DistinctIds
<1>4. \A t \in Threads : call[t].pc \in {"idle", "hit", "miss", "scan", "rank", "store", "clear"}
  BY DEF TypesInv, Typed
<1> QED
  BY <1>1, <1>2, <1>3, <1>4 DEF DiscoveryTypeOK, TypesInv, IndexRows

\* The index is a list of renamed rows with one entry for each id, ids resolve to ids, and
\* what is cached are lists of candidates, never an empty one.
THEOREM DiscoveryTypeCorrect == DiscoverySpec => []DiscoveryTypeOK
<1>1. DiscoveryInit => DiscoveryInv /\ EntriesInv /\ AliasesInv /\ TypesInv
  BY DiscoveryInitInv, EntriesInitInv, AliasesInitInv, TypesInitInv
<1>2. /\ DiscoveryInv /\ EntriesInv /\ AliasesInv /\ TypesInv
      /\ [DiscoveryNext]_discoveryVars
      => (DiscoveryInv /\ EntriesInv /\ AliasesInv /\ TypesInv)'
  BY DiscoveryNextInv, EntriesNextInv, AliasesNextInv, TypesNextInv
<1> QED
  BY <1>1, <1>2, TypesMean, PTL DEF DiscoverySpec
=============================================================================
