----------------------------- MODULE L1Discovery -----------------------------
(***************************************************************************)
(* The skill index of src/src/execution/l1_discovery.py with its alias map *)
(* and its cache of candidates, used by several threads.  Nothing in it is *)
(* locked: a retrieval walks the live index, and stores what it found in a *)
(* cache that an index change may have cleared meanwhile.                  *)
(*                                                                         *)
(* An embedding is seen through its similarity to each query, in percent.  *)
(***************************************************************************)
EXTENDS Integers, Sequences, FiniteSets, SequencesExt

CONSTANTS Threads, SkillIds, Queries, Keys, NoList,
          Rows,         \* what index_skill is called with: [id, embedding, region, kind]
          Region,       \* Region[q]: the region_code of the retrieval
          CacheKey,     \* CacheKey[q]: its cache_key; texts equal up to case share one
          Score,        \* Score[<<q, e>>]: the similarity of query and embedding
          GL, TopK,
          Renames,      \* what AliasMap.register is called with: <<old id, new id>>
          ChangeBound,  \* how often the index is changed in a behaviour
          AliasBound    \* how often an alias is registered

SIMILARITY_REVIEW_LOW  == 85
SIMILARITY_REVIEW_HIGH == 95

ASSUME DiscoveryAssumption ==
  /\ TopK \in Nat \ {0} /\ ChangeBound \in Nat /\ AliasBound \in Nat
  /\ IsFiniteSet(SkillIds) /\ Renames \subseteq SkillIds \X SkillIds
  /\ \A r \in Rows :
       /\ r = [id |-> r.id, embedding |-> r.embedding, region |-> r.region, kind |-> r.kind]
       /\ r.id \in SkillIds
       /\ \A q \in Queries : Score[<<q, r.embedding>>] \in 0..100

VARIABLES index,     \* the dict: its entries in the order of insertion
          aliases,   \* the dict of AliasMap
          cache,     \* the list each key is cached with, or NoList
          call,      \* what each thread is doing
          changes, renames

discoveryVars == <<index, aliases, cache, call, changes, renames>>

Idle == [pc |-> "idle"]

\* of is a history: the id under which the index had the candidate.
Candidates == [id : SkillIds, of : SkillIds, score : 0..100, requires_review : BOOLEAN]

\* stale is a history: whether the index or an alias changed during the retrieval.
Entries == [list : Seq(Candidates), query : Queries, stale : BOOLEAN]

DiscoveryTypeOK ==
  /\ index \in Seq({[r EXCEPT !.id = s] : r \in Rows, s \in SkillIds})
  /\ \A i, j \in DOMAIN index : index[i].id = index[j].id => i = j
  /\ DOMAIN aliases \subseteq SkillIds /\ Range(aliases) \subseteq SkillIds
  /\ \A k \in Keys : cache[k] # NoList => cache[k] \in Entries /\ cache[k].list # <<>>
  /\ \A t \in Threads : call[t].pc \in {"idle", "hit", "miss", "scan", "rank", "store", "clear"}

DiscoveryInit ==
  /\ index = <<>> /\ aliases = [s \in {} |-> NoList]
  /\ cache = [k \in Keys |-> NoList]
  /\ call = [t \in Threads |-> Idle]
  /\ changes = 0 /\ renames = 0

-----------------------------------------------------------------------------
(* AliasMap *)

ResolveOnce(s) == IF s \in DOMAIN aliases THEN aliases[s] ELSE s   \* mutant: one hop only

\* The loop follows aliases until there is none, or until it is where it was before.
Resolve(s) ==
  LET seen[n \in Nat] ==
        IF n = 0 THEN <<s>>
        ELSE LET p == seen[n - 1]
                 l == Last(p)
             IN  IF l \in DOMAIN aliases /\ l \notin Range(Front(p))
                   THEN Append(p, aliases[l]) ELSE p
  IN  Last(seen[Cardinality(SkillIds)])

RegisterAlias(old, new) ==
  /\ renames < AliasBound /\ renames' = renames + 1
  /\ aliases' = [s \in DOMAIN aliases \cup {old} |-> IF s = old THEN new ELSE aliases[s]]
  /\ call' = [t \in Threads |-> IF call[t].pc \in {"scan", "rank", "store"}
                                  THEN [call[t] EXCEPT !.stale = TRUE] ELSE call[t]]
  /\ UNCHANGED <<index, cache, changes>>

-----------------------------------------------------------------------------
(* index_skill: the entry, then the cache *)

\* A dict keeps the place of a key it has.
Put(d, r) ==
  IF \E i \in DOMAIN d : d[i].id = r.id
    THEN [i \in DOMAIN d |-> IF d[i].id = r.id THEN r ELSE d[i]]
    ELSE Append(d, r)

IndexSet(t, r) ==
  /\ call[t] = Idle
  /\ changes < ChangeBound /\ changes' = changes + 1
  /\ index' = Put(index, [r EXCEPT !.id = Resolve(@)])
  /\ call' = [u \in Threads |->
                IF u = t THEN [pc |-> "clear"]
                ELSE IF call[u].pc \in {"scan", "rank", "store"}
                  THEN [call[u] EXCEPT !.stale = TRUE] ELSE call[u]]
  /\ UNCHANGED <<aliases, cache, renames>>

IndexKeep(t) ==   \* mutant: the cache is not invalidated
  /\ call[t].pc = "clear"
  /\ call' = [call EXCEPT ![t] = Idle]
  /\ UNCHANGED <<index, aliases, cache, changes, renames>>

IndexClear(t) ==
  /\ call[t].pc = "clear"
  /\ cache' = [k \in Keys |-> NoList]
  /\ call' = [call EXCEPT ![t] = Idle]
  /\ UNCHANGED <<index, aliases, changes, renames>>

-----------------------------------------------------------------------------
(* retrieve *)

Ends(t) == /\ call' = [call EXCEPT ![t] = Idle]
           /\ UNCHANGED <<index, aliases, changes, renames>>

\* cache_key in self._cache
Lookup(t, q) ==
  /\ call[t] = Idle
  /\ call' = [call EXCEPT ![t] =
       [pc |-> IF cache[CacheKey[q]] = NoList THEN "miss" ELSE "hit", query |-> q]]
  /\ UNCHANGED <<index, aliases, cache, changes, renames>>

\* self._cache[cache_key]: the list, or a KeyError
Hit(t) == call[t].pc = "hit" /\ Ends(t) /\ UNCHANGED cache

InRegion(r, q) == r.region \in {GL, Region[q]}

\* Of the rows of a list, those at some positions, in the order of the list.
Part(rows, positions) == [i \in positions |-> rows[i]]

StartScan(t) ==
  /\ call[t].pc = "miss"
  /\ \/ index = <<>> /\ Ends(t)   \* SkillNotFoundError
     \/ /\ index # <<>>
        /\ call' = [call EXCEPT ![t] = [pc |-> "scan", query |-> @.query, size |-> Len(index),
                      pos |-> 1, scored |-> Part(index, {}), list |-> <<>>, stale |-> FALSE]]
        /\ UNCHANGED <<index, aliases, changes, renames>>
  /\ UNCHANGED cache

\* One turn of the loop over self._index.items(); the iterator notices a new key.
Scan(t) ==
  LET c == call[t]
      here == {i \in {c.pos} : InRegion(index[i], c.query)}
  IN  /\ c.pc = "scan"
      /\ \/ Len(index) # c.size /\ Ends(t)   \* RuntimeError
         \/ /\ Len(index) = c.size
            /\ call' = [call EXCEPT ![t] =
                 IF c.pos > c.size THEN [c EXCEPT !.pc = "rank"]
                 ELSE [c EXCEPT !.pos = @ + 1,
                        !.scored = [i \in DOMAIN @ \cup here |->
                                      IF i \in here THEN index[i] ELSE @[i]]]]
            /\ UNCHANGED <<index, aliases, changes, renames>>
      /\ UNCHANGED cache

Alike(r, q) == Score[<<q, r.embedding>>]

\* list.sort by descending score is stable: an entry stands behind those with a higher
\* score, and behind those with its own that the scan came to before.
Sorted(rows, q) ==
  LET Ahead(i) == {j \in DOMAIN rows :
                     \/ Alike(rows[j], q) > Alike(rows[i], q)
                     \/ Alike(rows[j], q) = Alike(rows[i], q) /\ j < i}
  IN  [k \in 1..Cardinality(DOMAIN rows) |->
         rows[CHOOSE i \in DOMAIN rows : Cardinality(Ahead(i)) = k - 1]]

ChosenUnseen(rows, q) ==   \* mutant: the intent and format of a candidate are not remembered
  LET relevant == SelectSeq(Sorted(rows, q), LAMBDA r : Alike(r, q) >= SIMILARITY_REVIEW_LOW)
  IN  SubSeq(relevant, 1, IF Len(relevant) < TopK THEN Len(relevant) ELSE TopK)

\* The loop over the sorted list: similar enough, no second one of a kind, TopK at most.
Chosen(rows, q) ==
  LET take(list, r) ==
        IF \/ Len(list) >= TopK
           \/ Alike(r, q) < SIMILARITY_REVIEW_LOW
           \/ \E i \in DOMAIN list : list[i].kind = r.kind
          THEN list ELSE Append(list, r)
  IN  FoldLeft(take, <<>>, Sorted(rows, q))

CandidateOf(r, q) ==
  [id |-> Resolve(r.id), of |-> r.id, score |-> Alike(r, q),
   requires_review |-> Alike(r, q) < SIMILARITY_REVIEW_HIGH]

Rank(t) ==
  LET c == call[t]
      chosen == Chosen(c.scored, c.query)
  IN  /\ c.pc = "rank"
      /\ \/ chosen = <<>> /\ Ends(t)   \* SkillNotFoundError
         \/ /\ chosen # <<>>
            /\ call' = [call EXCEPT ![t] = [@ EXCEPT !.pc = "store",
                 !.list = [i \in DOMAIN chosen |-> CandidateOf(chosen[i], c.query)]]]
            /\ UNCHANGED <<index, aliases, changes, renames>>
      /\ UNCHANGED cache

Store(t) ==
  LET c == call[t]
  IN  /\ c.pc = "store"
      /\ cache' = [cache EXCEPT ![CacheKey[c.query]] =
                     [list |-> c.list, query |-> c.query, stale |-> c.stale]]
      /\ Ends(t)

DiscoveryNext ==
  \/ \E t \in Threads :
       \/ \E q \in Queries : Lookup(t, q)
       \/ Hit(t) \/ StartScan(t) \/ Scan(t) \/ Rank(t) \/ Store(t)
       \/ \E r \in Rows : IndexSet(t, r)
       \/ IndexClear(t)
  \/ \E p \in Renames : RegisterAlias(p[1], p[2])

DiscoverySpec == DiscoveryInit /\ [][DiscoveryNext]_discoveryVars

-----------------------------------------------------------------------------
(* Properties *)

Ids(list) == [i \in DOMAIN list |-> list[i].of]

\* Between index changes the cache holds what a retrieval would find now, unless the
\* index changed during the very retrieval that filled it: clearing after the change is
\* enough for retrievals that begin while index_skill is half way.
CacheIsCurrent ==
  (\A t \in Threads : call[t].pc # "clear")
    => \A k \in Keys :
         cache[k] # NoList /\ ~cache[k].stale
           => LET q == cache[k].query
                  now == Chosen(Part(index, {i \in DOMAIN index : InRegion(index[i], q)}), q)
              IN  Ids(cache[k].list) = [i \in DOMAIN now |-> now[i].id]

\* The candidates are the best of each kind, and what was left out is too dissimilar, of a
\* kind that is there with at least its score, or behind TopK better ones.
BestOfEachKind ==
  \A t \in Threads :
    call[t].pc = "store" =>
      LET c == call[t]
          scored == Range(c.scored)
          Row(x) == CHOOSE r \in scored : r.id = x.of
          found == {Row(x) : x \in Range(c.list)}
      IN  /\ Len(c.list) = Cardinality(found) /\ Len(c.list) <= TopK
          /\ \A x, y \in found : x.kind = y.kind => x = y
          /\ \A r \in scored \ found :
               \/ Alike(r, c.query) < SIMILARITY_REVIEW_LOW
               \/ \E x \in found : x.kind = r.kind /\ Alike(x, c.query) >= Alike(r, c.query)
               \/ Len(c.list) = TopK /\ \A x \in found : Alike(x, c.query) >= Alike(r, c.query)

\* The ids that following aliases from s, a step at least, comes to.
ReachedFrom(s) ==
  LET after[n \in Nat] ==
        IF n = 0 THEN {s} ELSE {aliases[x] : x \in after[n - 1] \cap DOMAIN aliases}
  IN  UNION {after[n] : n \in 1..Cardinality(SkillIds)}

\* Whatever renames there were, in whatever order, a skill ends under an id that is not
\* an alias itself; only ids that were renamed in a circle stay as they are.
RenamesEnd ==
  \A s \in SkillIds :
    LET x == Resolve(s)
    IN  /\ x = s \/ x \in ReachedFrom(s)
        /\ x \notin DOMAIN aliases \/ x \in ReachedFrom(x)

-----------------------------------------------------------------------------
(* Claims of the repository that the code does not keep: see the README. *)

\* l1_discovery.py:173: retrieve "Raises: SkillNotFoundError".
OnlyNotFoundRaised ==
  [][\A t \in Threads :
       /\ Hit(t) => cache[CacheKey[call[t].query]] # NoList
       /\ Scan(t) => call'[t] # Idle]_discoveryVars

\* l1_discovery.py:8: "merged/renamed skills are transparently redirected".
RenamedAreRedirected ==
  \A k \in Keys :
    cache[k] # NoList => \A i \in DOMAIN cache[k].list : cache[k].list[i].id \notin DOMAIN aliases
=============================================================================
