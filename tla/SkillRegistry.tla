--------------------------- MODULE SkillRegistry ---------------------------
(***************************************************************************)
(* SkillRegistry of src/src/registry/skill_registry.py: a table from skill *)
(* ids to RegistryEntry objects.  register, promote and evict change the   *)
(* table under the lock; get only looks the entry up under it, and counts  *)
(* the access and protects the entry afterwards, on an object that may by  *)
(* then have been replaced or evicted.  An eviction holds the lock from    *)
(* its listing of the unprotected entries to its last deletion, while the  *)
(* gets that are past their lookup go on counting and protecting.          *)
(*                                                                         *)
(* Schema and embedding are abstracted to what the registry itself reads:  *)
(* whether the skill is P0.                                                *)
(***************************************************************************)
EXTENDS Naturals, FiniteSets

CONSTANTS Threads, Skills,
          Objects,               \* identities of RegistryEntry objects
          Nothing,
          RareAccessThreshold,   \* RARE_ACCESS_THRESHOLD
          MaxSkills,             \* max_skills of evict_if_needed
          CountCap               \* where the model stops counting accesses

ASSUME SkillRegistryAssumption ==
  /\ RareAccessThreshold \in Nat /\ MaxSkills \in Nat /\ CountCap \in Nat
  /\ CountCap >= RareAccessThreshold
  /\ Nothing \notin Objects

VARIABLES table,    \* _entries: the entry object of each registered skill, or Nothing
          entry,    \* the fields of every live object
          getting,  \* get() in progress on each thread
          eviction, \* the evict_if_needed() that holds the lock, or Nothing
          served,   \* history: the live objects some get() has returned
          crowded   \* history: those that RareAccessThreshold gets have held at once

vars == <<table, entry, getting, eviction, served, crowded>>

BLUE  == "blue"
GREEN == "green"
Slots == {BLUE, GREEN}

Entries == [slot : Slots, access_count : 0..CountCap, protected : BOOLEAN, p0 : BOOLEAN]

\* A get holds an object; "found": looked up; "counting": it has read access_count and
\* not yet stored the sum; "counted": stored, not yet compared with the threshold;
\* "rare": found below it, not yet protected.
Gets == [at : {"found", "counting", "counted", "rare"}, object : Objects, read : 0..CountCap]

\* An eviction: the skills it has not looked at yet, those it found unprotected, and the
\* access counts it has read of them.  History: the skills no get was busy with when it
\* began, and those served by then.
Evictions == [unseen : SUBSET Skills, listed : SUBSET Skills,
              key : UNION {[k -> 0..CountCap] : k \in SUBSET Skills},
              calm : SUBSET Skills, before : SUBSET Skills]

ASSUME NothingAssumption == Nothing \notin Gets /\ Nothing \notin Evictions

Made == DOMAIN entry

\* Objects that the table or a get still refers to.  The others are garbage: their
\* identities serve again, so that registrations are unbounded.
Live == {table[s] : s \in Skills} \cup
        {getting[t].object : t \in {u \in Threads : getting[u] # Nothing}}
Collected(e) == [o \in DOMAIN e \cap Live' |-> e[o]]

Registered == {s \in Skills : table[s] # Nothing}

\* The gets that are busy with an object.
Getters(o) == {t \in Threads : getting[t] # Nothing /\ getting[t].object = o}

Unlocked == eviction = Nothing

TypeOK ==
  /\ Made \subseteq Objects /\ entry \in [Made -> Entries]
  /\ table \in [Skills -> Made \cup {Nothing}]
  /\ \A t \in Threads : getting[t] # Nothing => getting[t] \in Gets /\ getting[t].object \in Made
  /\ eviction # Nothing => eviction \in Evictions
  /\ served \subseteq Made /\ crowded \subseteq Made

Init ==
  /\ table = [s \in Skills |-> Nothing]
  /\ entry = [o \in {} |-> Nothing]
  /\ getting = [t \in Threads |-> Nothing]
  /\ eviction = Nothing
  /\ served = {} /\ crowded = {}

-----------------------------------------------------------------------------
\* register: an existing entry of the skill is replaced, whatever its slot.
Register(s, p0, slot) ==
  /\ Unlocked
  /\ \E o \in Objects \ Made :
       /\ table' = [table EXCEPT ![s] = o]
       /\ UNCHANGED <<getting, eviction>>
       /\ entry' = Collected([x \in Made \cup {o} |->
                     IF x = o THEN [slot |-> slot, access_count |-> 0, protected |-> p0, p0 |-> p0]
                              ELSE entry[x]])
       /\ served' = served \cap Live' /\ crowded' = crowded \cap Live'

\* promote_green_to_blue: whatever is staged under the id at this moment.
Promote(s) ==
  /\ Unlocked /\ table[s] # Nothing /\ entry[table[s]].slot = GREEN
  /\ entry' = [entry EXCEPT ![table[s]].slot = BLUE]
  /\ UNCHANGED <<table, getting, eviction, served, crowded>>

-----------------------------------------------------------------------------
(* get: lookup under the lock, then "access_count += 1" and the marking. *)

GetLookupUnlocked(t, s) ==   \* mutant: the lookup does not take the lock
  /\ getting[t] = Nothing /\ table[s] # Nothing
  /\ getting' = [getting EXCEPT ![t] = [at |-> "found", object |-> table[s], read |-> 0]]
  /\ UNCHANGED <<table, entry, eviction, served, crowded>>

GetLookup(t, s) ==
  /\ Unlocked /\ getting[t] = Nothing /\ table[s] # Nothing
  /\ getting' = [getting EXCEPT ![t] = [at |-> "found", object |-> table[s], read |-> 0]]
  /\ crowded' = IF Cardinality(Getters(table[s]) \cup {t}) >= RareAccessThreshold
                  THEN crowded \cup {table[s]} ELSE crowded
  /\ UNCHANGED <<table, entry, eviction, served>>

GetRead(t) ==
  LET g == getting[t]
  IN  /\ g # Nothing /\ g.at = "found"
      /\ getting' = [getting EXCEPT ![t] = [at |-> "counting", object |-> g.object,
                                                read |-> entry[g.object].access_count]]
      /\ UNCHANGED <<table, entry, eviction, served, crowded>>

UpTo(cap, n) == IF n < cap THEN n ELSE cap

GetStore(t) ==
  LET g == getting[t]
  IN  /\ g # Nothing /\ g.at = "counting"
      /\ entry' = [entry EXCEPT ![g.object].access_count = UpTo(CountCap, g.read + 1)]
      /\ getting' = [getting EXCEPT ![t].at = "counted"]
      /\ UNCHANGED <<table, eviction, served, crowded>>

\* get returns its entry: what nothing refers to any more is garbage.
Return(t, e) ==
  /\ getting' = [getting EXCEPT ![t] = Nothing]
  /\ UNCHANGED <<table, eviction>>
  /\ entry' = Collected(e)
  /\ served' = (served \cup {getting[t].object}) \cap Live'
  /\ crowded' = crowded \cap Live'

Rare(o) == entry[o].access_count < RareAccessThreshold

GetCompareAssigns(t) ==   \* mutant: protected = (access_count < threshold)
  LET g == getting[t]
  IN  /\ g # Nothing /\ g.at = "counted"
      /\ Return(t, [entry EXCEPT ![g.object].protected = Rare(g.object)])

\* The comparison ends the get of an entry in use, and sends that of a rare one on.
GetCompare(t) ==
  LET g == getting[t]
  IN  /\ g # Nothing /\ g.at = "counted"
      /\ \/ /\ ~Rare(g.object)
            /\ Return(t, entry)
         \/ /\ Rare(g.object)
            /\ getting' = [getting EXCEPT ![t].at = "rare"]
            /\ UNCHANGED <<table, entry, eviction, served, crowded>>

GetProtect(t) ==
  LET g == getting[t]
  IN  /\ g # Nothing /\ g.at = "rare"
      /\ Return(t, [entry EXCEPT ![g.object].protected = TRUE])

-----------------------------------------------------------------------------
(* evict_if_needed: with the lock held throughout, the entries are looked at one after    *)
(* the other, then the sort reads the count of each that is on the list, and then the     *)
(* first of the list are deleted.  Only holders of the lock see the table, so that the    *)
(* deletions and the release are one step.  Within the limit it only reads.               *)

Accesses(s) == entry[table[s]].access_count
Smaller(m, n) == IF m < n THEN m ELSE n

EvictBegin ==
  /\ Unlocked /\ Cardinality(Registered) > MaxSkills
  /\ eviction' = [unseen |-> Registered, listed |-> {}, key |-> [s \in {} |-> 0],
                  calm   |-> {s \in Registered : Getters(table[s]) = {}},
                  before |-> {s \in Registered : table[s] \in served}]
  /\ UNCHANGED <<table, entry, getting, served, crowded>>

EvictCheck(s) ==
  /\ ~Unlocked /\ s \in eviction.unseen
  /\ eviction' = [eviction EXCEPT
       !.unseen = @ \ {s},
       !.listed = IF entry[table[s]].protected THEN @ ELSE @ \cup {s}]
  /\ UNCHANGED <<table, entry, getting, served, crowded>>

EvictKey(s) ==
  /\ ~Unlocked /\ eviction.unseen = {} /\ s \in eviction.listed \ DOMAIN eviction.key
  /\ eviction' = [eviction EXCEPT !.key = [u \in DOMAIN @ \cup {s} |->
                                             IF u = s THEN Accesses(s) ELSE @[u]]]
  /\ UNCHANGED <<table, entry, getting, served, crowded>>

\* The first n of the list sorted by its keys; ties fall in the order of the dict, which
\* the model leaves open.
LeastUsed(n) ==
  {v \in SUBSET eviction.listed :
     /\ Cardinality(v) = n
     /\ \A s \in v, u \in eviction.listed \ v : eviction.key[s] <= eviction.key[u]}

Excess == Smaller(Cardinality(eviction.listed), Cardinality(Registered) - MaxSkills)

Evict ==
  /\ ~Unlocked /\ eviction.unseen = {} /\ DOMAIN eviction.key = eviction.listed
  /\ \E victims \in LeastUsed(Excess) :
       table' = [s \in Skills |-> IF s \in victims THEN Nothing ELSE table[s]]
  /\ eviction' = Nothing
  /\ UNCHANGED getting
  /\ entry' = Collected(entry)
  /\ served' = served \cap Live' /\ crowded' = crowded \cap Live'

GetStep(t) == GetRead(t) \/ GetStore(t) \/ GetCompare(t) \/ GetProtect(t)

Next ==
  \/ \E s \in Skills : Promote(s) \/ \E p0 \in BOOLEAN, slot \in Slots : Register(s, p0, slot)
  \/ \E t \in Threads : GetStep(t) \/ \E s \in Skills : GetLookup(t, s)
  \/ EvictBegin \/ Evict \/ \E s \in Skills : EvictCheck(s) \/ EvictKey(s)

Spec == Init /\ [][Next]_vars

-----------------------------------------------------------------------------
(* Properties *)

\* skill_registry.py:5 and 31: a P0 skill is never purged, whatever is fetched, counted
\* or evicted meanwhile.
P0NeverPurged ==
  [][\A s \in Registered : entry[table[s]].p0 => s \in Registered']_vars

Unprotected == {s \in Registered : ~entry[table[s]].protected}

\* An eviction takes the registry down to its limit and no further, as long as it can.
\* What it listed, and the counts it sorted by, may be out of date by then, because gets
\* go on in the meantime; but the lock keeps new ones out, so that no skill that was left
\* alone when it began is removed while another such skill is kept with a lower count.
EvictionIsFair ==
  [][Evict =>
       /\ Cardinality(Registered') >= MaxSkills
       /\ Cardinality(Registered') = MaxSkills \/ Unprotected' = {}
       /\ \A s \in eviction.calm \ Registered', u \in eviction.calm \cap Unprotected' :
            Accesses(s) <= Accesses(u)]_vars

\* A skill that a get had returned when an eviction began is still there when it ends,
\* although accesses get lost: of fewer gets than the threshold that hold its entry at
\* once, the first to compare still finds it rare and protects it before it returns.
ServedSkillsStay ==
  [][Evict => \A s \in eviction.before : table[s] \in crowded \/ s \in Registered']_vars

-----------------------------------------------------------------------------
(* Claims of the repository that the code does not keep: see the README. *)

\* skill_registry.py:6: "Rare skills are moved to a protected tier and exempt from LRU
\* eviction", rare being an access count below RARE_ACCESS_THRESHOLD (line 59).
RareSkillsExempt ==
  [][\A s \in Registered : Accesses(s) < RareAccessThreshold => s \in Registered']_vars

\* skill_registry.py:127: "Mark rare skill as protected to prevent eviction": an entry a
\* get has marked and returned is not evicted.
MarkedSkillsStay ==
  [][Evict => \A s \in Registered : entry[table[s]].protected => s \in Registered']_vars

\* skill_registry.py:7: "new versions staged in a shadow slot before promotion": staging
\* a version leaves the one in production where it is.
StagingKeepsProduction ==
  [][\A s \in Registered \cap Registered' :
       entry[table[s]].slot = BLUE => entry'[table'[s]].slot = BLUE]_vars
=============================================================================
