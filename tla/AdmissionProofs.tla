-------------------------- MODULE AdmissionProofs --------------------------
(***************************************************************************)
(* A registry that enforces signatures, for any skills, threads, entry     *)
(* objects and number of edits: what it holds was signed by the factory as *)
(* it was when register dumped it.  The argument follows one schema: until *)
(* its check it may be anything, the check lets through only the factory's *)
(* signature over untouched fields, and from then on an edit is a late     *)
(* one.  The rest of the registry (gets, promotions, evictions) may drop   *)
(* entry objects and makes none.                                           *)
(*                                                                         *)
(* Second, admission implements the registry, and the registry purges no   *)
(* P0 skill: the entry of a P0 skill is protected from the start, nothing  *)
(* takes the protection away, and evictions take unprotected entries.      *)
(*                                                                         *)
(* Third, evictions.  While one holds the lock the table stands still, and *)
(* gets only raise counts and protect: what it listed and counted remains  *)
(* true of the skills no get was busy with.  And what was served stays:    *)
(* until a get protects an entry, its counter is at most the number of     *)
(* gets that have counted and not marked it yet, which is below the        *)
(* threshold unless that many hold it at once.                             *)
(***************************************************************************)
EXTENDS Admission, FiniteSetTheorems, TLAPS

Vouched(d) == d.signature = "factory" /\ (d.altered => d.late)

IInv ==
  /\ DOMAIN schema = Made
  /\ building # Nothing => building \in Schemas
  /\ \A o \in Made : schema[o] \in Schemas /\ schema[o].verified
  /\ EnforceSignatures /\ HasVerifier =>
       /\ building # Nothing /\ building.verified => Vouched(building)
       /\ \A o \in Made : Vouched(schema[o])

-----------------------------------------------------------------------------
\* An edit keeps the shape of a schema, and what register has vouched for: the edit of
\* a schema past its check is a late one.
LEMMA EditsAreLate ==
  ASSUME NEW d \in Schemas, NEW p0 \in BOOLEAN
  PROVE  /\ Edited(d, p0) \in Schemas
         /\ Edited(d, p0).verified <=> d.verified
         /\ d.verified /\ Vouched(d) => Vouched(Edited(d, p0))
BY DEF Schemas, Edited, Vouched

\* The operations of the registry other than register make no entry object.
LEMMA NothingElseStores ==
  ASSUME \/ EvictBegin \/ Evict
         \/ \E s \in Skills : Promote(s) \/ EvictCheck(s) \/ EvictKey(s)
         \/ \E t \in Threads : GetStep(t) \/ \E s \in Skills : GetLookup(t, s)
  PROVE  DOMAIN entry' \subseteq Made
<1>1. CASE Evict
  BY <1>1 DEF Evict, Collected, Made
<1>2. ASSUME NEW s \in Skills, Promote(s) PROVE DOMAIN entry' \subseteq Made
  BY <1>2 DEF Promote, Made
<1>3. ASSUME NEW t \in Threads, NEW s \in Skills, GetLookup(t, s)
      PROVE  DOMAIN entry' \subseteq Made
  BY <1>3 DEF GetLookup, Made
<1>4. ASSUME NEW t \in Threads, GetRead(t) PROVE DOMAIN entry' \subseteq Made
  BY <1>4 DEF GetRead, Made
<1>5. ASSUME NEW t \in Threads, GetStore(t) PROVE DOMAIN entry' \subseteq Made
  BY <1>5 DEF GetStore, Made
<1>6. ASSUME NEW t \in Threads, GetCompare(t) \/ GetProtect(t) PROVE DOMAIN entry' \subseteq Made
  BY <1>6 DEF GetCompare, GetProtect, Return, Collected, Made
<1>7. CASE EvictBegin \/ \E s \in Skills : EvictCheck(s) \/ EvictKey(s)
  BY <1>7 DEF EvictBegin, EvictCheck, EvictKey, Made
<1>8. QED  BY <1>1, <1>2, <1>3, <1>4, <1>5, <1>6, <1>7 DEF GetStep

-----------------------------------------------------------------------------
\* Every step keeps the invariant: one step per action of the registration, one for the
\* rest of the registry.
LEMMA Inductive ==
  ASSUME IInv, [AdmissionNext]_<<vars, avars>>
  PROVE  IInv'
<1>1. CASE Construct
  BY <1>1 DEF IInv, Construct, Made, vars, Vouched
<1>2. CASE EditHeld
  <2>1. PICK p0 \in BOOLEAN : building' = Edited(building, p0)
    BY <1>2 DEF EditHeld
  <2>2. building \in Schemas /\ schema' = schema /\ Made' = Made
    BY <1>2 DEF EditHeld, IInv, vars, Made
  <2>3. /\ building' \in Schemas
        /\ building'.verified <=> building.verified
        /\ building.verified /\ Vouched(building) => Vouched(building')
    BY <2>1, <2>2, EditsAreLate
  <2>4. building # Nothing
    BY <1>2 DEF EditHeld
  <2>5. EnforceSignatures /\ HasVerifier /\ building'.verified => Vouched(building')
    BY <2>3, <2>4 DEF IInv
  <2>6. QED  BY <2>2, <2>3, <2>5 DEF IInv, Vouched
<1>3. CASE Verify
  <2>1. building \in Schemas /\ schema' = schema /\ Made' = Made
    BY <1>3 DEF Verify, IInv, vars, Made
  <2>2. building' # Nothing => building' = [building EXCEPT !.verified = TRUE]
    BY <1>3 DEF Verify
  <2>3. building' # Nothing => building' \in Schemas
    BY <2>1, <2>2 DEF Schemas
  <2>4. EnforceSignatures /\ HasVerifier /\ building' # Nothing => Verifies(building)
    BY <1>3 DEF Verify
  <2>5. EnforceSignatures /\ HasVerifier /\ building' # Nothing => Vouched(building')
    BY <2>1, <2>2, <2>4 DEF Schemas, Verifies, Vouched
  <2>6. QED  BY <2>1, <2>3, <2>5 DEF IInv
<1>4. CASE Store
  <2>1. building # Nothing /\ building.verified /\ building' = Nothing
    BY <1>4 DEF Store
  <2>2. schema' = [o \in Made' |-> IF o \in Made THEN schema[o] ELSE building]
    BY <1>4 DEF Store, Made
  <2>3. QED  BY <2>1, <2>2 DEF IInv
<1>5. ASSUME NEW o \in Made, EditStored(o) PROVE IInv'
  <2>1. /\ schema' = [schema EXCEPT ![o] = Edited(schema[o], schema[o].p0)]
        /\ building' = building /\ Made' = Made
    BY <1>5 DEF EditStored, vars, Made
  <2>2. schema[o] \in Schemas /\ schema[o].verified /\ schema[o].p0 \in BOOLEAN
    BY <1>5 DEF IInv, Schemas
  <2>3. QED  BY <2>1, <2>2, EditsAreLate DEF IInv
<1>6. ASSUME DOMAIN entry' \subseteq Made, schema' = [o \in DOMAIN entry' |-> schema[o]],
             UNCHANGED building
      PROVE  IInv'
  BY <1>6 DEF IInv, Made
<1>7. CASE UNCHANGED <<vars, avars>>
  BY <1>7 DEF IInv, Made, vars, avars
<1>8. QED
  BY <1>1, <1>2, <1>3, <1>4, <1>5, <1>6, <1>7, NothingElseStores DEF AdmissionNext

-----------------------------------------------------------------------------
\* The invariant holds in every behaviour.
LEMMA AlwaysVouched == AdmissionSpec => []IInv
<1>1. AdmissionInit => IInv
  BY DEF AdmissionInit, Init, IInv, Made
<1>2. QED
  BY <1>1, Inductive, PTL DEF AdmissionSpec

\* register of src/src/registry/skill_registry.py with enforce_signatures and a verifier:
\* what the registry holds was signed by the factory, edits after the check excepted.
THEOREM AdmittedAreAlwaysSigned == AdmissionSpec => []AdmittedAreSigned
<1>1. IInv => AdmittedAreSigned
  BY DEF IInv, AdmittedAreSigned, Vouched
<1>2. QED
  BY <1>1, AlwaysVouched, PTL

-----------------------------------------------------------------------------
\* Every step of the admission is a step of the registry or leaves it alone.
THEOREM AdmissionKeepsRegistry == AdmissionSpec => Spec
<1>1. AdmissionInit => Init
  BY DEF AdmissionInit
<1>2. IInv /\ [AdmissionNext]_<<vars, avars>> => [Next]_vars
  <2>1. IInv /\ Store => Next
    <3>1. ASSUME IInv, Store
          PROVE  \E s \in Skills, p0 \in BOOLEAN, slot \in Slots : Register(s, p0, slot)
      <4>1. building.p0 \in BOOLEAN
        BY <3>1 DEF IInv, Store, Schemas
      <4>2. QED  BY <3>1, <4>1 DEF Store
    <3>2. QED  BY <3>1 DEF Next
  <2>2. QED
    BY <2>1 DEF AdmissionNext, Next, Construct, EditHeld, Verify, EditStored, vars, avars
<1>3. QED  BY <1>1, <1>2, AlwaysVouched, PTL DEF AdmissionSpec, Spec

\* What the registry keeps of its table and entries.
Protection ==
  /\ Made \subseteq Objects
  /\ table \in [Skills -> Made \cup {Nothing}]
  /\ getting \in [Threads -> Gets \cup {Nothing}]
  /\ entry \in [Made -> Entries]
  /\ \A t \in Threads : getting[t] # Nothing => getting[t].object \in Made
  /\ \A o \in Made : entry[o].p0 => entry[o].protected
  /\ served \subseteq Made /\ crowded \subseteq Made

\* What an eviction knows of the entries.
Listing ==
  ~Unlocked =>
    /\ eviction \in Evictions
    /\ Cardinality(Registered) > MaxSkills
    /\ eviction.unseen \subseteq Registered /\ eviction.listed \subseteq Registered
    /\ eviction.calm \subseteq Registered /\ eviction.before \subseteq Registered
    /\ DOMAIN eviction.key \subseteq eviction.listed
    /\ \A s \in eviction.listed : ~entry[table[s]].p0
    /\ \A s \in Registered \ (eviction.unseen \cup eviction.listed) : entry[table[s]].protected
    /\ \A s \in eviction.calm :
         Getters(table[s]) = {} /\ (s \in DOMAIN eviction.key => eviction.key[s] = Accesses(s))

\* What is collected is what nothing refers to.
LEMMA CollectedKeepsLive ==
  ASSUME NEW e, table' \in [Skills -> DOMAIN e \cup {Nothing}]
  PROVE  /\ DOMAIN Collected(e) \subseteq DOMAIN e
         /\ \A o \in DOMAIN Collected(e) : Collected(e)[o] = e[o]
         /\ \A s \in Skills : table'[s] # Nothing => table'[s] \in DOMAIN Collected(e)
         /\ \A t \in Threads : getting'[t] # Nothing /\ getting'[t].object \in DOMAIN e =>
              getting'[t].object \in DOMAIN Collected(e)
         /\ Collected(e) = [o \in DOMAIN Collected(e) |-> e[o]]
BY DEF Collected, Live

\* What any step of a get may do: it works on one entry, whose protection it never takes
\* away, and what others refer to stays.
GetEffect(t, o) ==
  /\ o \in Made /\ t \in Getters(o) /\ UNCHANGED <<table, eviction>>
  /\ getting' \in [Threads -> Gets \cup {Nothing}]
  /\ \A u \in Threads \ {t} : getting'[u] = getting[u]
  /\ getting'[t] # Nothing => getting'[t].object = o
  /\ Made' \subseteq Made /\ entry' \in [Made' -> Entries]
  /\ \A x \in Made' : /\ x # o => entry'[x] = entry[x]
                      /\ entry'[x].p0 = entry[x].p0
                      /\ entry[x].protected => entry'[x].protected
  /\ \A s \in Skills : table[s] # Nothing => table[s] \in Made'
  /\ \A u \in Threads : getting'[u] # Nothing => getting'[u].object \in Made'
  /\ served' \subseteq Made' /\ served' \subseteq served \cup {o}
  /\ crowded' = crowded \cap Made'

LEMMA ReturnIs ==
  ASSUME Protection, NEW t \in Threads, getting[t] # Nothing, NEW e \in [Made -> Entries],
         \A x \in Made : /\ x # getting[t].object => e[x] = entry[x]
                         /\ e[x].p0 = entry[x].p0
                         /\ entry[x].protected => e[x].protected,
         Return(t, e)
  PROVE  GetEffect(t, getting[t].object) /\ \A x \in Made' : entry'[x] = e[x]
<1> DEFINE o == getting[t].object
<1>1. /\ getting' = [getting EXCEPT ![t] = Nothing] /\ UNCHANGED <<table, eviction>>
      /\ entry' = Collected(e) /\ served' = (served \cup {o}) \cap Live'
      /\ crowded' = crowded \cap Live' /\ DOMAIN e = Made
  BY DEF Return
<1>2. o \in Made /\ t \in Getters(o)
  BY DEF Protection, Getters
<1>3. /\ Made' = Made \cap Live' /\ \A x \in Made' : entry'[x] = e[x]
      /\ entry' = [x \in Made' |-> e[x]]
  BY <1>1 DEF Collected, Made
<1>4. table' \in [Skills -> DOMAIN e \cup {Nothing}]
  BY <1>1 DEF Protection
<1>5. /\ \A s \in Skills : table[s] # Nothing => table[s] \in Made'
      /\ \A u \in Threads : getting'[u] # Nothing => getting'[u].object \in Made'
  BY <1>1, <1>4, CollectedKeepsLive DEF Protection, Made
<1>6. /\ getting' \in [Threads -> Gets \cup {Nothing}] /\ getting'[t] = Nothing
      /\ \A u \in Threads \ {t} : getting'[u] = getting[u]
  BY <1>1 DEF Protection
<1>7. served' \subseteq Made' /\ served' \subseteq served \cup {o} /\ crowded' = crowded \cap Made'
  BY <1>1, <1>2, <1>3 DEF Protection
<1>8. entry' \in [Made' -> Entries]
  BY <1>3
<1> HIDE DEF o
<1>9. QED  BY <1>1, <1>2, <1>3, <1>5, <1>6, <1>7, <1>8 DEF GetEffect, o

\* The fields of an entry under the assignments of the registry.
LEMMA EntriesKept ==
  ASSUME NEW d \in Entries, NEW n \in Nat
  PROVE  /\ [d EXCEPT !.slot = BLUE] \in Entries
         /\ [d EXCEPT !.access_count = UpTo(CountCap, n)] \in Entries
         /\ [d EXCEPT !.protected = TRUE] \in Entries
         /\ UpTo(CountCap, n) <= n
<1>1. UpTo(CountCap, n) \in 0..CountCap /\ UpTo(CountCap, n) <= n
  BY SkillRegistryAssumption DEF UpTo
<1>2. QED  BY <1>1 DEF Entries, Slots, BLUE, GREEN

LEMMA GetStepIs ==
  ASSUME Protection, NEW t \in Threads, GetStep(t)
  PROVE  GetEffect(t, getting[t].object)
<1> DEFINE g == getting[t]
           o == getting[t].object
<1>1. g # Nothing /\ g \in Gets /\ o \in Made /\ o \in Objects /\ t \in Getters(o)
  <2>1. g # Nothing
    BY DEF GetStep, GetRead, GetStore, GetCompare, GetProtect
  <2>2. QED  BY <2>1 DEF Protection, Getters
<1>2. entry[o] \in Entries
  BY <1>1 DEF Protection
<1>3. ASSUME getting' \in [Threads -> Gets \cup {Nothing}],
             \A u \in Threads \ {t} : getting'[u] = getting[u],
             getting'[t].object = o, UNCHANGED <<table, eviction, served, crowded>>,
             Made' = Made, NEW d \in Entries, d.p0 = entry[o].p0,
             entry[o].protected => d.protected, entry' = [entry EXCEPT ![o] = d]
      PROVE  GetEffect(t, o)
  <2>1. entry' \in [Made' -> Entries]
    BY <1>1, <1>3 DEF Protection
  <2>2. \A x \in Made' : /\ x # o => entry'[x] = entry[x]
                         /\ entry'[x].p0 = entry[x].p0
                         /\ entry[x].protected => entry'[x].protected
    BY <1>1, <1>3 DEF Protection
  <2>3. /\ \A s \in Skills : table[s] # Nothing => table[s] \in Made'
        /\ \A u \in Threads : getting'[u] # Nothing => getting'[u].object \in Made'
        /\ served' \subseteq Made' /\ crowded' = crowded \cap Made'
    BY <1>1, <1>3 DEF Protection
  <2> HIDE DEF g, o
  <2>4. QED  BY <1>1, <1>3, <2>1, <2>2, <2>3 DEF GetEffect
<1>4. CASE GetRead(t)
  <2> DEFINE h == [at |-> "counting", object |-> o, read |-> entry[o].access_count]
  <2>1. h \in Gets /\ h.object = o
    BY <1>1, <1>2 DEF Gets, Entries
  <2>2. getting' = [getting EXCEPT ![t] = h] /\ UNCHANGED <<table, entry, eviction, served, crowded>>
    BY <1>4 DEF GetRead
  <2>3. Made' = Made /\ entry' = [entry EXCEPT ![o] = entry[o]]
    BY <1>1, <2>2 DEF Made, Protection
  <2> HIDE DEF h
  <2>4. /\ getting' \in [Threads -> Gets \cup {Nothing}] /\ getting'[t] = h
        /\ \A u \in Threads \ {t} : getting'[u] = getting[u]
    BY <2>1, <2>2 DEF Protection
  <2>5. QED  BY <1>2, <1>3, <2>1, <2>2, <2>3, <2>4
<1>5. CASE GetStore(t)
  <2> DEFINE h == [g EXCEPT !.at = "counted"]
             d == [entry[o] EXCEPT !.access_count = UpTo(CountCap, g.read + 1)]
  <2>1. h \in Gets /\ h.object = o /\ g.read + 1 \in Nat
    BY <1>1 DEF Gets
  <2>2. d \in Entries /\ d.p0 = entry[o].p0 /\ d.protected = entry[o].protected
    BY <1>2, <2>1, EntriesKept DEF Entries
  <2>3. /\ getting' = [getting EXCEPT ![t] = h] /\ UNCHANGED <<table, eviction, served, crowded>>
        /\ entry' = [entry EXCEPT ![o] = d]
    BY <1>5 DEF GetStore
  <2>4. Made' = Made
    BY <2>3 DEF Made
  <2> HIDE DEF h, d
  <2>5. /\ getting' \in [Threads -> Gets \cup {Nothing}] /\ getting'[t] = h
        /\ \A u \in Threads \ {t} : getting'[u] = getting[u]
    BY <2>1, <2>3 DEF Protection
  <2>6. QED  BY <1>3, <2>1, <2>2, <2>3, <2>4, <2>5
<1>6. CASE GetCompare(t)
  <2>1. CASE Rare(o)
    <3> DEFINE h == [g EXCEPT !.at = "rare"]
    <3>1. h \in Gets /\ h.object = o
      BY <1>1 DEF Gets
    <3>2. getting' = [getting EXCEPT ![t] = h] /\ UNCHANGED <<table, entry, eviction, served, crowded>>
      BY <1>6, <2>1 DEF GetCompare
    <3>3. Made' = Made /\ entry' = [entry EXCEPT ![o] = entry[o]]
      BY <1>1, <3>2 DEF Made, Protection
    <3> HIDE DEF h
    <3>4. /\ getting' \in [Threads -> Gets \cup {Nothing}] /\ getting'[t] = h
          /\ \A u \in Threads \ {t} : getting'[u] = getting[u]
      BY <3>1, <3>2 DEF Protection
    <3>5. QED  BY <1>2, <1>3, <3>1, <3>2, <3>3, <3>4
  <2>2. CASE ~Rare(o)
    <3>1. Return(t, entry)
      BY <1>6, <2>2 DEF GetCompare
    <3>2. QED  BY <1>1, <3>1, ReturnIs DEF Protection
  <2>3. QED  BY <2>1, <2>2
<1>7. CASE GetProtect(t)
  <2> DEFINE d == [entry[o] EXCEPT !.protected = TRUE]
             e == [entry EXCEPT ![o] = d]
  <2>1. d \in Entries /\ d.p0 = entry[o].p0 /\ d.protected
    BY <1>2, EntriesKept DEF Entries
  <2>2. Return(t, e)
    BY <1>7 DEF GetProtect
  <2> HIDE DEF d
  <2>3. /\ e \in [Made -> Entries]
        /\ \A x \in Made : /\ x # o => e[x] = entry[x]
                           /\ e[x].p0 = entry[x].p0
                           /\ entry[x].protected => e[x].protected
    BY <1>1, <2>1 DEF Protection
  <2> HIDE DEF e
  <2>4. QED  BY <1>1, <2>2, <2>3, ReturnIs
<1>8. QED  BY <1>4, <1>5, <1>6, <1>7 DEF GetStep

\* The table and the entries that it keeps stay together, whatever is collected.
LEMMA RegisterIs ==
  ASSUME Protection, NEW s \in Skills, NEW p0 \in BOOLEAN, NEW slot \in Slots, Register(s, p0, slot)
  PROVE  \E o \in Objects \ Made :
           /\ Unlocked /\ table' = [table EXCEPT ![s] = o] /\ UNCHANGED <<getting, eviction>>
           /\ Made' \subseteq Made \cup {o} /\ entry' \in [Made' -> Entries]
           /\ \A x \in Made' \ {o} : entry'[x] = entry[x]
           /\ o \in Made' => /\ entry'[o].p0 => entry'[o].protected
                             /\ entry'[o].access_count = 0
           /\ table' \in [Skills -> Made' \cup {Nothing}]
           /\ \A t \in Threads : getting'[t] # Nothing => getting'[t].object \in Made'
           /\ served' = served \cap Made' /\ crowded' = crowded \cap Made'
<1> DEFINE fresh == [slot |-> slot, access_count |-> 0, protected |-> p0, p0 |-> p0]
           Fresh(o) == [x \in Made \cup {o} |-> IF x = o THEN fresh ELSE entry[x]]
<1>1. PICK o \in Objects \ Made :
        /\ Unlocked /\ table' = [table EXCEPT ![s] = o] /\ UNCHANGED <<getting, eviction>>
        /\ entry' = Collected(Fresh(o))
        /\ served' = served \cap Live' /\ crowded' = crowded \cap Live'
  BY DEF Register
<1> DEFINE e == Fresh(o)
<1>2. /\ fresh \in Entries /\ fresh.access_count = 0 /\ (fresh.p0 => fresh.protected)
  BY SkillRegistryAssumption DEF Entries
<1> HIDE DEF fresh
<1>3. /\ e \in [Made \cup {o} -> Entries] /\ DOMAIN e = Made \cup {o} /\ e[o] = fresh
      /\ \A x \in Made : e[x] = entry[x]
  BY <1>1, <1>2 DEF Protection
<1>4. entry' = Collected(e)
  BY <1>1
<1> HIDE DEF e
<1>5. table' \in [Skills -> DOMAIN e \cup {Nothing}]
  BY <1>1, <1>3 DEF Protection
<1>6. /\ Made' = (Made \cup {o}) \cap Live' /\ entry' = [x \in Made' |-> e[x]]
      /\ \A x \in Made' : entry'[x] = e[x]
  BY <1>3, <1>4 DEF Collected, Made
<1>7. table' \in [Skills -> Made' \cup {Nothing}]
  BY <1>4, <1>5, CollectedKeepsLive DEF Made
<1>8. \A t \in Threads : getting'[t] # Nothing => getting'[t].object \in Made'
  BY <1>1, <1>3, <1>4, <1>5, CollectedKeepsLive DEF Protection, Made
<1>9. served' = served \cap Made' /\ crowded' = crowded \cap Made'
  BY <1>1, <1>6 DEF Protection
<1>10. entry' \in [Made' -> Entries] /\ \A x \in Made' \ {o} : entry'[x] = entry[x]
  BY <1>3, <1>6
<1>11. QED  BY <1>1, <1>2, <1>3, <1>6, <1>7, <1>8, <1>9, <1>10

LEMMA EvictIs ==
  ASSUME Protection, Evict
  PROVE  /\ \E v \in LeastUsed(Excess) :
              table' = [s \in Skills |-> IF s \in v THEN Nothing ELSE table[s]]
         /\ UNCHANGED getting /\ eviction' = Nothing
         /\ Made' \subseteq Made /\ entry' \in [Made' -> Entries]
         /\ \A x \in Made' : entry'[x] = entry[x]
         /\ table' \in [Skills -> Made' \cup {Nothing}]
         /\ \A t \in Threads : getting'[t] # Nothing => getting'[t].object \in Made'
         /\ served' = served \cap Made' /\ crowded' = crowded \cap Made'
<1>1. /\ \E v \in LeastUsed(Excess) :
           table' = [s \in Skills |-> IF s \in v THEN Nothing ELSE table[s]]
      /\ UNCHANGED getting /\ eviction' = Nothing /\ entry' = Collected(entry)
      /\ served' = served \cap Live' /\ crowded' = crowded \cap Live'
  BY DEF Evict
<1>2. table' \in [Skills -> DOMAIN entry \cup {Nothing}]
  BY <1>1 DEF Protection, Made
<1>3. /\ Made' = Made \cap Live' /\ entry' = [x \in Made' |-> entry[x]]
      /\ \A x \in Made' : entry'[x] = entry[x]
  BY <1>1 DEF Collected, Made
<1>4. table' \in [Skills -> Made' \cup {Nothing}]
  BY <1>1, <1>2, CollectedKeepsLive DEF Made
<1>5. \A t \in Threads : getting'[t] # Nothing => getting'[t].object \in Made'
  BY <1>1, <1>2, CollectedKeepsLive DEF Protection, Made
<1>6. served' = served \cap Made' /\ crowded' = crowded \cap Made'
  BY <1>1, <1>3 DEF Protection
<1>7. entry' \in [Made' -> Entries]
  BY <1>3 DEF Protection
<1>8. QED  BY <1>1, <1>3, <1>4, <1>5, <1>6, <1>7

\* A get in the middle of an eviction leaves the listing true: the table stands still, what
\* was left alone is left alone.
LEMMA ListingSurvivesGets ==
  ASSUME Protection, Listing, NEW t \in Threads, NEW o, GetEffect(t, o)
  PROVE  Listing'
<1> SUFFICES ASSUME ~Unlocked PROVE Listing'
  BY DEF Listing, GetEffect, Unlocked
<1>1. /\ table' = table /\ eviction' = eviction /\ Registered' = Registered /\ ~Unlocked'
      /\ \A s \in Registered : table[s] \in Made /\ table[s] \in Made'
  BY DEF GetEffect, Registered, Unlocked, Protection
<1>2. \A s \in Registered : /\ entry'[table'[s]].p0 = entry[table[s]].p0
                            /\ entry[table[s]].protected => entry'[table'[s]].protected
                            /\ table[s] # o => entry'[table'[s]] = entry[table[s]]
  BY <1>1 DEF GetEffect
<1>3. ASSUME NEW s \in eviction.calm
      PROVE  Getters(table[s])' = {} /\ Accesses(s)' = Accesses(s)
  <2>1. s \in Registered /\ Getters(table[s]) = {}
    BY DEF Listing
  <2>2. table[s] # o
    BY <2>1 DEF GetEffect
  <2>3. Getters(table[s])' = {}
    BY <1>1, <2>1, <2>2 DEF Getters, GetEffect
  <2>4. QED  BY <1>1, <1>2, <2>1, <2>2, <2>3 DEF Accesses
<1>4. /\ \A s \in eviction'.listed : ~entry'[table'[s]].p0
      /\ \A s \in Registered' \ (eviction'.unseen \cup eviction'.listed) : entry'[table'[s]].protected
  BY <1>1, <1>2 DEF Listing
<1>5. \A s \in eviction'.calm :
        Getters(table[s])' = {} /\ (s \in DOMAIN eviction'.key => eviction'.key[s] = Accesses(s)')
  BY <1>1, <1>3 DEF Listing
<1>6. QED  BY <1>1, <1>4, <1>5 DEF Listing

\* The steps of an eviction before its deletions.
LEMMA ListingGrows ==
  ASSUME Protection, Listing, EvictBegin \/ \E s \in Skills : EvictCheck(s) \/ EvictKey(s)
  PROVE  Listing'
<1>1. /\ UNCHANGED <<table, entry, getting, served, crowded>> /\ Registered' = Registered
      /\ \A s : Getters(table[s])' = Getters(table[s]) /\ Accesses(s)' = Accesses(s)
  BY DEF EvictBegin, EvictCheck, EvictKey, Registered, Getters, Accesses
<1>2. \A s \in Registered : s \in Skills /\ table[s] \in Made /\ entry[table[s]] \in Entries
                            /\ (entry[table[s]].p0 => entry[table[s]].protected)
  BY DEF Registered, Protection
<1>3. CASE EvictBegin
  <2>1. /\ Cardinality(Registered) > MaxSkills
        /\ eviction' = [unseen |-> Registered, listed |-> {}, key |-> [s \in {} |-> 0],
                        calm   |-> {s \in Registered : Getters(table[s]) = {}},
                        before |-> {s \in Registered : table[s] \in served}]
    BY <1>3 DEF EvictBegin
  <2>2. [s \in {} |-> 0] \in UNION {[k -> 0..CountCap] : k \in SUBSET Skills}
    <3>1. [s \in {} |-> 0] \in [{} -> 0..CountCap] /\ {} \in SUBSET Skills
      OBVIOUS
    <3>2. QED  BY <3>1
  <2>3. eviction' \in Evictions
    BY <1>2, <2>1, <2>2 DEF Evictions
  <2>4. DOMAIN [s \in {} |-> 0] = {}
    OBVIOUS
  <2>5. QED  BY <1>1, <2>1, <2>3, <2>4 DEF Listing
<1>4. ASSUME NEW s \in Skills, EvictCheck(s) PROVE Listing'
  <2>1. /\ ~Unlocked /\ s \in eviction.unseen
        /\ eviction' = [eviction EXCEPT
             !.unseen = eviction.unseen \ {s},
             !.listed = IF entry[table[s]].protected THEN eviction.listed
                                                     ELSE eviction.listed \cup {s}]
    BY <1>4 DEF EvictCheck
  <2>2. eviction \in Evictions /\ s \in Registered
    BY <2>1 DEF Listing
  <2>3. /\ eviction'.unseen = eviction.unseen \ {s} /\ eviction'.key = eviction.key
        /\ eviction'.listed = IF entry[table[s]].protected THEN eviction.listed
                                                           ELSE eviction.listed \cup {s}
        /\ eviction'.calm = eviction.calm /\ eviction'.before = eviction.before
        /\ eviction' \in Evictions
    BY <2>1, <2>2 DEF Evictions
  <2>4. QED  BY <1>1, <1>2, <2>1, <2>2, <2>3 DEF Listing
<1>5. ASSUME NEW s \in Skills, EvictKey(s) PROVE Listing'
  <2> DEFINE k == [u \in DOMAIN eviction.key \cup {s} |->
                     IF u = s THEN Accesses(s) ELSE eviction.key[u]]
  <2>1. ~Unlocked /\ s \in eviction.listed /\ eviction' = [eviction EXCEPT !.key = k]
    BY <1>5 DEF EvictKey
  <2>2. eviction \in Evictions /\ s \in Registered
    BY <2>1 DEF Listing
  <2>3. PICK K \in SUBSET Skills : eviction.key \in [K -> 0..CountCap]
    BY <2>2 DEF Evictions
  <2>4. Accesses(s) \in 0..CountCap
    BY <1>2, <2>2 DEF Accesses, Entries
  <2>5. k \in [K \cup {s} -> 0..CountCap] /\ K \cup {s} \in SUBSET Skills
        /\ DOMAIN k = DOMAIN eviction.key \cup {s}
    BY <2>3, <2>4
  <2>6. \A u \in DOMAIN k : k[u] = IF u = s THEN Accesses(s) ELSE eviction.key[u]
    OBVIOUS
  <2> HIDE DEF k
  <2>7. k \in UNION {[j -> 0..CountCap] : j \in SUBSET Skills}
    BY <2>5
  <2>8. /\ eviction'.unseen = eviction.unseen /\ eviction'.key = k
        /\ eviction'.listed = eviction.listed
        /\ eviction'.calm = eviction.calm /\ eviction'.before = eviction.before
        /\ eviction' \in Evictions
    BY <2>1, <2>2, <2>7 DEF Evictions
  <2>9. \A u \in eviction'.calm : u \in DOMAIN eviction'.key => eviction'.key[u] = Accesses(u)'
    BY <1>1, <2>1, <2>5, <2>6, <2>8 DEF Listing
  <2>10. QED  BY <1>1, <2>1, <2>5, <2>8, <2>9 DEF Listing
<1>6. QED  BY <1>3, <1>4, <1>5

\* Every step of the registry keeps protection and listing, and removes no P0 skill.
LEMMA ProtectionKept ==
  ASSUME Protection, Listing, [Next]_vars
  PROVE  /\ Protection' /\ Listing'
         /\ \A s \in Registered : entry[table[s]].p0 => s \in Registered'
<1>1. ASSUME NEW s \in Skills, Promote(s)
      PROVE  Protection' /\ Listing' /\ table' = table
  <2>1. /\ entry' = [entry EXCEPT ![table[s]] = [entry[table[s]] EXCEPT !.slot = BLUE]]
        /\ table[s] \in Made /\ Unlocked
        /\ UNCHANGED <<table, getting, eviction, served, crowded>> /\ Made' = Made
    BY <1>1 DEF Promote, Protection, Made
  <2>2. [entry[table[s]] EXCEPT !.slot = BLUE] \in Entries
    BY <2>1, EntriesKept DEF Protection
  <2>3. entry' \in [Made -> Entries] /\ \A o \in Made : entry'[o].p0 => entry'[o].protected
    BY <2>1, <2>2 DEF Protection, Entries
  <2>4. QED  BY <2>1, <2>3 DEF Protection, Listing, Unlocked
<1>2. ASSUME NEW t \in Threads, NEW s \in Skills, GetLookup(t, s)
      PROVE  Protection' /\ Listing' /\ table' = table
  <2> DEFINE h == [at |-> "found", object |-> table[s], read |-> 0]
  <2>1. /\ Unlocked /\ table[s] \in Made /\ getting' = [getting EXCEPT ![t] = h]
        /\ UNCHANGED <<table, entry, eviction, served>> /\ crowded' \subseteq crowded \cup {table[s]}
        /\ Made' = Made
    BY <1>2 DEF GetLookup, Protection, Made
  <2>2. h \in Gets /\ h.object \in Made
    BY <2>1, SkillRegistryAssumption DEF Protection, Gets
  <2> HIDE DEF h
  <2>3. QED  BY <2>1, <2>2 DEF Protection, Listing, Unlocked
<1>3. ASSUME NEW t \in Threads, GetStep(t)
      PROVE  Protection' /\ Listing' /\ table' = table
  <2>1. GetEffect(t, getting[t].object)
    BY <1>3, GetStepIs
  <2>2. Listing'
    BY <2>1, ListingSurvivesGets
  <2>3. table' = table /\ table' \in [Skills -> Made' \cup {Nothing}]
    BY <2>1 DEF GetEffect, Protection
  <2>4. \A x \in Made' : entry'[x].p0 => entry'[x].protected
    BY <2>1 DEF GetEffect, Protection
  <2>5. QED  BY <2>1, <2>2, <2>3, <2>4 DEF GetEffect, Protection
<1>4. ASSUME NEW s \in Skills, NEW p0 \in BOOLEAN, NEW slot \in Slots, Register(s, p0, slot)
      PROVE  Protection' /\ Listing' /\ \A u \in Registered : u \in Registered'
  <2>1. PICK o \in Objects \ Made :
           /\ Unlocked /\ table' = [table EXCEPT ![s] = o] /\ UNCHANGED <<getting, eviction>>
           /\ Made' \subseteq Made \cup {o} /\ entry' \in [Made' -> Entries]
           /\ \A x \in Made' \ {o} : entry'[x] = entry[x]
           /\ o \in Made' => (entry'[o].p0 => entry'[o].protected)
           /\ table' \in [Skills -> Made' \cup {Nothing}]
           /\ \A t \in Threads : getting'[t] # Nothing => getting'[t].object \in Made'
           /\ served' = served \cap Made' /\ crowded' = crowded \cap Made'
    BY <1>4, RegisterIs
  <2>2. Protection'
    BY <2>1 DEF Protection
  <2>3. \A u \in Registered : u \in Registered'
    BY <2>1, SkillRegistryAssumption DEF Registered, Protection
  <2>4. QED  BY <2>1, <2>2, <2>3 DEF Listing, Unlocked
<1>5. ASSUME Evict
      PROVE  /\ Protection' /\ Listing'
             /\ \A s \in Registered : entry[table[s]].p0 => s \in Registered'
  <2>1. Protection' /\ Listing'
    BY <1>5, EvictIs DEF Protection, Listing, Unlocked
  <2>2. PICK v \in LeastUsed(Excess) :
          table' = [s \in Skills |-> IF s \in v THEN Nothing ELSE table[s]]
    BY <1>5, EvictIs
  <2>3. v \subseteq eviction.listed /\ ~Unlocked
    BY <1>5 DEF LeastUsed, Evict
  <2>4. QED  BY <2>1, <2>2, <2>3 DEF Registered, Listing
<1>6. CASE EvictBegin \/ \E s \in Skills : EvictCheck(s) \/ EvictKey(s)
  <2>1. UNCHANGED <<table, entry, getting, served, crowded>>
    BY <1>6 DEF EvictBegin, EvictCheck, EvictKey
  <2>2. Listing'
    BY <1>6, ListingGrows
  <2>3. QED  BY <2>1, <2>2 DEF Protection, Made, Registered
<1>7. CASE UNCHANGED vars
  BY <1>7 DEF Protection, Listing, Made, Registered, Unlocked, Getters, Accesses, vars
<1>8. QED
  BY <1>1, <1>2, <1>3, <1>4, <1>5, <1>6, <1>7 DEF Next, Registered

LEMMA ProtectionStarts == Init => Protection /\ Listing
BY DEF Init, Protection, Listing, Made, Unlocked

\* Rule 1 of src/src/registry/skill_registry.py, for any number of skills and threads: a P0
\* skill stays in the registry, whatever is fetched, replaced or evicted meanwhile.
THEOREM P0IsNeverPurged == AdmissionSpec => P0NeverPurged
<1>1. Protection /\ Listing /\ [Next]_vars =>
        \A s \in Registered : entry[table[s]].p0 => s \in Registered'
  BY ProtectionKept
<1>2. Spec => P0NeverPurged
  BY <1>1, ProtectionStarts, ProtectionKept, PTL DEF Spec, P0NeverPurged
<1>3. QED  BY <1>2, AdmissionKeepsRegistry, PTL

-----------------------------------------------------------------------------
\* One registration adds at most one skill, and nothing else adds any.
LEMMA RegisteredGrowsByOne ==
  ASSUME Protection, [Next]_vars, IsFiniteSet(Registered)
  PROVE  IsFiniteSet(Registered')
<1>1. CASE table' = table
  BY <1>1 DEF Registered
<1>2. ASSUME NEW s \in Skills, NEW p0 \in BOOLEAN, NEW slot \in Slots, Register(s, p0, slot)
      PROVE  IsFiniteSet(Registered')
  <2>1. Registered' \subseteq Registered \cup {s}
    BY <1>2 DEF Register, Registered, Protection
  <2>2. IsFiniteSet(Registered \cup {s})
    BY FS_AddElement
  <2>3. QED  BY <2>1, <2>2, FS_Subset
<1>3. CASE Evict
  <2>1. Registered' \subseteq Registered
    BY <1>3 DEF Evict, Registered
  <2>2. QED  BY <2>1, FS_Subset
<1>4. ASSUME NEW t \in Threads, GetStep(t) PROVE table' = table
  BY <1>4, GetStepIs DEF GetEffect
<1>5. QED
  BY <1>1, <1>2, <1>3, <1>4
  DEF Next, vars, Promote, GetLookup, EvictBegin, EvictCheck, EvictKey

\* What an eviction removes, in terms of what it knows.
LEMMA EvictionTakes ==
  ASSUME Protection, Listing, IsFiniteSet(Registered), Evict
  PROVE  /\ Cardinality(Registered') >= MaxSkills
         /\ Cardinality(Registered') = MaxSkills \/ Unprotected' = {}
         /\ \A s \in eviction.calm \ Registered', u \in eviction.calm \cap Unprotected' :
              Accesses(s) <= Accesses(u)
<1> DEFINE listed == eviction.listed
<1>1. PICK victims \in LeastUsed(Excess) :
        table' = [s \in Skills |-> IF s \in victims THEN Nothing ELSE table[s]]
  BY EvictIs
<1>2. /\ victims \subseteq listed /\ Cardinality(victims) = Excess
      /\ \A s \in victims, u \in listed \ victims : eviction.key[s] <= eviction.key[u]
  BY <1>1 DEF LeastUsed
<1>3. /\ eviction.unseen = {} /\ DOMAIN eviction.key = listed /\ ~Unlocked
      /\ listed \subseteq Registered /\ Registered \subseteq Skills /\ Cardinality(Registered) > MaxSkills
      /\ eviction.calm \subseteq Registered
  BY DEF Evict, Listing, Registered
<1>4. Registered' = Registered \ victims
  BY <1>1 DEF Registered
<1>5. Unprotected' \subseteq listed \ victims
  <2>1. \A s \in Registered' : entry'[table'[s]] = entry[table[s]]
    BY <1>1, <1>4, EvictIs DEF Registered
  <2>2. \A s \in Registered \ listed : entry[table[s]].protected
    BY <1>3 DEF Listing
  <2>3. QED  BY <1>4, <2>1, <2>2 DEF Unprotected
<1>6. /\ IsFiniteSet(listed) /\ Cardinality(listed) \in Nat
      /\ Cardinality(Registered) \in Nat /\ MaxSkills \in Nat
  BY <1>3, FS_Subset, FS_CardinalityType, SkillRegistryAssumption
<1>7. Cardinality(Registered') = Cardinality(Registered) - Excess
  <2>1. Registered \cap victims = victims
    BY <1>2, <1>3
  <2>2. QED  BY <1>2, <1>4, <2>1, FS_Difference
<1>8. Cardinality(listed \ victims) = Cardinality(listed) - Excess
  <2>1. listed \cap victims = victims
    BY <1>2
  <2>2. QED  BY <1>2, <1>6, <2>1, FS_Difference
<1>9. ASSUME NEW s \in eviction.calm \ Registered', NEW u \in eviction.calm \cap Unprotected'
      PROVE  Accesses(s) <= Accesses(u)
  <2>1. s \in victims /\ u \in listed \ victims
    BY <1>3, <1>4, <1>5
  <2>2. eviction.key[s] = Accesses(s) /\ eviction.key[u] = Accesses(u)
    BY <1>2, <1>3, <2>1 DEF Listing
  <2>3. QED  BY <1>2, <2>1, <2>2
<1> HIDE DEF listed
<1>10. CASE Excess = Cardinality(Registered) - MaxSkills
  BY <1>3, <1>6, <1>7, <1>9, <1>10
<1>11. CASE Excess = Cardinality(listed) /\ Excess < Cardinality(Registered) - MaxSkills
  <2>1. Cardinality(Registered') >= MaxSkills
    BY <1>6, <1>7, <1>11
  <2>2. Cardinality(listed \ victims) = 0 /\ IsFiniteSet(listed \ victims)
    BY <1>6, <1>8, <1>11, FS_Subset
  <2>3. Unprotected' = {}
    BY <1>5, <2>2, FS_EmptySet
  <2>4. QED  BY <1>9, <2>1, <2>3
<1>12. QED  BY <1>10, <1>11 DEF Excess, Smaller, listed

\* evict_if_needed of src/src/registry/skill_registry.py, for any limit and any numbers of
\* skills and of gets meanwhile: down to the limit and no further, and of the skills that
\* were left alone the least used first.
THEOREM EvictionsAreFair == AdmissionSpec => EvictionIsFair
<1> DEFINE Inv == Protection /\ Listing /\ IsFiniteSet(Registered)
<1>1. Init => Inv
  <2>1. Init => Registered = {}
    BY DEF Init, Registered
  <2>2. QED  BY <2>1, FS_EmptySet, ProtectionStarts
<1>2. Inv /\ [Next]_vars => Inv'
  BY ProtectionKept, RegisteredGrowsByOne
<1>3. Inv /\ Evict =>
        /\ Cardinality(Registered') >= MaxSkills
        /\ Cardinality(Registered') = MaxSkills \/ Unprotected' = {}
        /\ \A s \in eviction.calm \ Registered', u \in eviction.calm \cap Unprotected' :
             Accesses(s) <= Accesses(u)
  BY EvictionTakes
<1> HIDE DEF Inv
<1>4. Spec => EvictionIsFair
  BY <1>1, <1>2, <1>3, PTL DEF Spec, EvictionIsFair
<1>5. QED  BY <1>4, AdmissionKeepsRegistry, PTL

-----------------------------------------------------------------------------
\* The gets that have counted their access of o and not yet returned.
Counted(o) == {t \in Getters(o) : getting[t].at \in {"counted", "rare"}}

Busy == {t \in Threads : getting[t] # Nothing}

\* What the gets keep of an entry that was never crowded: they are fewer than the
\* threshold; if one has returned it, it is protected; and until something protects it, its
\* counter is at most the number of those that are about to compare.
Uncrowded(o) ==
  /\ Getters(o) # {} => Cardinality(Getters(o)) < RareAccessThreshold
  /\ o \in served => entry[o].protected
  /\ ~entry[o].protected =>
       /\ entry[o].access_count <= Cardinality(Counted(o))
       /\ \A t \in Getters(o) :
            getting[t].at = "counting" => getting[t].read <= Cardinality(Counted(o))

\* And what an eviction may have listed of what had been served.
Uses ==
  /\ IsFiniteSet(Busy)
  /\ \A o \in Made \ crowded : Uncrowded(o)
  /\ ~Unlocked => \A s \in eviction.before :
       /\ table[s] \notin crowded => entry[table[s]].protected
       /\ s \in eviction.listed => table[s] \in crowded

LEMMA GettersAreFinite ==
  ASSUME IsFiniteSet(Busy), NEW o
  PROVE  /\ IsFiniteSet(Getters(o)) /\ Cardinality(Getters(o)) \in Nat
         /\ IsFiniteSet(Counted(o)) /\ Cardinality(Counted(o)) \in Nat
         /\ Cardinality(Counted(o)) <= Cardinality(Getters(o))
<1>1. Counted(o) \subseteq Getters(o) /\ Getters(o) \subseteq Busy
  BY DEF Counted, Getters, Busy
<1>2. QED  BY <1>1, FS_Subset, FS_CardinalityType

\* An entry keeps what it has while its gets stand still and nothing serves it.
LEMMA UncrowdedCarries ==
  ASSUME NEW o, Uncrowded(o), Getters(o)' = Getters(o),
         \A t \in Getters(o) : getting'[t] = getting[t],
         entry'[o].protected = entry[o].protected,
         entry'[o].access_count = entry[o].access_count,
         o \in served' => o \in served
  PROVE  Uncrowded(o)'
<1>1. Counted(o)' = Counted(o)
  BY DEF Counted
<1>2. QED  BY <1>1 DEF Uncrowded

\* A step of a get keeps it for the entry it works on.
LEMMA GetKeepsUncrowded ==
  ASSUME Protection, IsFiniteSet(Busy), NEW t \in Threads, GetStep(t), NEW o \in Made \ crowded,
         o = getting[t].object, o \in Made', Uncrowded(o)
  PROVE  Uncrowded(o)'
<1> DEFINE g == getting[t]
<1>1. g \in Gets /\ g # Nothing /\ t \in Getters(o) /\ entry[o] \in Entries
  <2>1. g # Nothing
    BY DEF GetStep, GetRead, GetStore, GetCompare, GetProtect
  <2>2. QED  BY <2>1 DEF Protection, Getters
<1>2. GetEffect(t, o)
  BY GetStepIs
<1>3. /\ \A u \in Threads \ {t} : getting'[u] = getting[u]
      /\ Getters(o)' \subseteq Getters(o)
      /\ Getters(o) \ {t} \subseteq Getters(o)'
  BY <1>1, <1>2 DEF GetEffect, Getters
<1>4. /\ IsFiniteSet(Getters(o)) /\ Cardinality(Getters(o)) \in Nat
      /\ IsFiniteSet(Counted(o)) /\ Cardinality(Counted(o)) \in Nat
      /\ Cardinality(Counted(o)) <= Cardinality(Getters(o))
  BY GettersAreFinite
<1>5. Getters(o)' # {} => Cardinality(Getters(o)') < RareAccessThreshold
  <2>1. Cardinality(Getters(o)') <= Cardinality(Getters(o)) /\ Cardinality(Getters(o)') \in Nat
    BY <1>3, <1>4, FS_Subset, FS_CardinalityType
  <2>2. Cardinality(Getters(o)) < RareAccessThreshold
    BY <1>1 DEF Uncrowded
  <2>3. QED  BY <1>4, <2>1, <2>2, SkillRegistryAssumption
<1>6. CASE GetRead(t)
  <2>1. /\ g.at = "found" /\ UNCHANGED <<entry, served>>
        /\ getting' = [getting EXCEPT ![t] = [at |-> "counting", object |-> o,
                                                 read |-> entry[o].access_count]]
    BY <1>6 DEF GetRead
  <2>2. /\ getting'[t] = [at |-> "counting", object |-> o, read |-> entry[o].access_count]
        /\ getting'[t] # Nothing
    BY <1>1, <2>1, NothingAssumption DEF Protection, Gets, Entries
  <2>3. Getters(o)' = Getters(o) /\ Counted(o)' = Counted(o)
    BY <1>1, <1>3, <2>1, <2>2 DEF Getters, Counted
  <2>4. QED  BY <1>3, <1>5, <2>1, <2>2, <2>3 DEF Uncrowded
<1>7. CASE GetStore(t)
  <2>1. /\ g.at = "counting" /\ UNCHANGED served
        /\ getting' = [getting EXCEPT ![t].at = "counted"]
        /\ entry' = [entry EXCEPT ![o].access_count = UpTo(CountCap, g.read + 1)]
    BY <1>7 DEF GetStore
  <2>2. getting'[t] = [g EXCEPT !.at = "counted"] /\ getting'[t] \in Gets
    BY <1>1, <2>1 DEF Protection, Gets
  <2>3. getting'[t] # Nothing /\ getting'[t].object = o /\ getting'[t].at = "counted"
    BY <1>1, <2>2, NothingAssumption DEF Gets
  <2>4. /\ Getters(o)' = Getters(o) /\ Counted(o)' = Counted(o) \cup {t} /\ t \notin Counted(o)
    BY <1>1, <1>3, <2>1, <2>3 DEF Getters, Counted
  <2>5. Cardinality(Counted(o)') = Cardinality(Counted(o)) + 1
    BY <1>4, <2>4, FS_AddElement
  <2>6. /\ entry'[o].protected = entry[o].protected /\ entry'[o].access_count <= g.read + 1
        /\ entry'[o].access_count \in Nat /\ g.read \in Nat
    <3>1. g.read \in Nat /\ g.read + 1 \in Nat
      BY <1>1 DEF Gets
    <3>2. UpTo(CountCap, g.read + 1) <= g.read + 1 /\ UpTo(CountCap, g.read + 1) \in Nat
      BY <3>1, SkillRegistryAssumption DEF UpTo
    <3>3. entry'[o].access_count = UpTo(CountCap, g.read + 1)
      BY <1>1, <2>1 DEF Protection, Entries
    <3>4. entry'[o].protected = entry[o].protected
      BY <1>1, <2>1 DEF Protection, Entries
    <3>5. QED  BY <3>1, <3>2, <3>3, <3>4
  <2>7. ASSUME ~entry'[o].protected
        PROVE  /\ entry'[o].access_count <= Cardinality(Counted(o)')
               /\ \A u \in Getters(o)' :
                    getting'[u].at = "counting" => getting'[u].read <= Cardinality(Counted(o)')
    <3>1. g.read <= Cardinality(Counted(o))
      BY <1>1, <2>1, <2>6, <2>7 DEF Uncrowded
    <3>2. entry'[o].access_count <= Cardinality(Counted(o)')
      BY <1>4, <2>5, <2>6, <3>1
    <3>3. ASSUME NEW u \in Getters(o)', getting'[u].at = "counting"
          PROVE  getting'[u].read <= Cardinality(Counted(o)')
      <4>1. u # t /\ u \in Getters(o) /\ getting'[u] = getting[u] /\ getting[u] \in Gets
        BY <1>3, <2>3, <2>4, <3>3 DEF Getters, Protection
      <4>2. getting[u].read \in Nat /\ getting[u].read <= Cardinality(Counted(o))
        BY <2>6, <2>7, <3>3, <4>1 DEF Uncrowded, Gets
      <4>3. QED  BY <1>4, <2>5, <4>1, <4>2
    <3>4. QED  BY <3>2, <3>3
  <2>8. QED  BY <1>5, <2>1, <2>6, <2>7 DEF Uncrowded
<1>8. CASE GetCompare(t)
  <2>1. g.at = "counted" /\ t \in Counted(o)
    BY <1>1, <1>8 DEF GetCompare, Counted
  <2>2. CASE Rare(o)
    <3>1. /\ UNCHANGED <<entry, served>> /\ getting' = [getting EXCEPT ![t].at = "rare"]
      BY <1>8, <2>2 DEF GetCompare
    <3>2. getting'[t] = [g EXCEPT !.at = "rare"] /\ getting'[t] \in Gets
      BY <1>1, <3>1 DEF Protection, Gets
    <3>3. getting'[t] # Nothing /\ getting'[t].object = o /\ getting'[t].at = "rare"
      BY <1>1, <3>2, NothingAssumption DEF Gets
    <3>4. Getters(o)' = Getters(o) /\ Counted(o)' = Counted(o)
      BY <1>1, <1>3, <2>1, <3>3 DEF Getters, Counted
    <3>5. QED  BY <1>3, <1>5, <3>1, <3>3, <3>4 DEF Uncrowded
  <2>3. CASE ~Rare(o)
    <3>1. entry[o].protected
      <4>1. RareAccessThreshold <= entry[o].access_count /\ entry[o].access_count \in Nat
        BY <1>1, <2>3, SkillRegistryAssumption DEF Rare, Entries
      <4>2. Cardinality(Getters(o)) < RareAccessThreshold
        BY <1>1 DEF Uncrowded
      <4>3. QED  BY <1>4, <4>1, <4>2, SkillRegistryAssumption DEF Uncrowded
    <3>2. entry'[o].protected
      BY <1>2, <3>1 DEF GetEffect
    <3>3. QED  BY <1>5, <3>2 DEF Uncrowded
  <2>4. QED  BY <2>2, <2>3
<1>9. CASE GetProtect(t)
  <2>1. entry'[o].protected
    <3> DEFINE e == [entry EXCEPT ![o].protected = TRUE]
    <3>1. Return(t, e)
      BY <1>9 DEF GetProtect
    <3>2. e[o].protected /\ DOMAIN e = Made
      BY <1>1 DEF Protection, Entries
    <3> HIDE DEF e
    <3>3. entry'[o] = e[o]
      BY <3>1, <3>2 DEF Return, Collected, Made
    <3>4. QED  BY <3>2, <3>3
  <2>2. QED  BY <1>5, <2>1 DEF Uncrowded
<1>10. QED  BY <1>6, <1>7, <1>8, <1>9 DEF GetStep

\* Every step keeps it.
LEMMA UsesKept ==
  ASSUME Protection, Listing, Uses, [Next]_vars
  PROVE  Uses'
<1>1. ASSUME UNCHANGED <<table, getting, eviction, served, crowded>>, Made' = Made,
             \A o \in Made : /\ entry'[o].protected = entry[o].protected
                             /\ entry'[o].access_count = entry[o].access_count
      PROVE  Uses'
  <2>1. Busy' = Busy /\ \A o : Getters(o)' = Getters(o)
    BY <1>1 DEF Busy, Getters
  <2>2. \A o \in Made' \ crowded' : Uncrowded(o)'
    BY <1>1, <2>1, UncrowdedCarries DEF Uses
  <2>3. ~Unlocked => \A s \in eviction.before : table[s] \in Made
    BY SkillRegistryAssumption DEF Listing, Registered, Protection
  <2>4. QED  BY <1>1, <2>1, <2>2, <2>3 DEF Uses, Unlocked
<1>2. ASSUME NEW s \in Skills, Promote(s)
      PROVE  Uses'
  <2>1. /\ entry' = [entry EXCEPT ![table[s]].slot = BLUE] /\ table[s] \in Made
        /\ UNCHANGED <<table, getting, eviction, served, crowded>> /\ Made' = Made
    BY <1>2 DEF Promote, Protection, Made
  <2>2. \A o \in Made : /\ entry'[o].protected = entry[o].protected
                        /\ entry'[o].access_count = entry[o].access_count
    BY <2>1 DEF Protection, Entries
  <2>3. QED  BY <1>1, <2>1, <2>2
<1>3. ASSUME NEW t \in Threads, NEW s \in Skills, GetLookup(t, s)
      PROVE  Uses'
  <2> DEFINE o == table[s]
             h == [at |-> "found", object |-> table[s], read |-> 0]
  <2>1. /\ UNCHANGED <<table, entry, eviction, served>> /\ Made' = Made /\ Unlocked
        /\ getting[t] = Nothing /\ o \in Made /\ getting' = [getting EXCEPT ![t] = h]
        /\ crowded' = IF Cardinality(Getters(o) \cup {t}) >= RareAccessThreshold
                        THEN crowded \cup {o} ELSE crowded
    BY <1>3 DEF GetLookup, Protection, Made
  <2>2. h \in Gets /\ h # Nothing /\ h.object = o /\ h.at = "found"
    BY <2>1, NothingAssumption, SkillRegistryAssumption DEF Gets, Protection
  <2> HIDE DEF h
  <2>3. /\ getting'[t] = h /\ \A u \in Threads \ {t} : getting'[u] = getting[u]
    BY <2>1, <2>2 DEF Protection
  <2>4. /\ Busy' = Busy \cup {t} /\ \A x : x = o => Getters(x)' = Getters(x) \cup {t}
        /\ \A x : Counted(x)' = Counted(x)
        /\ \A x : x # o => Getters(x)' = Getters(x)
    BY <2>1, <2>2, <2>3 DEF Busy, Getters, Counted
  <2>5. IsFiniteSet(Busy')
    BY <2>4, FS_AddElement DEF Uses
  <2>6. ASSUME NEW x \in Made' \ crowded' PROVE Uncrowded(x)'
    <3>1. x \in Made \ crowded /\ Uncrowded(x)
      BY <2>1, <2>6 DEF Uses
    <3>2. CASE x # o
      <4>1. \A u \in Getters(x) : getting'[u] = getting[u]
        BY <2>1, <2>3 DEF Getters
      <4>2. QED  BY <2>1, <2>4, <3>1, <3>2, <4>1, UncrowdedCarries
    <3>3. CASE x = o
      <4>1. Cardinality(Getters(x)') < RareAccessThreshold
        <5>1. ~(Cardinality(Getters(o) \cup {t}) >= RareAccessThreshold)
          BY <2>1, <2>6, <3>3
        <5>2. Cardinality(Getters(o) \cup {t}) \in Nat
          BY GettersAreFinite, FS_AddElement, FS_CardinalityType DEF Uses
        <5>3. Getters(x)' = Getters(o) \cup {t}
          BY <2>4, <3>3
        <5> DEFINE n == Cardinality(Getters(o) \cup {t})
        <5>4. n < RareAccessThreshold
          <6> HIDE DEF n
          <6>1. n \in Nat /\ ~(n >= RareAccessThreshold)
            BY <5>1, <5>2 DEF n
          <6>2. QED  BY <6>1, SkillRegistryAssumption
        <5>5. QED  BY <5>3, <5>4
      <4>2. \A u \in Getters(x)' : getting'[u].at = "counting" =>
                                     u \in Getters(x) /\ getting'[u] = getting[u]
        BY <2>2, <2>3, <2>4, <3>3 DEF Getters
      <4>3. QED  BY <2>1, <2>4, <3>1, <4>1, <4>2 DEF Uncrowded
    <3>4. QED  BY <3>2, <3>3
  <2>7. QED  BY <2>1, <2>5, <2>6 DEF Uses, Unlocked
<1>4. ASSUME NEW t \in Threads, GetStep(t)
      PROVE  Uses'
  <2> DEFINE o == getting[t].object
  <2>1. GetEffect(t, o)
    BY <1>4, GetStepIs
  <2>2. o \in Made
    BY <2>1 DEF GetEffect
  <2>3. Busy' \subseteq Busy
    BY <2>1 DEF GetEffect, Busy, Getters
  <2>4. IsFiniteSet(Busy')
    BY <2>3, FS_Subset DEF Uses
  <2>5. ASSUME NEW x \in Made' \ crowded' PROVE Uncrowded(x)'
    <3>1. x \in Made \ crowded /\ Uncrowded(x)
      BY <2>1, <2>5 DEF GetEffect, Uses
    <3>2. CASE x = o
      BY <1>4, <2>5, <3>1, <3>2, GetKeepsUncrowded DEF Uses
    <3>3. CASE x # o
      <4>1. Getters(x)' = Getters(x) /\ \A u \in Getters(x) : getting'[u] = getting[u]
        BY <2>1, <3>3 DEF GetEffect, Getters
      <4>2. entry'[x] = entry[x] /\ (x \in served' => x \in served)
        BY <2>1, <2>5, <3>3 DEF GetEffect
      <4>3. QED  BY <3>1, <4>1, <4>2, UncrowdedCarries
    <3>4. QED  BY <3>2, <3>3
  <2>6. ASSUME ~Unlocked', NEW s \in eviction'.before
        PROVE  /\ table'[s] \notin crowded' => entry'[table'[s]].protected
               /\ s \in eviction'.listed => table'[s] \in crowded'
    <3>1. table' = table /\ eviction' = eviction /\ ~Unlocked
      BY <2>1, <2>6 DEF GetEffect, Unlocked
    <3>2. s \in Skills /\ table[s] # Nothing
      BY <2>6, <3>1 DEF Listing, Registered
    <3>3. /\ table[s] \in Made' /\ crowded' = crowded \cap Made'
          /\ entry[table[s]].protected => entry'[table[s]].protected
      BY <2>1, <3>2 DEF GetEffect
    <3>4. QED  BY <2>6, <3>1, <3>3 DEF Uses
  <2>7. QED  BY <2>4, <2>5, <2>6 DEF Uses
<1>5. ASSUME NEW s \in Skills, NEW p0 \in BOOLEAN, NEW slot \in Slots, Register(s, p0, slot)
      PROVE  Uses'
  <2>1. PICK o \in Objects \ Made :
           /\ Unlocked /\ UNCHANGED <<getting, eviction>>
           /\ Made' \subseteq Made \cup {o}
           /\ \A x \in Made' \ {o} : entry'[x] = entry[x]
           /\ o \in Made' => entry'[o].access_count = 0
           /\ served' = served \cap Made' /\ crowded' = crowded \cap Made'
    BY <1>5, RegisterIs
  <2>2. Busy' = Busy /\ \A x : Getters(x)' = Getters(x) /\ Counted(x)' = Counted(x)
    BY <2>1 DEF Busy, Getters, Counted
  <2>3. ASSUME NEW x \in Made' \ crowded', x # o PROVE Uncrowded(x)'
    <3>1. x \in Made \ crowded /\ Uncrowded(x)
      BY <2>1, <2>3 DEF Uses
    <3>2. entry'[x] = entry[x] /\ (x \in served' => x \in served)
      BY <2>1, <2>3
    <3>3. \A u \in Getters(x) : getting'[u] = getting[u]
      BY <2>1
    <3>4. QED  BY <2>2, <3>1, <3>2, <3>3, UncrowdedCarries
  <2>4. ASSUME o \in Made' PROVE Uncrowded(o)'
    <3>1. Getters(o) = {} /\ o \notin served'
      BY <2>1 DEF Getters, Protection
    <3>2. Getters(o)' = {} /\ Counted(o)' = {}
      BY <2>2, <3>1 DEF Counted
    <3>3. entry'[o].access_count = 0 /\ Cardinality({}) = 0
      BY <2>1, <2>4, FS_EmptySet
    <3>4. QED  BY <3>1, <3>2, <3>3 DEF Uncrowded
  <2>5. QED  BY <2>1, <2>2, <2>3, <2>4 DEF Uses, Unlocked
<1>6. CASE Evict
  <2>1. /\ UNCHANGED getting /\ eviction' = Nothing /\ Made' \subseteq Made
        /\ \A x \in Made' : entry'[x] = entry[x]
        /\ served' = served \cap Made' /\ crowded' = crowded \cap Made'
    BY <1>6, EvictIs
  <2>2. Busy' = Busy /\ \A x : Getters(x)' = Getters(x)
    BY <2>1 DEF Busy, Getters
  <2>3. \A x \in Made' \ crowded' : Uncrowded(x)'
    BY <2>1, <2>2, UncrowdedCarries DEF Uses
  <2>4. QED  BY <2>1, <2>2, <2>3 DEF Uses, Unlocked
<1>7. CASE EvictBegin \/ \E s \in Skills : EvictCheck(s) \/ EvictKey(s)
  <2>1. UNCHANGED <<table, entry, getting, served, crowded>>
    BY <1>7 DEF EvictBegin, EvictCheck, EvictKey
  <2>2. /\ Busy' = Busy /\ Made' = Made
        /\ \A x : Getters(x)' = Getters(x) /\ Counted(x)' = Counted(x)
    BY <2>1 DEF Busy, Getters, Counted, Made
  <2>3. \A x \in Made' \ crowded' : Uncrowded(x)'
    BY <2>1, <2>2 DEF Uses, Uncrowded
  <2>4. ASSUME ~Unlocked', NEW s \in eviction'.before
        PROVE  /\ table[s] \notin crowded => entry[table[s]].protected
               /\ s \in eviction'.listed => table[s] \in crowded
    <3>1. CASE EvictBegin
      <4>1. s \in Registered /\ table[s] \in served /\ s \notin eviction'.listed
        BY <2>4, <3>1 DEF EvictBegin
      <4>2. QED  BY <4>1 DEF Uses, Uncrowded, Protection
    <3>2. ASSUME NEW u \in Skills, EvictCheck(u)
          PROVE  /\ s \in eviction.before /\ ~Unlocked
                 /\ s \in eviction'.listed => s \in eviction.listed \/ ~entry[table[s]].protected
      <4>1. ~Unlocked /\ eviction \in Evictions
        BY <3>2 DEF EvictCheck, Listing
      <4>2. QED  BY <2>4, <3>2, <4>1 DEF EvictCheck, Evictions
    <3>3. ASSUME NEW u \in Skills, EvictKey(u)
          PROVE  /\ s \in eviction.before /\ ~Unlocked
                 /\ s \in eviction'.listed => s \in eviction.listed
      <4>1. ~Unlocked /\ eviction \in Evictions
        BY <3>3 DEF EvictKey, Listing
      <4>2. QED  BY <2>4, <3>3, <4>1 DEF EvictKey, Evictions
    <3>4. QED  BY <1>7, <3>1, <3>2, <3>3 DEF Uses
  <2>5. QED  BY <2>1, <2>2, <2>3, <2>4 DEF Uses
<1>8. CASE UNCHANGED vars
  BY <1>1, <1>8 DEF vars, Made
<1>9. QED  BY <1>2, <1>3, <1>4, <1>5, <1>6, <1>7, <1>8 DEF Next

\* get and evict_if_needed of src/src/registry/skill_registry.py, for any skills, limit,
\* threshold and number of threads: an eviction takes nothing that had been served when it
\* began, unless as many gets as the threshold have held that entry at once.
THEOREM ServedAlwaysStay == AdmissionSpec => ServedSkillsStay
<1> DEFINE Inv == Protection /\ Listing /\ Uses
<1>1. Init => Inv
  <2>1. Init => Uses
    <3>1. Init => Busy = {} /\ Made = {} /\ Unlocked
      BY DEF Init, Busy, Made, Unlocked
    <3>2. QED  BY <3>1, FS_EmptySet DEF Uses
  <2>2. QED  BY <2>1, ProtectionStarts
<1>2. Inv /\ [Next]_vars => Inv'
  BY ProtectionKept, UsesKept
<1>3. Inv /\ Evict => \A s \in eviction.before : table[s] \in crowded \/ s \in Registered'
  <2> SUFFICES ASSUME Inv, Evict, NEW s \in eviction.before, table[s] \notin crowded
               PROVE  s \in Registered'
    OBVIOUS
  <2>1. PICK v \in LeastUsed(Excess) :
          table' = [u \in Skills |-> IF u \in v THEN Nothing ELSE table[u]]
    BY EvictIs
  <2>2. v \subseteq eviction.listed /\ ~Unlocked
    BY DEF LeastUsed, Evict
  <2>3. QED  BY <2>1, <2>2 DEF Registered, Listing, Uses
<1> HIDE DEF Inv
<1>4. Spec => ServedSkillsStay
  BY <1>1, <1>2, <1>3, PTL DEF Spec, ServedSkillsStay
<1>5. QED  BY <1>4, AdmissionKeepsRegistry, PTL
-----------------------------------------------------------------------------
\* What the types add to the invariants.
Kept ==
  /\ schema = [o \in Made |-> schema[o]]
  /\ edits \in 0..EditBound

LEMMA NextKept ==
  IInv /\ Kept /\ [AdmissionNext]_<<vars, avars>> => Kept'
<1> SUFFICES ASSUME IInv, Kept, [AdmissionNext]_<<vars, avars>>
             PROVE  Kept'
  OBVIOUS
<1>2. ASSUME Made' = Made, UNCHANGED schema PROVE schema' = [o \in Made' |-> schema'[o]]
  BY <1>2 DEF Kept
<1>3. CASE Construct \/ EditHeld \/ Verify
  <2>1. Made' = Made /\ UNCHANGED schema /\ edits' \in 0..EditBound
    BY <1>3, AdmissionAssumption DEF Construct, EditHeld, Verify, vars, Made, Kept
  <2> QED
    BY <1>2, <2>1 DEF Kept
<1>4. CASE Store
  BY <1>4 DEF Store, Made, Kept
<1>5. ASSUME NEW o \in Made, EditStored(o) PROVE Kept'
  <2>1. /\ Made' = Made /\ edits' \in 0..EditBound
        /\ schema' = [schema EXCEPT ![o] = Edited(schema[o], schema[o].p0)]
    BY <1>5, AdmissionAssumption DEF EditStored, vars, Made, Kept
  <2>2. schema' = [x \in Made' |-> schema'[x]]
    BY <2>1 DEF Kept
  <2> QED
    BY <2>1, <2>2 DEF Kept
<1>6. CASE schema' = [o \in DOMAIN entry' |-> schema[o]] /\ UNCHANGED <<building, edits>>
  BY <1>6 DEF Made, Kept
<1>7. CASE UNCHANGED <<vars, avars>>
  BY <1>2, <1>7 DEF vars, avars, Made, Kept
<1> QED
  BY <1>3, <1>4, <1>5, <1>6, <1>7, Zenon DEF AdmissionNext

\* Table, entries, gets and schemas keep their types, and a get or the table refers to what
\* there is, for any skills, threads and objects: nothing in use is ever collected.
THEOREM AdmissionTypeCorrect == AdmissionSpec => []AdmissionTypeOK
<1>1. Protection /\ Listing /\ [Next]_vars => Protection' /\ Listing'
  BY ProtectionKept
<1>2. Spec => [](Protection /\ Listing)
  BY <1>1, ProtectionStarts, PTL DEF Spec
<1>3. AdmissionInit => Kept
  BY AdmissionAssumption DEF AdmissionInit, Init, Kept, Made
<1>4. IInv /\ Protection /\ Listing /\ Kept => AdmissionTypeOK
  <2> SUFFICES ASSUME IInv, Protection, Listing, Kept PROVE AdmissionTypeOK
    OBVIOUS
  <2>1. schema \in [Made -> Schemas]
    BY DEF IInv, Kept
  <2> QED
    BY <2>1 DEF IInv, Protection, Listing, Unlocked, Kept, AdmissionTypeOK, TypeOK
<1> QED
  BY <1>2, <1>3, <1>4, NextKept, AlwaysVouched, AdmissionKeepsRegistry, PTL
  DEF AdmissionSpec
=============================================================================
