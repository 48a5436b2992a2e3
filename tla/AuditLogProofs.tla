--------------------------- MODULE AuditLogProofs ---------------------------
(***************************************************************************)
(* The chain of AuditLog, proved for every ring size, any number of        *)
(* writers, events and edits, and every body an event can have.            *)
(***************************************************************************)
EXTENDS AuditLog, SequenceTheorems, TLAPS

\* Entries nest the hashes before them, so they have no type worth naming: a list
\* of them is a sequence over some set.
IsList(s) == \E S : s \in Seq(S)

Ring == Len(entries) <= Max + 1 /\ (lock = NoOne => Len(entries) <= Max)

IInv ==
  /\ IsList(entries) /\ IsList(copy)
  /\ lock = NoOne <=> step = "free"
  /\ step # "free" => entries # <<>>
  /\ Ring
  /\ ChainLinked
  /\ CopyIsARing

\* Appending an entry whose prev_hash is the hash at the end keeps a list linked.
LEMMA AppendLinked ==
  ASSUME NEW S, NEW s \in Seq(S), NEW e,
         Linked(s), s # <<>> => e.prev_hash = s[Len(s)].entry_hash
  PROVE  /\ Append(s, e) \in Seq(S \cup {e})
         /\ Len(Append(s, e)) = Len(s) + 1
         /\ Append(s, e)[Len(s) + 1] = e
         /\ Linked(Append(s, e))
<1> DEFINE T == S \cup {e}
           t == Append(s, e)
<1>1. s \in Seq(T) /\ e \in T
  OBVIOUS
<1>2. /\ t \in Seq(T) /\ Len(t) = Len(s) + 1 /\ Len(s) \in Nat
      /\ t[Len(s) + 1] = e /\ \A k \in 1..Len(s) : t[k] = s[k]
  BY <1>1, AppendProperties
<1>3. ASSUME NEW k \in 1..Len(t), k < Len(t)
      PROVE  t[k + 1].prev_hash = t[k].entry_hash
  <2>1. CASE k < Len(s)
    <3>1. k \in 1..Len(s) /\ k + 1 \in 1..Len(s)
      BY <1>2, <2>1
    <3>2. t[k] = s[k] /\ t[k + 1] = s[k + 1]
      BY <1>2, <3>1
    <3> QED
      BY <2>1, <3>1, <3>2 DEF Linked
  <2>2. CASE k = Len(s)
    <3>1. s # <<>> /\ k \in 1..Len(s)
      BY <1>2, <2>2
    <3> QED
      BY <1>2, <2>2, <3>1
  <2> QED
    BY <1>2, <1>3, <2>1, <2>2
<1> QED
  BY <1>2, <1>3 DEF Linked

\* Dropping the oldest entry keeps a list linked and leaves its end where it was.
LEMMA TailLinked ==
  ASSUME NEW S, NEW s \in Seq(S), Len(s) > 1, Linked(s)
  PROVE  /\ Tail(s) \in Seq(S)
         /\ Len(Tail(s)) = Len(s) - 1
         /\ Tail(s)[Len(Tail(s))] = s[Len(s)]
         /\ Linked(Tail(s))
<1>1. /\ Tail(s) \in Seq(S) /\ Len(Tail(s)) = Len(s) - 1 /\ Len(s) \in Nat
      /\ \A k \in 1..Len(s) - 1 : Tail(s)[k] = s[k + 1]
  BY HeadTailProperties
<1>2. ASSUME NEW k \in 1..Len(Tail(s)), k < Len(Tail(s))
      PROVE  Tail(s)[k + 1].prev_hash = Tail(s)[k].entry_hash
  <2>1. k \in 1..Len(s) - 1 /\ k + 1 \in 1..Len(s) - 1
    BY <1>1, <1>2
  <2>2. Tail(s)[k] = s[k + 1] /\ Tail(s)[k + 1] = s[(k + 1) + 1]
    BY <1>1, <2>1
  <2>3. k + 1 \in 1..Len(s) /\ k + 1 < Len(s)
    BY <1>1, <2>1
  <2> QED
    BY <2>2, <2>3 DEF Linked
<1>3. Tail(s)[Len(s) - 1] = s[Len(s)]
  <2>1. Len(s) - 1 \in 1..Len(s) - 1 /\ (Len(s) - 1) + 1 = Len(s)
    BY <1>1
  <2> QED
    BY <1>1, <2>1
<1> QED
  BY <1>1, <1>2, <1>3 DEF Linked

\* Editing a body changes neither the links nor the hashes.
LEMMA EditLinked ==
  ASSUME NEW S, NEW s \in Seq(S), NEW k \in 1..Len(s), Linked(s)
  PROVE  LET t == [s EXCEPT ![k].body.edit = @ + 1]
         IN  /\ IsList(t) /\ Len(t) = Len(s)
             /\ \A j \in 1..Len(s) : t[j].entry_hash = s[j].entry_hash
             /\ Linked(t)
<1> DEFINE e == [s[k] EXCEPT !.body.edit = @ + 1]
           t == [s EXCEPT ![k] = e]
<1>1. [s EXCEPT ![k].body.edit = @ + 1] = t
  OBVIOUS
<1> HIDE DEF e
<1>2. s \in Seq(S \cup {e}) /\ e \in S \cup {e}
  OBVIOUS
<1>3. /\ t \in Seq(S \cup {e}) /\ Len(t) = Len(s)
      /\ \A j \in 1..Len(s) : t[j] = IF j = k THEN e ELSE s[j]
  BY <1>2, ExceptSeq
<1>4. e.entry_hash = s[k].entry_hash /\ e.prev_hash = s[k].prev_hash
  BY DEF e
<1>5. \A j \in 1..Len(s) : /\ t[j].entry_hash = s[j].entry_hash
                           /\ t[j].prev_hash = s[j].prev_hash
  BY <1>3, <1>4
<1>6. Len(s) \in Nat
  OBVIOUS
<1>7. Linked(t)
  BY <1>3, <1>5, <1>6 DEF Linked
<1>8. IsList(t)
  BY <1>3 DEF IsList
<1> HIDE DEF t
<1> QED
  BY <1>1, <1>3, <1>5, <1>7, <1>8

\* The empty log satisfies the invariant.
LEMMA InitInv == Init => IInv
<1> SUFFICES ASSUME Init PROVE IInv
  OBVIOUS
<1>1. IsList(entries) /\ IsList(copy) /\ Len(entries) = 0 /\ Len(copy) = 0
  <2>1. <<>> \in Seq({}) /\ Len(<<>>) = 0
    OBVIOUS
  <2> QED
    BY <2>1 DEF Init, IsList
<1> QED
  BY <1>1, AuditAssumption DEF Init, IInv, Ring, ChainLinked, CopyIsARing, Linked

\* Every step keeps the invariant.
LEMMA NextInv == IInv /\ [Next]_vars => IInv'
<1> SUFFICES ASSUME IInv, [Next]_vars PROVE IInv'
  OBVIOUS
<1>0. PICK S : entries \in Seq(S)
  BY DEF IInv, IsList
<1>n. Len(entries) \in Nat /\ (entries # <<>> => Len(entries) \in 1..Len(entries))
      /\ Max \in Nat \ {0}
  BY <1>0, AuditAssumption
<1>1. ASSUME NEW w \in Writers, LogAppend(w) PROVE IInv'
  <2> DEFINE e == NewEntry(logged, last_hash)
  <2>1. lock = NoOne /\ step = "free" /\ w # NoOne
    BY <1>1, AuditAssumption DEF LogAppend, IInv
  <2>2. entries # <<>> => e.prev_hash = entries[Len(entries)].entry_hash
    BY <2>1 DEF IInv, ChainLinked, NewEntry
  <2>3. Linked(entries) /\ entries' = Append(entries, e)
    BY <1>1 DEF IInv, ChainLinked, LogAppend
  <2> HIDE DEF e
  <2>4. /\ entries' \in Seq(S \cup {e}) /\ Len(entries') = Len(entries) + 1
        /\ Linked(entries')
    BY <1>0, <2>2, <2>3, AppendLinked
  <2>5. IsList(entries') /\ entries' # <<>>
    BY <1>n, <2>4 DEF IsList
  <2>6. Ring'
    BY <1>1, <1>n, <2>1, <2>4 DEF LogAppend, IInv, Ring
  <2> QED
    BY <1>1, <2>1, <2>4, <2>5, <2>6 DEF LogAppend, IInv, ChainLinked, CopyIsARing
<1>2. ASSUME NEW w \in Writers, LogHash(w) PROVE IInv'
  BY <1>2, AuditAssumption DEF LogHash, IInv, ChainLinked, CopyIsARing, Ring
<1>3. ASSUME NEW w \in Writers, LogEvict(w) PROVE IInv'
  <2>0. /\ lock = w /\ step = "hashed" /\ lock' = NoOne /\ step' = "free"
        /\ entries' = IF Len(entries) > Max THEN Tail(entries) ELSE entries
        /\ last_hash' = last_hash /\ copy' = copy
    BY <1>3, Zenon DEF LogEvict
  <2>1. lock = w /\ w # NoOne /\ step = "hashed" /\ entries # <<>>
    BY <2>0, AuditAssumption DEF IInv
  <2>2. Linked(entries) /\ last_hash = entries[Len(entries)].entry_hash
    BY <2>1 DEF IInv, ChainLinked
  <2>3. CASE Len(entries) > Max
    <3>1. entries' = Tail(entries) /\ Len(entries) > 1
      BY <2>0, <1>n, <2>3
    <3>2. /\ entries' \in Seq(S) /\ Len(entries') = Len(entries) - 1
          /\ entries'[Len(entries')] = entries[Len(entries)]
          /\ Linked(entries')
      BY <1>0, <2>2, <3>1, TailLinked
    <3>3. IsList(entries')
      BY <3>2 DEF IsList
    <3>4. Len(entries) <= Max + 1
      BY <2>1 DEF IInv, Ring
    <3>5. Ring'
      BY <2>0, <1>n, <3>2, <3>4 DEF Ring
    <3> QED
      BY <2>0, <2>2, <3>2, <3>3, <3>5 DEF IInv, ChainLinked, CopyIsARing
  <2>4. CASE ~(Len(entries) > Max)
    <3>1. entries' = entries
      BY <2>0, <2>4
    <3>2. Ring'
      BY <2>0, <1>n, <2>4, <3>1 DEF Ring
    <3> QED
      BY <2>0, <2>2, <3>1, <3>2 DEF IInv, ChainLinked, CopyIsARing
  <2> QED
    BY <2>3, <2>4
<1>4. ASSUME NEW k \in 1..Len(entries), Edit(k) PROVE IInv'
  <2> DEFINE t == [entries EXCEPT ![k].body.edit = @ + 1]
  <2>0. Linked(entries) /\ entries' = t
    BY <1>4, Zenon DEF Edit, IInv, ChainLinked
  <2>1. /\ IsList(t) /\ Len(t) = Len(entries)
        /\ \A j \in 1..Len(entries) : t[j].entry_hash = entries[j].entry_hash
        /\ Linked(t)
    BY <1>0, <2>0, EditLinked, Zenon
  <2> HIDE DEF t
  <2>2. /\ IsList(entries') /\ Len(entries') = Len(entries)
        /\ \A j \in 1..Len(entries) : entries'[j].entry_hash = entries[j].entry_hash
        /\ Linked(entries')
    BY <2>0, <2>1
  <2>3. entries # <<>> /\ entries' # <<>>
    BY <1>n, <2>2
  <2>4. entries'[Len(entries')].entry_hash = entries[Len(entries)].entry_hash
    BY <1>n, <2>2, <2>3
  <2>5. Ring'
    BY <1>4, <2>2 DEF Edit, IInv, Ring
  <2> QED
    BY <1>4, <2>2, <2>3, <2>4, <2>5 DEF Edit, IInv, ChainLinked, CopyIsARing
<1>5. CASE GetEntries
  <2>1. Len(entries) <= Max /\ Linked(entries) /\ IsList(entries)
    BY <1>5 DEF GetEntries, IInv, Ring, ChainLinked
  <2> QED
    BY <1>5, <2>1 DEF GetEntries, IInv, Ring, ChainLinked, CopyIsARing
<1>6. CASE VerifyStart \/ VerifyStep
  <2>1. UNCHANGED <<entries, last_hash, lock, step, copy>>
    BY <1>6 DEF VerifyStart, VerifyStep
  <2> QED
    BY <2>1 DEF IInv, Ring, ChainLinked, CopyIsARing
<1>7. CASE UNCHANGED vars
  BY <1>7 DEF vars, IInv, Ring, ChainLinked, CopyIsARing
<1> QED
  BY <1>1, <1>2, <1>3, <1>4, <1>5, <1>6, <1>7 DEF Next

\* The entries in memory are always one linked chain that ends at _last_hash,
\* through appends by any number of threads, evictions and edits.
THEOREM ChainIsLinked == Spec => []ChainLinked
<1>1. IInv => ChainLinked
  BY DEF IInv
<1> QED
  BY InitInv, NextInv, <1>1, PTL DEF Spec

\* get_entries always returns such a chain and never the overfull ring.
THEOREM CopiesAreRings == Spec => []CopyIsARing
<1>1. IInv => CopyIsARing
  BY DEF IInv
<1> QED
  BY InitInv, NextInv, <1>1, PTL DEF Spec

-----------------------------------------------------------------------------
(* verify_chain: what its unlocked walk finds. *)
\* The identity of the event after the one a hash was computed from.
IdAfter(h) == IF h = GENESIS_HASH THEN 0 ELSE h[1].id + 1

\* How many events were evicted: the identity of the first entry in memory.
Evicted == logged - Len(entries)

\* An entry as log() made it for event n, whatever was edited in its body since.
IsEntry(e, n) ==
  /\ e = [body |-> e.body, prev_hash |-> e.prev_hash, entry_hash |-> e.entry_hash]
  /\ e.body = [id |-> n, edit |-> e.body.edit] /\ e.body.edit \in Nat
  /\ e.entry_hash = Digest(Body(n), e.prev_hash)
  /\ IdAfter(e.prev_hash) = n
  /\ n = 0 => e.prev_hash = GENESIS_HASH

\* The entries are the last events in order, each as log() made it but for edits.
NumInv ==
  /\ logged \in Nat /\ Len(entries) <= logged
  /\ \A k \in 1..Len(entries) : IsEntry(entries[k], Evicted + k - 1)
  /\ IdAfter(last_hash) = IF step = "appended" THEN logged - 1 ELSE logged
  /\ logged = 0 => last_hash = GENESIS_HASH
  /\ logged > 0 => entries # <<>>
  /\ step # "free" => Intact(entries[Len(entries)])

\* Some entry the walk has not reached is edited, and it is not the one log() still
\* holds, so an eviction can move it under the index but never past the end.
Ahead == \E p \in walk.i..Len(entries) :
           ~Intact(entries[p]) /\ (step # "free" => p < Len(entries))

\* Evictions have moved the list past the index: the entry there does not follow
\* the one the walk carries, and will not for as long as the walk lasts.
Overtaken == /\ walk.i <= Len(entries) /\ walk.i <= Max
             /\ IdAfter(walk.prev) < Evicted + walk.i - 1

\* Nothing was evicted or edited, and the walk carries the hash before its index.
Pristine ==
  /\ \A k \in 1..Len(entries) : Intact(entries[k])
  /\ Evicted = 0
  /\ walk.i <= Len(entries) + 1
  /\ walk.prev = IF walk.i = 1 THEN GENESIS_HASH ELSE entries[walk.i - 1].entry_hash

\* An edit that was there when the walk began is ahead of the index or has been
\* passed by an eviction, which the walk will notice; a quiet walk of a log that
\* never evicted meets no obstacle.
WalkInv ==
  /\ walk = [pc |-> walk.pc, i |-> walk.i, prev |-> walk.prev, verdict |-> walk.verdict,
             quiet |-> walk.quiet]
  /\ walk.pc = "walking" =>
       /\ walk.i \in Nat \ {0} /\ IdAfter(walk.prev) \in Nat
       /\ IdAfter(walk.prev) <= Evicted + walk.i - 1
       /\ before.edited => Ahead \/ Overtaken
       /\ walk.quiet /\ before = [edited |-> FALSE, evicted |-> FALSE] => Pristine
  /\ EditsDetected
  /\ GrowingLogVerifies

\* A digest determines what it was computed from, and is not the genesis hash.
LEMMA DigestFacts ==
  ASSUME NEW b, NEW p
  PROVE  /\ Digest(b, p) # GENESIS_HASH
         /\ \A c, q : Digest(b, p) = Digest(c, q) => b = c /\ p = q
         /\ \A n \in Nat : IdAfter(Digest(Body(n), p)) = n + 1
<1>1. Digest(b, p) # GENESIS_HASH
  BY DEF Digest, GENESIS_HASH
<1>2. \A c, q : Digest(b, p) = Digest(c, q) => b = c /\ p = q
  BY DEF Digest
<1>3. ASSUME NEW n \in Nat PROVE IdAfter(Digest(Body(n), p)) = n + 1
  <2>1. Digest(Body(n), p) # GENESIS_HASH
    BY DEF Digest, GENESIS_HASH
  <2> QED
    BY <2>1 DEF IdAfter, Digest, Body
<1> QED
  BY <1>1, <1>2, <1>3

\* An entry is intact exactly as long as nobody edited its body.
LEMMA IntactIsUnedited ==
  ASSUME NEW e, NEW n, IsEntry(e, n)
  PROVE  Intact(e) <=> e.body.edit = 0
<1>1. Intact(e) <=> Digest(Body(n), e.prev_hash) = Digest(e.body, e.prev_hash)
  BY DEF Intact, IsEntry
<1>2. Intact(e) <=> Body(n) = e.body
  BY <1>1, DigestFacts
<1>3. Body(n) = e.body <=> e.body.edit = 0
  BY DEF IsEntry, Body
<1> QED
  BY <1>2, <1>3

\* What log() builds is an entry, and intact.
LEMMA NewIsEntry ==
  ASSUME NEW n \in Nat, NEW h, IdAfter(h) = n, n = 0 => h = GENESIS_HASH
  PROVE  IsEntry(NewEntry(n, h), n) /\ Intact(NewEntry(n, h))
BY DEF IsEntry, NewEntry, Intact, Body

\* An edit leaves an entry one, and never an intact one.
LEMMA EditIsEntry ==
  ASSUME NEW e, NEW n, IsEntry(e, n)
  PROVE  /\ IsEntry([e EXCEPT !.body.edit = @ + 1], n)
         /\ ~Intact([e EXCEPT !.body.edit = @ + 1])
<1> DEFINE b == [id |-> n, edit |-> e.body.edit + 1]
           d == [body |-> b, prev_hash |-> e.prev_hash, entry_hash |-> e.entry_hash]
<1>1. [e.body EXCEPT !.edit = @ + 1] = b
  BY DEF IsEntry
<1>2. [e EXCEPT !.body.edit = @ + 1] = [e EXCEPT !.body = b]
  BY <1>1, Zenon
<1>3. [e EXCEPT !.body = b] = d
  BY DEF IsEntry
<1>4. IsEntry(d, n)
  BY DEF IsEntry
<1>5. d.body.edit # 0
  BY DEF IsEntry
<1>6. ~Intact(d)
  BY <1>4, <1>5, IntactIsUnedited
<1> QED
  BY <1>2, <1>3, <1>4, <1>6

\* The facts about the numbers that every step needs.
LEMMA NumFacts ==
  ASSUME IInv, NumInv
  PROVE  /\ Len(entries) \in Nat /\ Evicted \in Nat /\ logged \in Nat
         /\ Max \in Nat \ {0} /\ Len(entries) <= logged
         /\ entries # <<>> => Len(entries) \in 1..Len(entries)
         /\ entries # <<>> <=> Len(entries) > 0
         /\ logged = Evicted + Len(entries)
<1>0. PICK S : entries \in Seq(S)
  BY DEF IInv, IsList
<1> QED
  BY <1>0, AuditAssumption DEF NumInv, Evicted

\* log() adds the entry of the next event and shifts nothing.
LEMMA AppendEffect ==
  ASSUME IInv, NumInv, NEW w \in Writers, LogAppend(w)
  PROVE  /\ step = "free" /\ Len(entries') = Len(entries) + 1 /\ Evicted' = Evicted
         /\ \A k \in 1..Len(entries) : entries'[k] = entries[k]
         /\ entries'[Len(entries')] = NewEntry(logged, last_hash)
<1> DEFINE e == NewEntry(logged, last_hash)
<1>0. PICK S : entries \in Seq(S)
  BY DEF IInv, IsList
<1>1. step = "free" /\ logged' = logged + 1 /\ entries' = Append(entries, e)
  BY AuditAssumption, Zenon DEF LogAppend, IInv
<1> HIDE DEF e
<1>2. /\ Len(entries') = Len(entries) + 1 /\ Len(entries) \in Nat
      /\ \A k \in 1..Len(entries) : entries'[k] = entries[k]
      /\ entries'[Len(entries) + 1] = e
  <2>1. entries \in Seq(S \cup {e}) /\ e \in S \cup {e}
    BY <1>0
  <2> QED
    BY <1>1, <2>1, AppendProperties
<1>3. Evicted' = Evicted
  BY <1>1, <1>2, NumFacts DEF Evicted
<1> QED
  BY <1>1, <1>2, <1>3 DEF e

\* A full ring loses its oldest entry: every index moves by one.
LEMMA EvictEffect ==
  ASSUME IInv, NumInv, NEW w \in Writers, LogEvict(w), Len(entries) > Max
  PROVE  /\ Len(entries') = Len(entries) - 1 /\ Len(entries') = Max
         /\ Evicted' = Evicted + 1
         /\ \A k \in 1..Len(entries') : entries'[k] = entries[k + 1]
<1>0. PICK S : entries \in Seq(S)
  BY DEF IInv, IsList
<1>1. logged' = logged
  BY DEF LogEvict
<1>2. entries' = Tail(entries) /\ entries # <<>>
  BY NumFacts DEF LogEvict
<1>3. /\ Len(entries') = Len(entries) - 1
      /\ \A k \in 1..Len(entries) - 1 : entries'[k] = entries[k + 1]
  BY <1>0, <1>2, HeadTailProperties
<1>4. Len(entries) <= Max + 1
  BY DEF IInv, Ring
<1>5. Evicted' = Evicted + 1
  BY <1>1, <1>3, NumFacts DEF Evicted
<1>6. Len(entries') = Max
  BY <1>3, <1>4, NumFacts
<1> QED
  BY <1>3, <1>5, <1>6

\* An edit replaces one entry, and never the one that log() still holds.
LEMMA EditEffect ==
  ASSUME IInv, NumInv, NEW k \in 1..Len(entries), Edit(k)
  PROVE  /\ Len(entries') = Len(entries) /\ Evicted' = Evicted
         /\ step # "free" => k < Len(entries)
         /\ \A j \in 1..Len(entries) :
              entries'[j] = IF j = k THEN [entries[k] EXCEPT !.body.edit = @ + 1]
                                     ELSE entries[j]
<1> DEFINE e == [entries[k] EXCEPT !.body.edit = @ + 1]
<1>0. PICK S : entries \in Seq(S)
  BY DEF IInv, IsList
<1>1. /\ entries' = [entries EXCEPT ![k] = e] /\ logged' = logged
      /\ (lock # NoOne => k < Len(entries))
  BY Zenon DEF Edit
<1> HIDE DEF e
<1>2. /\ Len(entries') = Len(entries)
      /\ \A j \in 1..Len(entries) : entries'[j] = IF j = k THEN e ELSE entries[j]
  <2>1. entries \in Seq(S \cup {e}) /\ e \in S \cup {e}
    BY <1>0
  <2> QED
    BY <1>1, <2>1, ExceptSeq
<1>3. Evicted' = Evicted
  BY <1>1, <1>2 DEF Evicted
<1>4. step # "free" => k < Len(entries)
  BY <1>1 DEF IInv
<1> QED
  BY <1>2, <1>3, <1>4 DEF e

\* The empty log is numbered.
LEMMA InitNum == Init => NumInv
<1>1. Len(<<>>) = 0
  OBVIOUS
<1> QED
  BY <1>1 DEF Init, NumInv, IdAfter, Evicted

\* Every step keeps the numbering.
LEMMA NextNum == IInv /\ NumInv /\ [Next]_vars => NumInv'
<1> SUFFICES ASSUME IInv, NumInv, [Next]_vars PROVE NumInv'
  OBVIOUS
<1>1. ASSUME NEW w \in Writers, LogAppend(w) PROVE NumInv'
  <2>1. /\ step' = "appended" /\ logged' = logged + 1 /\ last_hash' = last_hash
    BY <1>1 DEF LogAppend
  <2>2. /\ IsEntry(NewEntry(logged, last_hash), logged)
        /\ Intact(NewEntry(logged, last_hash))
    BY <1>1, AppendEffect, NumFacts, NewIsEntry DEF NumInv
  <2>3. Intact(entries[Len(entries)])'
    BY <1>1, <2>2, AppendEffect DEF Intact
  <2>4. ASSUME NEW k \in 1..Len(entries')
        PROVE  IsEntry(entries'[k], Evicted' + k - 1)
    <3>1. CASE k = Len(entries')
      <4>1. Evicted' + k - 1 = logged
        BY <1>1, <3>1, AppendEffect, NumFacts
      <4> QED
        BY <1>1, <2>2, <3>1, <4>1, AppendEffect
    <3>2. CASE k # Len(entries')
      <4>1. k \in 1..Len(entries)
        BY <1>1, <3>2, AppendEffect, NumFacts
      <4> QED
        BY <1>1, <4>1, AppendEffect DEF NumInv
    <3> QED
      BY <3>1, <3>2
  <2>5. IdAfter(last_hash)' = logged' - 1
    BY <2>1, NumFacts, AppendEffect, <1>1 DEF NumInv, IdAfter
  <2>6. /\ logged' \in Nat /\ Len(entries') <= logged' /\ logged' # 0
        /\ Len(entries') > 0
    BY <1>1, <2>1, AppendEffect, NumFacts
  <2>7. entries' # <<>>
    BY <2>6
  <2> QED
    BY <2>1, <2>3, <2>4, <2>5, <2>6, <2>7 DEF NumInv, IsEntry
<1>2. ASSUME NEW w \in Writers, LogHash(w) PROVE NumInv'
  <2>1. /\ step = "appended" /\ step' = "hashed" /\ UNCHANGED <<entries, logged>>
        /\ last_hash' = entries[Len(entries)].entry_hash
    BY <1>2 DEF LogHash
  <2>2. entries # <<>>
    BY <2>1 DEF IInv
  <2>3. IsEntry(entries[Len(entries)], logged - 1) /\ logged - 1 \in Nat
    <3>1. Evicted + Len(entries) - 1 = logged - 1 /\ Len(entries) \in 1..Len(entries)
      BY <2>2, NumFacts
    <3>2. IsEntry(entries[Len(entries)], Evicted + Len(entries) - 1)
      BY <3>1 DEF NumInv
    <3>3. logged - 1 \in Nat
      BY <2>2, NumFacts
    <3> QED
      BY <3>1, <3>2, <3>3
  <2>4. last_hash' # GENESIS_HASH /\ IdAfter(last_hash') = (logged - 1) + 1
    BY <2>1, <2>3, DigestFacts DEF IsEntry
  <2>5. IdAfter(last_hash)' = IdAfter(last_hash')
    BY Zenon DEF IdAfter
  <2>6. (logged - 1) + 1 = logged /\ logged # 0
    BY <2>2, NumFacts
  <2> QED
    BY <2>1, <2>2, <2>4, <2>5, <2>6 DEF NumInv, Evicted, Intact
<1>3. ASSUME NEW w \in Writers, LogEvict(w) PROVE NumInv'
  <2>1. step = "hashed" /\ step' = "free" /\ last_hash' = last_hash /\ logged' = logged
    BY <1>3 DEF LogEvict
  <2>2. IdAfter(last_hash)' = logged
    BY <2>1 DEF NumInv, IdAfter
  <2>3. CASE Len(entries) > Max
    <3>1. ASSUME NEW k \in 1..Len(entries')
          PROVE  IsEntry(entries'[k], Evicted' + k - 1)
      <4>1. /\ k + 1 \in 1..Len(entries) /\ entries'[k] = entries[k + 1]
            /\ Evicted + (k + 1) - 1 = Evicted' + k - 1
        BY <1>3, <2>3, EvictEffect, NumFacts
      <4> QED
        BY <4>1 DEF NumInv
    <3>2. Len(entries') > 0 /\ Len(entries') <= logged
      BY <1>3, <2>3, EvictEffect, NumFacts
    <3>3. entries' # <<>>
      BY <3>2
    <3> QED
      BY <2>1, <2>2, <3>1, <3>2, <3>3 DEF NumInv
  <2>4. CASE ~(Len(entries) > Max)
    <3>1. entries' = entries /\ Evicted' = Evicted
      BY <1>3, <2>1, <2>4 DEF LogEvict, Evicted
    <3> QED
      BY <2>1, <2>2, <3>1 DEF NumInv
  <2> QED
    BY <2>3, <2>4
<1>4. ASSUME NEW k \in 1..Len(entries), Edit(k) PROVE NumInv'
  <2>0. /\ Len(entries') = Len(entries) /\ Evicted' = Evicted
        /\ step # "free" => k < Len(entries)
        /\ \A j \in 1..Len(entries) : j # k => entries'[j] = entries[j]
    BY <1>4, EditEffect, Zenon
  <2>1. UNCHANGED <<last_hash, step, logged>>
    BY <1>4 DEF Edit
  <2>2. IsEntry([entries[k] EXCEPT !.body.edit = @ + 1], Evicted + k - 1)
    BY EditIsEntry, Zenon DEF NumInv
  <2>3. \A j \in 1..Len(entries') : IsEntry(entries'[j], Evicted' + j - 1)
    BY <1>4, <2>2, EditEffect DEF NumInv
  <2>4. Len(entries') > 0
    BY <2>0, NumFacts
  <2>5. entries' # <<>>
    BY <2>4
  <2>6. step # "free" => Intact(entries[Len(entries)])'
    <3> SUFFICES ASSUME step # "free" PROVE Intact(entries[Len(entries)])'
      OBVIOUS
    <3>1. k < Len(entries) /\ Len(entries) \in 1..Len(entries)
      BY <2>0, NumFacts
    <3>2. entries'[Len(entries')] = entries[Len(entries)]
      BY <2>0, <3>1
    <3> QED
      BY <3>2 DEF NumInv, Intact
  <2>7. IdAfter(last_hash)' = IdAfter(last_hash)
    BY <2>1 DEF IdAfter
  <2> QED
    BY <2>0, <2>1, <2>3, <2>5, <2>6, <2>7 DEF NumInv
<1>5. CASE GetEntries \/ VerifyStart \/ VerifyStep \/ UNCHANGED vars
  <2>1. UNCHANGED <<entries, last_hash, step, logged>>
    BY <1>5 DEF GetEntries, VerifyStart, VerifyStep, vars
  <2> QED
    BY <2>1 DEF NumInv, Evicted, IsEntry, IdAfter, Intact
<1> QED
  BY <1>1, <1>2, <1>3, <1>4, <1>5 DEF Next

\* Before the first walk there is nothing to show.
LEMMA InitWalk == Init => WalkInv
BY DEF Init, Idle, WalkInv, EditsDetected, GrowingLogVerifies

\* Every step keeps what the walk relies on.
LEMMA NextWalk == IInv /\ NumInv /\ WalkInv /\ [Next]_vars => WalkInv'
<1> SUFFICES ASSUME IInv, NumInv, WalkInv, [Next]_vars PROVE WalkInv'
  OBVIOUS
<1>1. ASSUME NEW w \in Writers, LogAppend(w) PROVE WalkInv'
  <2>0. UNCHANGED <<walk, before>>
    BY <1>1 DEF LogAppend
  <2>1. /\ Len(entries') = Len(entries) + 1 /\ Evicted' = Evicted
        /\ \A k \in 1..Len(entries) : entries'[k] = entries[k]
        /\ Intact(entries'[Len(entries')])
        /\ Len(entries) \in Nat
    BY <1>1, AppendEffect, NumFacts, NewIsEntry DEF NumInv
  <2>2. IdAfter(walk.prev)' = IdAfter(walk.prev)
    BY <2>0 DEF IdAfter
  <2> SUFFICES ASSUME walk.pc = "walking"
               PROVE  /\ before.edited => Ahead' \/ Overtaken'
                      /\ walk.quiet /\ before = [edited |-> FALSE, evicted |-> FALSE]
                           => Pristine'
    BY <2>0, <2>1, <2>2 DEF WalkInv, EditsDetected, GrowingLogVerifies
  <2>3. walk.i \in Nat \ {0}
    BY DEF WalkInv
  <2>4. ASSUME Ahead PROVE Ahead'
    <3>1. PICK p \in walk.i..Len(entries) : ~Intact(entries[p])
      BY <2>4 DEF Ahead
    <3>2. /\ p \in 1..Len(entries) /\ p \in walk.i..Len(entries') /\ p < Len(entries')
          /\ entries'[p] = entries[p]
      BY <2>1, <2>3
    <3> QED
      BY <2>0, <3>1, <3>2 DEF Ahead, Intact
  <2>5. ASSUME Overtaken PROVE Overtaken'
    BY <2>0, <2>1, <2>2, <2>3, <2>5 DEF Overtaken
  <2>6. ASSUME Pristine PROVE Pristine'
    <3>1. ASSUME NEW k \in 1..Len(entries') PROVE Intact(entries'[k])
      <4>1. k \in 1..Len(entries) \/ k = Len(entries')
        BY <2>1
      <4> QED
        BY <4>1, <2>1, <2>6 DEF Pristine
    <3>2. walk.i <= Len(entries') + 1 /\ (walk.i # 1 => walk.i - 1 \in 1..Len(entries))
      BY <2>1, <2>3, <2>6 DEF Pristine
    <3>3. walk.prev = IF walk.i = 1 THEN GENESIS_HASH
                      ELSE entries'[walk.i - 1].entry_hash
      BY <2>1, <2>6, <3>2 DEF Pristine
    <3> QED
      BY <2>0, <2>1, <2>6, <3>1, <3>2, <3>3 DEF Pristine, Intact
  <2> QED
    BY <2>4, <2>5, <2>6 DEF WalkInv
<1>2. CASE GetEntries \/ (\E w \in Writers : LogHash(w)) \/ UNCHANGED vars
  <2>1. /\ UNCHANGED <<entries, logged, walk, before>>
        /\ step' # "free" => step # "free"
    BY <1>2 DEF GetEntries, LogHash, vars
  <2>2. /\ Evicted' = Evicted /\ IdAfter(walk.prev)' = IdAfter(walk.prev)
        /\ Overtaken => Overtaken'
        /\ Pristine => Pristine'
    BY <2>1 DEF Evicted, IdAfter, Overtaken, Pristine, Intact
  <2>3. Ahead => Ahead'
    BY <2>1 DEF Ahead, Intact
  <2> QED
    BY <2>1, <2>2, <2>3 DEF WalkInv, EditsDetected, GrowingLogVerifies
<1>3. ASSUME NEW w \in Writers, LogEvict(w) PROVE WalkInv'
  <2>1. /\ step # "free" /\ step' = "free" /\ UNCHANGED <<logged, before>>
        /\ walk' = [walk EXCEPT !.quiet = @ /\ entries' = entries]
    BY <1>3 DEF LogEvict
  <2>2. /\ walk' = [pc |-> walk.pc, i |-> walk.i, prev |-> walk.prev,
                    verdict |-> walk.verdict, quiet |-> (walk.quiet /\ entries' = entries)]
        /\ walk'.pc = walk.pc /\ walk'.i = walk.i /\ walk'.prev = walk.prev
        /\ walk'.verdict = walk.verdict
        /\ walk'.quiet <=> walk.quiet /\ entries' = entries
    BY <2>1 DEF WalkInv
  <2>3. IdAfter(walk.prev)' = IdAfter(walk.prev)
    BY <2>2 DEF IdAfter
  <2>4. CASE ~(Len(entries) > Max)
    <3>1. entries' = entries
      BY <1>3, <2>4 DEF LogEvict
    <3>2. /\ Evicted' = Evicted
          /\ Overtaken => Overtaken'
          /\ Pristine => Pristine'
      BY <2>1, <2>2, <2>3, <3>1 DEF Evicted, Overtaken, Pristine, Intact
    <3>3. Ahead => Ahead'
      BY <2>1, <2>2, <3>1 DEF Ahead, Intact
    <3> QED
      BY <2>1, <2>2, <2>3, <3>1, <3>2, <3>3
      DEF WalkInv, EditsDetected, GrowingLogVerifies
  <2>5. CASE Len(entries) > Max
    <3>1. /\ Len(entries') = Len(entries) - 1 /\ Len(entries') = Max
          /\ Evicted' = Evicted + 1 /\ Evicted \in Nat
          /\ Len(entries) \in Nat /\ Max \in Nat
          /\ \A k \in 1..Len(entries') : entries'[k] = entries[k + 1]
          /\ entries' # entries
      BY <1>3, <2>5, EvictEffect, NumFacts
    <3> SUFFICES ASSUME walk.pc = "walking"
                 PROVE  before.edited => Ahead' \/ Overtaken'
      <4>1. ~walk'.quiet
        BY <2>2, <3>1
      <4>2. walk'.pc = "walking" =>
              /\ walk'.i \in Nat \ {0} /\ IdAfter(walk.prev)' \in Nat
              /\ IdAfter(walk.prev)' <= Evicted' + walk'.i - 1
        BY <2>2, <2>3, <3>1 DEF WalkInv
      <4> QED
        BY <2>1, <2>2, <4>1, <4>2 DEF WalkInv, EditsDetected, GrowingLogVerifies
    <3>2. /\ walk.i \in Nat \ {0} /\ IdAfter(walk.prev) \in Nat
          /\ IdAfter(walk.prev) <= Evicted + walk.i - 1
      BY DEF WalkInv
    <3>3. ASSUME Overtaken PROVE Overtaken'
      BY <2>2, <2>3, <3>1, <3>2, <3>3 DEF Overtaken
    <3>4. ASSUME Ahead PROVE Ahead' \/ Overtaken'
      <4>1. PICK p \in walk.i..Len(entries) : ~Intact(entries[p]) /\ p < Len(entries)
        BY <2>1, <3>4 DEF Ahead
      <4>2. CASE p = walk.i
        BY <2>2, <2>3, <3>1, <3>2, <4>1, <4>2 DEF Overtaken
      <4>3. CASE p # walk.i
        <5>1. /\ p - 1 \in walk.i..Len(entries') /\ p - 1 \in 1..Len(entries')
              /\ (p - 1) + 1 = p
          BY <3>1, <3>2, <4>1, <4>3
        <5>2. entries'[p - 1] = entries[p]
          BY <3>1, <5>1
        <5> QED
          BY <2>1, <2>2, <4>1, <5>1, <5>2 DEF Ahead, Intact
      <4> QED
        BY <4>2, <4>3
    <3> QED
      BY <3>3, <3>4 DEF WalkInv
  <2> QED
    BY <2>4, <2>5
<1>4. ASSUME NEW k \in 1..Len(entries), Edit(k) PROVE WalkInv'
  <2>1. /\ UNCHANGED <<logged, before, step>>
        /\ walk' = [walk EXCEPT !.quiet = FALSE]
    BY <1>4 DEF Edit
  <2>2. /\ walk' = [pc |-> walk.pc, i |-> walk.i, prev |-> walk.prev,
                    verdict |-> walk.verdict, quiet |-> FALSE]
        /\ walk'.pc = walk.pc /\ walk'.i = walk.i /\ walk'.prev = walk.prev
        /\ walk'.verdict = walk.verdict
        /\ ~walk'.quiet
    BY <2>1 DEF WalkInv
  <2>3. IdAfter(walk.prev)' = IdAfter(walk.prev)
    BY <2>2 DEF IdAfter
  <2>4. /\ Len(entries') = Len(entries) /\ Evicted' = Evicted /\ Len(entries) \in Nat
        /\ \A j \in 1..Len(entries) : j # k => entries'[j] = entries[j]
        /\ entries'[k] = [entries[k] EXCEPT !.body.edit = @ + 1]
    BY <1>4, EditEffect, NumFacts, Zenon
  <2>5. \A j \in 1..Len(entries) : ~Intact(entries[j]) => ~Intact(entries'[j])
    <3>1. ~Intact(entries'[k])
      BY <2>4, EditIsEntry, Zenon DEF NumInv
    <3> QED
      BY <2>4, <3>1, Zenon
  <2>6. Overtaken => Overtaken'
    BY <2>2, <2>3, <2>4 DEF Overtaken
  <2>7. ASSUME walk.pc = "walking", Ahead PROVE Ahead'
    <3>1. PICK p \in walk.i..Len(entries) :
            ~Intact(entries[p]) /\ (step # "free" => p < Len(entries))
      BY <2>7 DEF Ahead
    <3>2. p \in 1..Len(entries)
      BY <2>4, <2>7 DEF WalkInv
    <3>3. ~Intact(entries'[p])
      BY <2>5, <3>1, <3>2
    <3>4. Len(entries') = Len(entries)
      BY <2>4
    <3> QED
      BY <2>1, <2>2, <3>1, <3>3, <3>4 DEF Ahead, Intact
  <2>8. Evicted' = Evicted
    BY <2>4
  <2> QED
    BY <2>1, <2>2, <2>3, <2>6, <2>7, <2>8 DEF WalkInv, EditsDetected, GrowingLogVerifies
<1>5. CASE VerifyStart
  <2>1. /\ UNCHANGED <<entries, logged, step>>
        /\ walk' = [pc |-> "walking", i |-> 1, prev |-> GENESIS_HASH, verdict |-> FALSE,
                    quiet |-> TRUE]
        /\ before'.edited <=> \E k \in 1..Len(entries) : ~Intact(entries[k])
        /\ before' = [edited |-> FALSE, evicted |-> FALSE]
             => /\ \A k \in 1..Len(entries) : Intact(entries[k])
                /\ entries # <<>> => entries[1].body.id = 0
    BY <1>5 DEF VerifyStart
  <2>2. Evicted' = Evicted /\ IdAfter(walk.prev)' = 0
    BY <2>1 DEF Evicted, IdAfter
  <2>3. before'.edited => Ahead'
    <3> SUFFICES ASSUME NEW k \in 1..Len(entries), ~Intact(entries[k]) PROVE Ahead'
      BY <2>1
    <3>1. step # "free" => k < Len(entries)
      <4>1. step # "free" => k # Len(entries)
        BY DEF NumInv
      <4> QED
        BY <4>1, NumFacts
    <3> QED
      BY <2>1, <3>1 DEF Ahead, Intact
  <2>4. ASSUME before' = [edited |-> FALSE, evicted |-> FALSE] PROVE Pristine'
    <3>1. CASE entries = <<>>
      <4>1. logged = 0 /\ Len(entries) = 0
        BY <3>1 DEF NumInv
      <4> QED
        BY <2>1, <2>4, <4>1 DEF Pristine, Intact, Evicted
    <3>2. CASE entries # <<>>
      <4>1. 1 \in 1..Len(entries) /\ Evicted \in Nat /\ Len(entries) \in Nat
        BY <3>2, NumFacts
      <4>2. IsEntry(entries[1], Evicted + 1 - 1)
        BY <4>1 DEF NumInv
      <4>3. Evicted = 0
        BY <2>1, <2>4, <3>2, <4>1, <4>2 DEF IsEntry
      <4> QED
        BY <2>1, <2>2, <2>4, <4>1, <4>3 DEF Pristine, Intact
    <3> QED
      BY <3>1, <3>2
  <2> QED
    BY <2>1, <2>2, <2>3, <2>4, NumFacts DEF WalkInv, EditsDetected, GrowingLogVerifies
<1>6. CASE VerifyStep
  <2>1. UNCHANGED <<entries, logged, step, before>> /\ walk.pc = "walking"
    BY <1>6 DEF VerifyStep
  <2>2. Evicted' = Evicted
    BY <2>1 DEF Evicted
  <2>3. /\ walk.i \in Nat \ {0} /\ IdAfter(walk.prev) \in Nat
        /\ IdAfter(walk.prev) <= Evicted + walk.i - 1
        /\ before.edited => Ahead \/ Overtaken
        /\ walk.quiet /\ before = [edited |-> FALSE, evicted |-> FALSE] => Pristine
        /\ Len(entries) \in Nat /\ Evicted \in Nat
    BY <2>1, NumFacts DEF WalkInv
  <2> DEFINE e == entries[walk.i]
             ok == Intact(e) /\ e.prev_hash = walk.prev
             on == [walk EXCEPT !.i = @ + 1, !.prev = e.entry_hash]
  <2>0. \/ walk.i > Len(entries) /\ walk' = Verdict(TRUE)
        \/ walk.i <= Len(entries) /\ ok /\ walk' = on
        \/ walk.i <= Len(entries) /\ ~ok /\ walk' = Verdict(FALSE)
    BY <1>6, Zenon DEF VerifyStep
  <2>4. CASE walk.i > Len(entries) /\ walk' = Verdict(TRUE)
    <3>1. walk' = Verdict(TRUE)
      BY <2>4
    <3>2. ~before.edited
      BY <2>3, <2>4 DEF Ahead, Overtaken
    <3> QED
      BY <2>1, <3>1, <3>2 DEF WalkInv, Verdict, EditsDetected, GrowingLogVerifies
  <2>5. CASE walk.i <= Len(entries) /\ ~ok /\ walk' = Verdict(FALSE)
    <3>1. walk' = Verdict(FALSE)
      BY <2>5
    <3>2. ~Pristine
      <4> SUFFICES ASSUME Pristine PROVE FALSE
        OBVIOUS
      <4>1. walk.i \in 1..Len(entries)
        BY <2>3, <2>5
      <4>2. Intact(e)
        BY <4>1 DEF Pristine
      <4>3. CASE walk.i = 1
        <5>1. IsEntry(e, 0)
          BY <4>1, <4>3 DEF Pristine, NumInv
        <5> QED
          BY <2>5, <4>2, <4>3, <5>1 DEF Pristine, IsEntry
      <4>4. CASE walk.i # 1
        <5>1. /\ walk.i - 1 \in 1..Len(entries) /\ walk.i - 1 < Len(entries)
              /\ (walk.i - 1) + 1 = walk.i
          BY <4>1, <4>4, <2>3
        <5>2. e.prev_hash = entries[walk.i - 1].entry_hash
          BY <5>1 DEF IInv, ChainLinked, Linked
        <5> QED
          BY <2>5, <4>2, <4>4, <5>2 DEF Pristine
      <4> QED
        BY <4>3, <4>4
    <3> QED
      BY <2>1, <2>3, <3>1, <3>2 DEF WalkInv, Verdict, EditsDetected, GrowingLogVerifies
  <2>6. CASE walk.i <= Len(entries) /\ ok /\ walk' = on
    <3>1. /\ walk' = [pc |-> "walking", i |-> walk.i + 1, prev |-> e.entry_hash,
                      verdict |-> walk.verdict, quiet |-> walk.quiet]
          /\ walk.i \in 1..Len(entries)
      <4>1. walk = [pc |-> "walking", i |-> walk.i, prev |-> walk.prev,
                    verdict |-> walk.verdict, quiet |-> walk.quiet]
        BY <2>1 DEF WalkInv
      <4>2. walk.i \in 1..Len(entries) /\ walk' = on
        BY <2>3, <2>6
      <4>3. PICK i, h, v, q :
              walk = [pc |-> "walking", i |-> i, prev |-> h, verdict |-> v, quiet |-> q]
        BY <4>1, Zenon
      <4> DEFINE g == e.entry_hash
      <4>4. walk' = [walk EXCEPT !.i = walk.i + 1, !.prev = g]
        BY <4>2
      <4> HIDE DEF g
      <4>5. walk' = [pc |-> "walking", i |-> walk.i + 1, prev |-> g,
                     verdict |-> walk.verdict, quiet |-> walk.quiet]
        BY <4>3, <4>4
      <4> QED
        BY <4>2, <4>5 DEF g
    <3>2. IsEntry(e, Evicted + walk.i - 1) /\ Evicted + walk.i - 1 \in Nat
      BY <2>3, <3>1 DEF NumInv
    <3>3. IdAfter(walk.prev)' = Evicted + walk.i /\ IdAfter(walk.prev)' \in Nat
      <4>1. IdAfter(e.entry_hash) = (Evicted + walk.i - 1) + 1
        BY <3>2, DigestFacts DEF IsEntry
      <4>2. IdAfter(walk.prev)' = IdAfter(e.entry_hash)
        BY <3>1 DEF IdAfter
      <4> QED
        BY <2>3, <4>1, <4>2
    <3>4. IdAfter(walk.prev) = Evicted + walk.i - 1
      BY <2>6, <3>2 DEF IsEntry
    <3>5. ~Overtaken
      BY <2>3, <3>4 DEF Overtaken
    <3>6. ASSUME Ahead PROVE Ahead'
      <4>1. PICK p \in walk.i..Len(entries) :
              ~Intact(entries[p]) /\ (step # "free" => p < Len(entries))
        BY <3>6 DEF Ahead
      <4>2. p # walk.i
        BY <2>6, <4>1
      <4>3. p \in (walk.i + 1)..Len(entries)
        BY <2>3, <4>1, <4>2
      <4> QED
        BY <2>1, <3>1, <4>1, <4>3 DEF Ahead, Intact
    <3>7. ASSUME Pristine PROVE Pristine'
      <4>1. walk'.i # 1 /\ walk'.i - 1 = walk.i /\ walk'.i <= Len(entries) + 1
        BY <2>3, <3>1
      <4> QED
        BY <2>1, <2>2, <3>1, <3>7, <4>1 DEF Pristine, Intact
    <3> HIDE DEF e
    <3>8. walk'.i = walk.i + 1 /\ walk'.pc = "walking" /\ walk'.quiet = walk.quiet
      BY <3>1
    <3> QED
      BY <2>1, <2>2, <2>3, <3>1, <3>3, <3>5, <3>6, <3>7, <3>8
      DEF WalkInv, EditsDetected, GrowingLogVerifies
  <2> QED
    BY <2>0, <2>4, <2>5, <2>6
<1> QED
  BY <1>1, <1>2, <1>3, <1>4, <1>5, <1>6 DEF Next

\* verify_chain finds every edit that was there when its walk began, whatever is
\* logged, evicted or edited while it walks the live list without the lock.
THEOREM WalksFindEdits == Spec => []EditsDetected
<1>1. WalkInv => EditsDetected
  BY DEF WalkInv
<1> QED
  BY InitInv, NextInv, InitNum, NextNum, InitWalk, NextWalk, <1>1, PTL DEF Spec

\* A log that never evicted verifies, whatever is logged during the walk, as long as
\* the walk itself meets neither an edit nor an eviction.
THEOREM GrowingLogsVerify == Spec => []GrowingLogVerifies
<1>1. WalkInv => GrowingLogVerifies
  BY DEF WalkInv
<1> QED
  BY InitInv, NextInv, InitNum, NextNum, InitWalk, NextWalk, <1>1, PTL DEF Spec
-----------------------------------------------------------------------------
(* Types *)

\* What the types add to the invariants.
Kept ==
  /\ lock \in Writers \cup {NoOne} /\ step \in {"free", "appended", "hashed"}
  /\ logged \in 0..LogBound /\ edits \in 0..EditBound
  /\ walk.pc \in {"idle", "walking", "done"} /\ walk.i \in 0..LogBound + 1

\* Every step keeps the types: the index goes no further than one past what was logged.
LEMMA NextKept == IInv /\ NumInv /\ WalkInv /\ Kept /\ [Next]_vars => Kept'
<1> SUFFICES ASSUME IInv, NumInv, WalkInv, Kept, [Next]_vars PROVE Kept'
  OBVIOUS
<1> USE DEF Kept
<1>0. /\ walk = [pc |-> walk.pc, i |-> walk.i, prev |-> walk.prev, verdict |-> walk.verdict,
                 quiet |-> walk.quiet]
      /\ Len(entries) \in Nat /\ Len(entries) <= logged
  BY DEF WalkInv, NumInv, IInv, IsList
<1>q. ASSUME NEW q, walk' = [walk EXCEPT !.quiet = q] PROVE walk'.pc = walk.pc /\ walk'.i = walk.i
  BY <1>0, <1>q
<1>1. ASSUME NEW w \in Writers, LogAppend(w) PROVE Kept'
  BY <1>1, AuditAssumption DEF LogAppend
<1>2. ASSUME NEW w \in Writers, LogHash(w) PROVE Kept'
  BY <1>2 DEF LogHash
<1>3. ASSUME NEW w \in Writers, LogEvict(w) PROVE Kept'
  <2>1. walk'.pc = walk.pc /\ walk'.i = walk.i
    BY <1>3, <1>q DEF LogEvict
  <2> QED
    BY <1>3, <2>1 DEF LogEvict
<1>4. ASSUME NEW k \in 1..Len(entries), Edit(k) PROVE Kept'
  <2>1. walk'.pc = walk.pc /\ walk'.i = walk.i
    BY <1>4, <1>q DEF Edit
  <2> QED
    BY <1>4, <2>1, AuditAssumption DEF Edit
<1>5. CASE GetEntries
  BY <1>5 DEF GetEntries
<1>6. CASE VerifyStart
  BY <1>6, AuditAssumption DEF VerifyStart
<1>7. CASE VerifyStep
  <2>1. ASSUME NEW b, walk' = Verdict(b) PROVE walk'.pc = "done" /\ walk'.i = 0
    BY <1>0, <2>1 DEF Verdict
  <2>2. ASSUME NEW h, walk.i <= Len(entries), walk' = [walk EXCEPT !.i = @ + 1, !.prev = h]
        PROVE  walk'.pc = walk.pc /\ walk'.i \in 0..LogBound + 1
    BY <1>0, <2>2, AuditAssumption
  <2>3. /\ \/ \E b : walk' = Verdict(b)
           \/ walk.i <= Len(entries) /\ \E h : walk' = [walk EXCEPT !.i = @ + 1, !.prev = h]
        /\ UNCHANGED <<lock, step, logged, edits>>
    BY <1>7, Zenon DEF VerifyStep
  <2>4. walk'.pc \in {"idle", "walking", "done"} /\ walk'.i \in 0..LogBound + 1
    <3>1. CASE \E b : walk' = Verdict(b)
      BY <2>1, <3>1, AuditAssumption
    <3>2. ASSUME walk.i <= Len(entries), NEW h, walk' = [walk EXCEPT !.i = @ + 1, !.prev = h]
          PROVE  walk'.pc \in {"idle", "walking", "done"} /\ walk'.i \in 0..LogBound + 1
      BY <2>2, <3>2
    <3> QED
      BY <2>3, <3>1, <3>2
  <2> QED
    BY <2>3, <2>4
<1>8. CASE UNCHANGED vars
  BY <1>8 DEF vars
<1> QED
  BY <1>1, <1>2, <1>3, <1>4, <1>5, <1>6, <1>7, <1>8 DEF Next

\* The lock and log()'s step under it agree, the ring is over its size in log() only, and the
\* index of a walk stays within the entries ever logged, for any writers and ring size.
THEOREM LogTypeCorrect == Spec => []TypeOK
<1>1. Init => Kept
  BY AuditAssumption DEF Init, Kept, Idle
<1>2. IInv /\ Kept => TypeOK
  BY DEF IInv, IsList, Ring, Kept, TypeOK
<1> QED
  BY InitInv, NextInv, InitNum, NextNum, InitWalk, NextWalk, NextKept, <1>1, <1>2, PTL DEF Spec
=============================================================================
