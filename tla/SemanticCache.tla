--------------------------- MODULE SemanticCache ---------------------------
(***************************************************************************)
(* One of the two stores of src/src/cache/semantic_cache.py (routing and   *)
(* outputs run the same code, with a different time to live): an           *)
(* OrderedDict kept in order of use, entries with an expiry time, a        *)
(* capacity.  Every operation runs under the lock.                         *)
(***************************************************************************)
EXTENDS Naturals, SequencesExt

CONSTANTS CacheKeys, Values, None,
          Ttl,        \* the store's time to live
          Capacity,   \* _capacity
          LastTick    \* where the model stops the clock

ASSUME CacheAssumption ==
  /\ Ttl \in Nat /\ Capacity \in Nat \ {0} /\ LastTick \in Nat
  /\ None \notin [value : Values, at : 0..LastTick]

VARIABLES now,      \* time.monotonic()
          store,    \* the OrderedDict, least recently used first
          found,    \* what the last lookup returned
          used      \* history: every key set or hit since a flush, in that order, with
                    \* the time until which its value is live

cacheVars == <<now, store, found, used>>

Entry == [key : CacheKeys, value : Values, expires_at : Ttl..LastTick + Ttl]

\* Sequences of records with a key, no two with the same one.
Has(s, k) == \E i \in 1..Len(s) : s[i].key = k
Place(s, k) == CHOOSE i \in 1..Len(s) : s[i].key = k
Without(s, k) == IF Has(s, k) THEN RemoveAt(s, Place(s, k)) ELSE s

Holds(k) == Has(store, k)
EntryOf(k) == store[Place(store, k)]

CacheInit == now = 0 /\ store = <<>> /\ found = None /\ used = <<>>

Newest(k, until) == Append(Without(used, k), [key |-> k, until |-> until])

-----------------------------------------------------------------------------
ExpiredNever(e) == FALSE   \* mutant: the expiry is not looked at

Expired(e) == now > e.expires_at

Miss(k) ==
  /\ ~Holds(k)
  /\ found' = None
  /\ UNCHANGED <<now, store, used>>

\* An expired entry is deleted by the lookup that meets it.
Expire(k) ==
  /\ Holds(k) /\ Expired(EntryOf(k))
  /\ store' = Without(store, k)
  /\ found' = None
  /\ UNCHANGED <<now, used>>

HitKeepsPlace(k) ==   \* mutant: move_to_end is forgotten on a hit
  /\ Holds(k) /\ ~Expired(EntryOf(k))
  /\ found' = EntryOf(k).value
  /\ used' = Newest(k, EntryOf(k).expires_at)
  /\ UNCHANGED <<now, store>>

Hit(k) ==
  /\ Holds(k) /\ ~Expired(EntryOf(k))
  /\ found' = EntryOf(k).value
  /\ store' = Append(Without(store, k), EntryOf(k))
  /\ used' = Newest(k, EntryOf(k).expires_at)
  /\ UNCHANGED now

Get(k) == Miss(k) \/ Expire(k) \/ Hit(k)

\* popitem(last=False) until the store fits.
Trimmed(s) == IF Len(s) > Capacity THEN SubSeq(s, Len(s) - Capacity + 1, Len(s)) ELSE s

Set(k, v) ==
  /\ store' = Trimmed(Append(Without(store, k), [key |-> k, value |-> v, expires_at |-> now + Ttl]))
  /\ used' = Newest(k, now + Ttl)
  /\ UNCHANGED <<now, found>>

Invalidate == store' = <<>> /\ used' = <<>> /\ UNCHANGED <<now, found>>

CacheTick == now < LastTick /\ now' = now + 1 /\ UNCHANGED <<store, found, used>>

CacheNext == \/ \E k \in CacheKeys : Get(k) \/ \E v \in Values : Set(k, v)
        \/ Invalidate \/ CacheTick

CacheSpec == CacheInit /\ [][CacheNext]_cacheVars

-----------------------------------------------------------------------------
(* Properties *)

\* The store is a dict within its capacity: no key twice.
CacheTypeOK ==
  /\ now \in 0..LastTick /\ found \in Values \cup {None}
  /\ \A i \in 1..Len(store) : store[i] \in Entry
  /\ Len(store) <= Capacity
  /\ \A i, j \in 1..Len(store) : store[i].key = store[j].key => i = j

\* Eviction never takes a key that is among the Capacity keys used last: a live entry
\* that recently used is still found, expired entries in the store notwithstanding.
RecentlyUsedStay ==
  \A i \in 1..Len(used) :
    Len(used) - i < Capacity /\ now <= used[i].until => Holds(used[i].key)

\* The store, seen as what it knows of each key, implements a cache that answers with
\* the last value set, not longer than its time to live, or with nothing.
Contract == INSTANCE CacheContract WITH
  Keys <- CacheKeys, answer <- found,
  known <- [k \in CacheKeys |->
              IF Holds(k) THEN [value |-> EntryOf(k).value, at |-> EntryOf(k).expires_at - Ttl]
                          ELSE None]

ImplementsCache == Contract!ContractSpec
=============================================================================
