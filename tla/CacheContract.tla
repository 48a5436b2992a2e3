--------------------------- MODULE CacheContract ---------------------------
(***************************************************************************)
(* What a user of a cache with a time to live may rely on: a lookup finds  *)
(* nothing, or the value set last for the key, and then no longer than the *)
(* time to live ago.  The cache may forget any key at any time.            *)
(***************************************************************************)
EXTENDS Naturals

CONSTANTS Keys, Values, None, Ttl, LastTick

VARIABLES now,
          known,    \* the value set last and the time it was set, or None
          answer    \* what the last lookup returned

cvars == <<now, known, answer>>

CInit == now = 0 /\ known = [k \in Keys |-> None] /\ answer = None

\* Keys are forgotten along with any operation.
MayForget(f) ==
  \E lost \in SUBSET Keys : known' = [k \in Keys |-> IF k \in lost THEN None ELSE f[k]]

CSet(k, v) == /\ MayForget([known EXCEPT ![k] = [value |-> v, at |-> now]])
              /\ UNCHANGED <<now, answer>>

CGet(k) == /\ \/ answer' = None
              \/ /\ known[k] # None /\ now <= known[k].at + Ttl
                 /\ answer' = known[k].value
           /\ MayForget(known) /\ UNCHANGED now

CForget == MayForget(known) /\ UNCHANGED <<now, answer>>

CTick == now' = now + 1 /\ now < LastTick /\ UNCHANGED <<known, answer>>

CNext == \/ \E k \in Keys : CGet(k) \/ \E v \in Values : CSet(k, v)
         \/ CForget \/ CTick

ContractSpec == CInit /\ [][CNext]_cvars
=============================================================================
