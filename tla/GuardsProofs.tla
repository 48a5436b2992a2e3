---------------------------- MODULE GuardsProofs ----------------------------
(***************************************************************************)
(* The guards for any callers, names and objects, any threads, sessions    *)
(* and intents and any thresholds.                                         *)
(*                                                                         *)
(* The table of breakers: who holds a breaker fetched since the last reset *)
(* of its name holds the one in the table, everybody else one that has     *)
(* left the table for good, because an object is installed once and for    *)
(* one name.                                                               *)
(*                                                                         *)
(* The intent history, for threads that run requests of any sessions at    *)
(* once. A session can come to have several deques; as far back as its     *)
(* last appends all went to one of them, they are the end of what that one *)
(* holds.                                                                  *)
(***************************************************************************)
EXTENDS Guards, FiniteSetTheorems, SequenceTheorems, TLAPS

-----------------------------------------------------------------------------
(* The table of breakers *)

\* An object is in the table under one name at most, and under a name that was ever reset.
Table ==
  /\ DOMAIN breakers = Names /\ Made \subseteq Objects
  /\ resets \in [Names -> Nat]
  /\ pc \in [Callers -> {"idle", "fetched", "calling"}] /\ DOMAIN holds = Callers
  /\ \A n \in Names :
       /\ breakers[n] \in Made \cup {NoObject}
       /\ resets[n] > 0 => breakers[n] # NoObject
       /\ \A m \in Names : breakers[m] = breakers[n] /\ breakers[n] # NoObject => m = n

\* A caller holds its name's breaker if and only if there was no reset since, and never
\* that of another name.
Holders ==
  \A c \in Callers : Busy(c) =>
    /\ holds[c].name \in Names /\ holds[c].object \in Made /\ holds[c].since \in Nat
    /\ holds[c].since <= resets[holds[c].name]
    /\ holds[c].object = breakers[holds[c].name] <=> holds[c].since = resets[holds[c].name]
    /\ \A n \in Names : n # holds[c].name => breakers[n] # holds[c].object

RegistryInv == Table /\ Holders /\ OneBreakerPerName

\* The invariant, with the names it is read by below.
LEMMA HolderReads ==
  ASSUME RegistryInv, NEW c \in Callers, Busy(c)
  PROVE  /\ holds[c].name \in Names /\ holds[c].object \in Made
         /\ holds[c].object \in Objects /\ holds[c].object # NoObject
BY RegistryAssumption DEF RegistryInv, Table, Holders

\* A step that leaves the table alone keeps the invariant if it lets go of breakers only.
LEMMA LettingGoKeeps ==
  ASSUME RegistryInv, UNCHANGED <<breakers, resets>>,
         DOMAIN stats' = DOMAIN stats,
         pc' \in [Callers -> {"idle", "fetched", "calling"}], DOMAIN holds' = Callers,
         \A c \in Callers : pc'[c] # "idle" => pc[c] # "idle" /\ holds'[c] = holds[c]
  PROVE  RegistryInv'
<1>1. Made' = Made
  BY DEF Made
<1>2. Table'
  BY <1>1 DEF RegistryInv, Table
<1>3. Holders'
  BY <1>1 DEF RegistryInv, Holders, Busy
<1>4. OneBreakerPerName'
  BY DEF RegistryInv, OneBreakerPerName, Busy
<1> QED
  BY <1>2, <1>3, <1>4 DEF RegistryInv

\* A new object goes into the table under one name.
LEMMA InstallFacts ==
  ASSUME RegistryInv, NEW n \in Names, NEW o \in Objects, Install(n, o)
  PROVE  /\ o \notin Made /\ Made' = Made \cup {o} /\ Made' \subseteq Objects /\ o # NoObject
         /\ DOMAIN breakers' = Names
         /\ \A m \in Names : breakers'[m] = IF m = n THEN o ELSE breakers[m]
BY RegistryAssumption DEF RegistryInv, Table, Install, Made

\* A caller that fetches the breaker in the table shares it with whom it should.
LEMMA FetchKeeps ==
  ASSUME RegistryInv, NEW c \in Callers, NEW n \in Names, pc[c] = "idle",
         breakers[n] # NoObject, HoldsNow(c, n, breakers[n]), UNCHANGED <<breakers, stats, resets>>,
         pc' = [pc EXCEPT ![c] = "fetched"]
  PROVE  RegistryInv'
<1> DEFINE h == [name |-> n, object |-> breakers[n], since |-> resets[n]]
<1>1. Made' = Made
  BY DEF Made
<1>2. Table' /\ pc'[c] = "fetched" /\ \A d \in Callers : d # c => pc'[d] = pc[d]
  BY <1>1 DEF RegistryInv, Table, HoldsNow
<1>3. holds'[c] = h /\ \A d \in Callers : d # c => holds'[d] = holds[d]
  BY DEF RegistryInv, Table, HoldsNow
<1>4. h.name = n /\ h.object = breakers[n] /\ h.since = resets[n]
  OBVIOUS
<1> HIDE DEF h
<1>5. breakers[n] \in Made /\ resets[n] \in Nat
  BY DEF RegistryInv, Table
<1>6. \A m \in Names : m # n => breakers[m] # breakers[n]
  BY DEF RegistryInv, Table
<1>7. Holders'
  <2> SUFFICES ASSUME NEW d \in Callers, Busy(d)'
               PROVE  /\ holds'[d].name \in Names /\ holds'[d].object \in Made
                      /\ holds'[d].since \in Nat
                      /\ holds'[d].since <= resets[holds'[d].name]
                      /\ holds'[d].object = breakers[holds'[d].name]
                           <=> holds'[d].since = resets[holds'[d].name]
                      /\ \A m \in Names : m # holds'[d].name => breakers[m] # holds'[d].object
    BY <1>1 DEF Holders
  <2>1. CASE d = c
    BY <2>1, <1>3, <1>4, <1>5, <1>6
  <2>2. CASE d # c
    BY <2>2, <1>2, <1>3 DEF RegistryInv, Holders, Busy
  <2> QED
    BY <2>1, <2>2
<1>8. \A d \in Callers : d # c /\ Busy(d) =>
        (holds[d].object = breakers[n] <=> holds[d].name = n /\ holds[d].since = resets[n])
  BY DEF RegistryInv, Holders
<1>9. OneBreakerPerName'
  <2> SUFFICES ASSUME NEW d \in Callers, NEW e \in Callers, Busy(d)', Busy(e)'
               PROVE  holds'[d].object = holds'[e].object
                        <=> holds'[d].name = holds'[e].name /\ holds'[d].since = holds'[e].since
    BY DEF OneBreakerPerName
  <2>1. CASE d # c /\ e # c
    BY <2>1, <1>2, <1>3 DEF RegistryInv, OneBreakerPerName, Busy
  <2>2. CASE d = c /\ e = c
    BY <2>2
  <2>3. CASE d = c /\ e # c
    BY <2>3, <1>2, <1>3, <1>4, <1>8 DEF Busy
  <2>4. CASE d # c /\ e = c
    BY <2>4, <1>2, <1>3, <1>4, <1>8 DEF Busy
  <2> QED
    BY <2>1, <2>2, <2>3, <2>4
<1> QED
  BY <1>2, <1>7, <1>9 DEF RegistryInv

\* A caller that makes the breaker of a name shares it with nobody yet.
LEMMA MakeKeeps ==
  ASSUME RegistryInv, NEW c \in Callers, NEW n \in Names, pc[c] = "idle",
         breakers[n] = NoObject, NEW o \in Objects, Install(n, o), HoldsNow(c, n, o),
         UNCHANGED resets, pc' = [pc EXCEPT ![c] = "fetched"]
  PROVE  RegistryInv'
<1> DEFINE h == [name |-> n, object |-> o, since |-> resets[n]]
<1>1. /\ o \notin Made /\ Made' = Made \cup {o} /\ Made' \subseteq Objects /\ o # NoObject
      /\ DOMAIN breakers' = Names
      /\ \A m \in Names : breakers'[m] = IF m = n THEN o ELSE breakers[m]
  BY InstallFacts
<1>2. pc'[c] = "fetched" /\ \A d \in Callers : d # c => pc'[d] = pc[d]
  BY DEF RegistryInv, Table
<1>3. holds'[c] = h /\ \A d \in Callers : d # c => holds'[d] = holds[d]
  BY DEF RegistryInv, Table, HoldsNow
<1>4. h.name = n /\ h.object = o /\ h.since = resets[n]
  OBVIOUS
<1> HIDE DEF h
<1>5. pc' \in [Callers -> {"idle", "fetched", "calling"}] /\ DOMAIN holds' = Callers
  BY DEF RegistryInv, Table, HoldsNow
<1>6. Table'
  BY <1>1, <1>5 DEF RegistryInv, Table
<1>7. \A d \in Callers : d # c /\ Busy(d) => /\ holds[d].object \in Made /\ holds[d].object # o
                                            /\ holds[d].name # n
  BY <1>1, HolderReads DEF RegistryInv, Holders, Table
<1>8. Holders'
  <2> SUFFICES ASSUME NEW d \in Callers, Busy(d)'
               PROVE  /\ holds'[d].name \in Names /\ holds'[d].object \in Made'
                      /\ holds'[d].since \in Nat
                      /\ holds'[d].since <= resets[holds'[d].name]
                      /\ holds'[d].object = breakers'[holds'[d].name]
                           <=> holds'[d].since = resets[holds'[d].name]
                      /\ \A m \in Names : m # holds'[d].name => breakers'[m] # holds'[d].object
    BY DEF Holders
  <2>1. CASE d = c
    BY <2>1, <1>1, <1>3, <1>4 DEF RegistryInv, Table
  <2>2. CASE d # c
    BY <2>2, <1>1, <1>2, <1>3, <1>7 DEF RegistryInv, Holders, Busy
  <2> QED
    BY <2>1, <2>2
<1>9. OneBreakerPerName'
  <2> SUFFICES ASSUME NEW d \in Callers, NEW e \in Callers, Busy(d)', Busy(e)'
               PROVE  holds'[d].object = holds'[e].object
                        <=> holds'[d].name = holds'[e].name /\ holds'[d].since = holds'[e].since
    BY DEF OneBreakerPerName
  <2>1. CASE d # c /\ e # c
    BY <2>1, <1>2, <1>3 DEF RegistryInv, OneBreakerPerName, Busy
  <2>2. CASE d = c /\ e = c
    BY <2>2
  <2>3. CASE d = c /\ e # c
    BY <2>3, <1>2, <1>3, <1>4, <1>7 DEF Busy
  <2>4. CASE d # c /\ e = c
    BY <2>4, <1>2, <1>3, <1>4, <1>7 DEF Busy
  <2> QED
    BY <2>1, <2>2, <2>3, <2>4
<1> QED
  BY <1>6, <1>8, <1>9 DEF RegistryInv

\* A reset leaves the callers with the object that it takes out of the table.
LEMMA ResetKeeps ==
  ASSUME RegistryInv, NEW n \in Names, Reset(n)
  PROVE  RegistryInv'
<1>0. PICK o \in Objects : Install(n, o)
  BY Zenon DEF Reset
<1>1. /\ o \notin Made /\ Made' = Made \cup {o} /\ Made' \subseteq Objects /\ o # NoObject
      /\ DOMAIN breakers' = Names
      /\ \A m \in Names : breakers'[m] = IF m = n THEN o ELSE breakers[m]
  BY <1>0, InstallFacts
<1>2. pc' = pc /\ holds' = holds /\ resets' = [resets EXCEPT ![n] = @ + 1]
  BY DEF Reset
<1>3. /\ resets' \in [Names -> Nat]
      /\ \A m \in Names : resets'[m] = IF m = n THEN resets[m] + 1 ELSE resets[m]
  BY <1>2 DEF RegistryInv, Table
<1>4. Table'
  BY <1>1, <1>2, <1>3 DEF RegistryInv, Table
<1>5. Holders'
  <2> SUFFICES ASSUME NEW d \in Callers, Busy(d)
               PROVE  /\ holds[d].name \in Names /\ holds[d].object \in Made'
                      /\ holds[d].since \in Nat
                      /\ holds[d].since <= resets'[holds[d].name]
                      /\ holds[d].object = breakers'[holds[d].name]
                           <=> holds[d].since = resets'[holds[d].name]
                      /\ \A m \in Names : m # holds[d].name => breakers'[m] # holds[d].object
    BY <1>2 DEF Holders, Busy
  <2> DEFINE m == holds[d].name
  <2>1. /\ m \in Names /\ holds[d].object \in Made /\ holds[d].object # o
        /\ holds[d].since \in Nat /\ holds[d].since <= resets[m] /\ resets[m] \in Nat
        /\ holds[d].object = breakers[m] <=> holds[d].since = resets[m]
        /\ \A x \in Names : x # m => breakers[x] # holds[d].object
    BY <1>1 DEF RegistryInv, Holders, Table
  <2> HIDE DEF m
  <2>2. CASE m = n
    BY <2>1, <2>2, <1>1, <1>3 DEF m
  <2>3. CASE m # n
    BY <2>1, <2>3, <1>1, <1>3 DEF m
  <2> QED
    BY <2>2, <2>3
<1>6. OneBreakerPerName'
  BY <1>2 DEF RegistryInv, OneBreakerPerName, Busy
<1> QED
  BY <1>4, <1>5, <1>6 DEF RegistryInv

\* Every step of the registry keeps the invariant.
LEMMA RegistryNext == RegistryInv /\ [Next]_vars => RegistryInv'
<1> SUFFICES ASSUME RegistryInv, [Next]_vars PROVE RegistryInv'
  OBVIOUS
<1>0. /\ pc \in [Callers -> {"idle", "fetched", "calling"}]
      /\ DOMAIN holds = Callers
  BY DEF RegistryInv, Table
<1>1. ASSUME NEW c \in Callers, NEW n \in Names, GetOrCreate(c, n) PROVE RegistryInv'
  <2>1. pc[c] = "idle" /\ pc' = [pc EXCEPT ![c] = "fetched"] /\ UNCHANGED resets
    BY <1>1 DEF GetOrCreate
  <2>2. \/ breakers[n] # NoObject /\ HoldsNow(c, n, breakers[n]) /\ UNCHANGED <<breakers, stats>>
        \/ breakers[n] = NoObject /\ \E o \in Objects : Install(n, o) /\ HoldsNow(c, n, o)
    BY <1>1, Zenon DEF GetOrCreate
  <2> QED
    BY <2>1, <2>2, FetchKeeps, MakeKeeps
<1>2. ASSUME NEW c \in Callers, AssertClosed(c) PROVE RegistryInv'
  <2>1. UNCHANGED <<breakers, resets>> /\ DOMAIN stats' = DOMAIN stats /\ pc[c] = "fetched"
    BY <1>2 DEF AssertClosed
  <2>2. \/ pc' = [pc EXCEPT ![c] = "calling"] /\ UNCHANGED holds
        \/ Done(c)
    BY <1>2, Zenon DEF AssertClosed
  <2> QED
    BY <1>0, <2>1, <2>2, LettingGoKeeps DEF Done
<1>3. ASSUME NEW c \in Callers, NEW b, Record(c, b) PROVE RegistryInv'
  <2>1. UNCHANGED <<breakers, resets>> /\ DOMAIN stats' = DOMAIN stats /\ Done(c)
    BY <1>3 DEF Record
  <2> QED
    BY <1>0, <2>1, LettingGoKeeps DEF Done
<1>4. ASSUME NEW n \in Names, Reset(n) PROVE RegistryInv'
  BY <1>4, ResetKeeps
<1>5. CASE Tick
  <2>1. UNCHANGED <<breakers, pc, holds, resets>> /\ DOMAIN stats' = DOMAIN stats
    BY <1>5 DEF Tick, Made
  <2> QED
    BY <1>0, <2>1, LettingGoKeeps
<1>6. CASE UNCHANGED vars
  BY <1>0, <1>6, LettingGoKeeps DEF vars
<1> QED
  BY <1>1, <1>2, <1>3, <1>4, <1>5, <1>6, Zenon DEF Next, Succeed, Fail

\* The initial state satisfies it.
LEMMA RegistryInit == Init => RegistryInv
<1> SUFFICES ASSUME Init PROVE RegistryInv
  OBVIOUS
<1>1. Made = {}
  BY DEF Init, Made
<1>2. Table
  BY <1>1 DEF Init, Table
<1>3. \A c \in Callers : ~Busy(c)
  BY DEF Init, Busy
<1> QED
  BY <1>2, <1>3 DEF RegistryInv, Holders, OneBreakerPerName

\* A call that reports to a breaker fetched before a reset reports to another one than the
\* one in the table, of which there is one.
LEMMA LateReports ==
  RegistryInv /\ [Next]_vars =>
    [\A c \in Callers, n \in Names :
       (/\ pc[c] = "calling" /\ pc'[c] = "idle"
        /\ holds[c].name = n /\ holds[c].since < resets[n])
         => stats'[breakers[n]] = stats[breakers[n]]]_vars
<1> SUFFICES ASSUME RegistryInv, Next, NEW c \in Callers, NEW n \in Names,
                    pc[c] = "calling", pc'[c] = "idle",
                    holds[c].name = n, holds[c].since < resets[n]
             PROVE  stats'[breakers[n]] = stats[breakers[n]]
  BY DEF vars
<1>0. /\ pc \in [Callers -> {"idle", "fetched", "calling"}]
      /\ resets[n] \in Nat /\ breakers[n] \in Made \cup {NoObject}
      /\ resets[n] > 0 => breakers[n] # NoObject
  BY DEF RegistryInv, Table
<1>1. holds[c].since \in Nat /\ (holds[c].object = breakers[n] <=> holds[c].since = resets[n])
  BY DEF RegistryInv, Holders, Busy
<1>2. breakers[n] \in Made /\ breakers[n] # holds[c].object
  BY <1>0, <1>1
<1>3. ASSUME NEW d \in Callers, pc' = [pc EXCEPT ![d] = "fetched"] PROVE FALSE
  BY <1>0, <1>3
<1>4. ASSUME NEW d \in Callers, NEW m \in Names, GetOrCreate(d, m) PROVE FALSE
  BY <1>3, <1>4, Zenon DEF GetOrCreate
<1>5. ASSUME NEW d \in Callers, AssertClosed(d) PROVE FALSE
  <2>1. pc[d] = "fetched" /\ (pc' = [pc EXCEPT ![d] = "calling"] \/ pc' = [pc EXCEPT ![d] = "idle"])
    BY <1>5, Zenon DEF AssertClosed, Done
  <2> QED
    BY <1>0, <2>1
<1>6. ASSUME NEW d \in Callers, NEW b, Record(d, b)
      PROVE  stats'[breakers[n]] = stats[breakers[n]]
  <2>1. d = c
    BY <1>0, <1>6 DEF Record, Done
  <2>2. stats' = [stats EXCEPT ![holds[c].object] = b]
    BY <1>6, <2>1 DEF Record
  <2> QED
    BY <1>2, <2>2 DEF Made
<1>7. ASSUME UNCHANGED pc PROVE FALSE
  BY <1>7
<1>8. ASSUME NEW m \in Names, Reset(m) PROVE FALSE
  BY <1>7, <1>8, Zenon DEF Reset
<1>9. ~Tick
  BY <1>7, Zenon DEF Tick
<1> QED
  BY <1>4, <1>5, <1>6, <1>8, <1>9, Zenon DEF Next, Succeed, Fail

-----------------------------------------------------------------------------
(* The intent history *)

\* The n-th element of a sequence from its end.
FromEnd(q, j) == q[Len(q) - j]

\* What an append of x leaves of a deque q.
LEMMA PushFacts ==
  ASSUME NEW S, NEW q \in Seq(S), Len(q) <= MaxLen, NEW x \in S
  PROVE  LET p == Pushed(q, x)
         IN  /\ p \in Seq(S) /\ Len(p) <= MaxLen /\ Len(p) <= Len(q) + 1 /\ Len(p) >= 1
             /\ Len(p) >= Len(q) /\ (Len(q) < MaxLen => Len(p) = Len(q) + 1)
             /\ FromEnd(p, 0) = x
             /\ \A j \in 0..Len(p) - 2 : j < Len(q) /\ FromEnd(p, j + 1) = FromEnd(q, j)
<1>0. MaxLen \in Nat /\ MaxLen >= 2 /\ Len(q) \in Nat
  BY IntentAssumption, LenProperties DEF MaxLen
<1>1. CASE Len(q) = MaxLen
  <2> DEFINE u == Tail(q)
             p == Append(u, x)
  <2>1. /\ u \in Seq(S) /\ Len(u) = Len(q) - 1
        /\ \A k \in 1..Len(u) : u[k] = q[k + 1]
    BY <1>0, <1>1
  <2> HIDE DEF u
  <2>2. /\ p \in Seq(S) /\ Len(p) = Len(u) + 1 /\ p[Len(u) + 1] = x
        /\ \A k \in 1..Len(u) : p[k] = u[k]
    BY <2>1
  <2>3. Pushed(q, x) = p
    BY <1>1 DEF Pushed, u
  <2> HIDE DEF p
  <2>4. \A j \in 0..Len(p) - 2 : j < Len(q) /\ p[Len(p) - (j + 1)] = q[Len(q) - j]
    <3> TAKE j \in 0..Len(p) - 2
    <3> DEFINE k == Len(p) - (j + 1)
    <3>1. k \in 1..Len(u) /\ k + 1 = Len(q) - j /\ j < Len(q)
      BY <1>0, <2>1, <2>2
    <3> HIDE DEF k
    <3>2. p[k] = q[k + 1]
      BY <2>1, <2>2, <3>1
    <3> QED
      BY <3>1, <3>2 DEF k
  <2>5. /\ p \in Seq(S) /\ Len(p) <= MaxLen /\ Len(p) <= Len(q) + 1 /\ Len(p) >= 1
        /\ Len(p) >= Len(q) /\ (Len(q) < MaxLen => Len(p) = Len(q) + 1)
    BY <1>0, <1>1, <2>1, <2>2
  <2>6. /\ FromEnd(p, 0) = x
        /\ \A j \in 0..Len(p) - 2 : j < Len(q) /\ FromEnd(p, j + 1) = FromEnd(q, j)
    BY <1>0, <2>1, <2>2, <2>4 DEF FromEnd
  <2> QED
    BY <2>3, <2>5, <2>6, Zenon
<1>2. CASE Len(q) # MaxLen
  <2> DEFINE p == Append(q, x)
  <2>1. /\ p \in Seq(S) /\ Len(p) = Len(q) + 1 /\ p[Len(q) + 1] = x
        /\ \A k \in 1..Len(q) : p[k] = q[k]
    OBVIOUS
  <2>2. Pushed(q, x) = p
    BY <1>2 DEF Pushed
  <2> HIDE DEF p
  <2>3. \A j \in 0..Len(p) - 2 : j < Len(q) /\ p[Len(p) - (j + 1)] = q[Len(q) - j]
    <3> TAKE j \in 0..Len(p) - 2
    <3>1. Len(p) - (j + 1) = Len(q) - j /\ Len(q) - j \in 1..Len(q) /\ j < Len(q)
      BY <1>0, <2>1
    <3> QED
      BY <2>1, <3>1
  <2>4. /\ p \in Seq(S) /\ Len(p) <= MaxLen /\ Len(p) <= Len(q) + 1 /\ Len(p) >= 1
        /\ Len(p) >= Len(q) /\ (Len(q) < MaxLen => Len(p) = Len(q) + 1)
    BY <1>0, <1>2, <2>1
  <2>5. /\ FromEnd(p, 0) = x
        /\ \A j \in 0..Len(p) - 2 : j < Len(q) /\ FromEnd(p, j + 1) = FromEnd(q, j)
    BY <1>0, <2>1, <2>3 DEF FromEnd
  <2> QED
    BY <2>2, <2>4, <2>5, Zenon
<1> QED
  BY <1>1, <1>2

\* What the properties keep of the appends they keep as a deque would.
LEMMA RecentIsPushed ==
  ASSUME NEW S, NEW q \in Seq(S), Len(q) <= MaxLen, NEW x \in S
  PROVE  Recent(Append(q, x)) = Pushed(q, x)
<1>0. LoopThreshold \in Nat \ {0} /\ MaxLen = LoopThreshold + 1 /\ Len(q) \in Nat
      /\ Len(Append(q, x)) = Len(q) + 1
  BY IntentAssumption DEF MaxLen
<1>1. CASE Len(q) = MaxLen
  <2>1. q # <<>>
    BY <1>0, <1>1
  <2>2. Tail(Append(q, x)) = Append(Tail(q), x)
    BY <2>1, HeadTailAppend
  <2> QED
    BY <1>0, <1>1, <2>2 DEF Recent, Pushed
<1>2. CASE Len(q) # MaxLen
  BY <1>0, <1>2 DEF Recent, Pushed
<1> QED
  BY <1>1, <1>2

\* A deque that holds an intent holds one kind of intent if and only if all are its last.
LEMMA AlikeAsTheLast ==
  ASSUME NEW s \in Seq(Intents), s # <<>>
  PROVE  AllAlike(s) <=> Range(s) = {s[Len(s)]}
<1>1. Len(s) \in Nat \ {0} /\ s \in [1..Len(s) -> Intents] /\ DOMAIN s = 1..Len(s)
  BY EmptySeq, LenProperties
<1>2. s \in Surjection(1..Len(s), Range(s))
  BY <1>1 DEF Surjection, Range
<1>3. IsFiniteSet(Range(s))
  BY <1>1, <1>2, FS_Interval, FS_Surjection
<1>4. s[Len(s)] \in Range(s)
  BY <1>1 DEF Range
<1>5. Cardinality(Range(s)) = 1 <=> \E x : Range(s) = {x}
  BY <1>3, FS_Singleton
<1> QED
  BY <1>4, <1>5 DEF AllAlike

Entries == [intent : Intents, to : Deques]

\* As far back as the last appends of a session all went to one deque, they are what is in
\* it; and no deque has more than was appended in its session.
Agrees(d, s) ==
  /\ Len(deque[d]) <= Len(said[s])
  /\ \A j \in 0..Len(said[s]) - 1 : InOne(s, j + 1, d) =>
       j < Len(deque[d]) /\ FromEnd(deque[d], j) = Ago(s, j).intent

\* A session's deque is one that was made for it, and so is the one a thread holds.
Memory ==
  /\ DOMAIN history = Sessions /\ DOMAIN deque = Deques /\ DOMAIN said = Sessions
  /\ \A s \in Sessions : /\ said[s] \in Seq(Entries) /\ Len(said[s]) <= MaxLen
                         /\ history[s] \in (Threads \X {s}) \cup {NoDeque}
  /\ \A t \in Threads, s \in Sessions :
       /\ deque[<<t, s>>] \in Seq(Intents) /\ Len(deque[<<t, s>>]) <= MaxLen
       /\ Agrees(<<t, s>>, s)

\* A thread that looks at its deque has appended to it.
Recorders ==
  /\ at \in [Threads -> {"idle", "missed", "append", "check"}] /\ DOMAIN call = Threads
  /\ \A t \in Threads : at[t] # "idle" =>
       LET c == call[t]
       IN  /\ c \in Calls
           /\ at[t] # "missed" => c.holds \in Threads \X {c.session}
           /\ at[t] = "check" => deque[c.holds] # <<>>

HistoryInv == Memory /\ Recorders

\* The first steps: a lookup and, after a miss, the store.
LEMMA FetchingKeepsHistory ==
  ASSUME HistoryInv, NEW t \in Threads,
         \/ \E s \in Sessions, i \in Intents : Lookup(t, s, i)
         \/ StoreNew(t)
  PROVE  HistoryInv'
<1>0. /\ at \in [Threads -> {"idle", "missed", "append", "check"}]
      /\ DOMAIN call = Threads /\ DOMAIN history = Sessions
  BY DEF HistoryInv, Memory, Recorders
<1>1. ASSUME NEW s \in Sessions, NEW i \in Intents, Lookup(t, s, i) PROVE HistoryInv'
  <2> DEFINE c == [session |-> s, intent |-> i, holds |-> history[s]]
             a == IF history[s] = NoDeque THEN "missed" ELSE "append"
  <2>1. UNCHANGED <<history, deque, said>>
    BY <1>1 DEF Lookup
  <2>2. Memory'
    BY <2>1 DEF HistoryInv, Memory, Agrees, InOne, Ago
  <2>3. call' = [call EXCEPT ![t] = c] /\ at' = [at EXCEPT ![t] = a]
    BY <1>1 DEF Lookup
  <2>4. a = "missed" <=> history[s] = NoDeque
    OBVIOUS
  <2>5. a \in {"missed", "append"}
    OBVIOUS
  <2>6. history[s] \in (Threads \X {s}) \cup {NoDeque}
    BY DEF HistoryInv, Memory
  <2>7. c \in Calls /\ c.session = s /\ c.holds = history[s]
    BY <2>6 DEF Calls, Deques
  <2> HIDE DEF a, c
  <2>8. /\ at' \in [Threads -> {"idle", "missed", "append", "check"}] /\ DOMAIN call' = Threads
        /\ call'[t] = c /\ at'[t] = a
        /\ \A u \in Threads : u # t => call'[u] = call[u] /\ at'[u] = at[u]
    BY <1>0, <2>3, <2>5
  <2>9. Recorders'
    BY <2>1, <2>4, <2>5, <2>6, <2>7, <2>8 DEF HistoryInv, Recorders
  <2> QED
    BY <2>2, <2>9 DEF HistoryInv
<1>2. CASE StoreNew(t)
  <2> DEFINE s == call[t].session
             d == <<t, s>>
             c == [call[t] EXCEPT !.holds = d]
  <2>1. /\ at[t] = "missed" /\ history' = [history EXCEPT ![s] = d]
        /\ call' = [call EXCEPT ![t] = c] /\ at' = [at EXCEPT ![t] = "append"]
        /\ UNCHANGED <<deque, said>>
    BY <1>2, Zenon DEF StoreNew
  <2>2. call[t] \in Calls
    BY <2>1 DEF HistoryInv, Recorders
  <2>3. s \in Sessions /\ d \in Deques /\ d \in Threads \X {s}
    BY <2>2 DEF Calls, Deques
  <2>4. c \in Calls /\ c.session = s /\ c.holds = d
    BY <2>2, <2>3 DEF Calls
  <2> HIDE DEF d, c
  <2>6. /\ DOMAIN history' = Sessions
        /\ \A x \in Sessions : history'[x] = IF x = s THEN d ELSE history[x]
    BY <1>0, <2>1, <2>3
  <2>7. Memory'
    <3>1. \A x \in Sessions : history'[x] \in (Threads \X {x}) \cup {NoDeque}
      BY <2>3, <2>6 DEF HistoryInv, Memory
    <3>2. ASSUME NEW u \in Threads, NEW x \in Sessions PROVE Agrees(<<u, x>>, x)'
      BY <2>1 DEF HistoryInv, Memory, Agrees, InOne, Ago
    <3> QED
      BY <2>1, <2>6, <3>1, <3>2 DEF HistoryInv, Memory
  <2>8. /\ at' \in [Threads -> {"idle", "missed", "append", "check"}] /\ DOMAIN call' = Threads
        /\ call'[t] = c /\ at'[t] = "append"
        /\ \A u \in Threads : u # t => call'[u] = call[u] /\ at'[u] = at[u]
    BY <1>0, <2>1
  <2>9. Recorders'
    BY <2>1, <2>3, <2>4, <2>8 DEF HistoryInv, Recorders
  <2> QED
    BY <2>7, <2>9 DEF HistoryInv
<1> QED
  BY <1>1, <1>2

\* An append goes to one deque and to the session's record; for every other deque of the
\* session the record now begins with an append to another one.
LEMMA AppendKeepsHistory ==
  ASSUME HistoryInv, NEW t \in Threads, AppendIntent(t)
  PROVE  HistoryInv'
<1> DEFINE s == call[t].session
           i == call[t].intent
           h == call[t].holds
           e == [intent |-> i, to |-> h]
           p == Pushed(deque[h], i)
           q == Pushed(said[s], e)
<1>1. at[t] = "append" /\ UNCHANGED <<history, call>> /\ at' = [at EXCEPT ![t] = "check"]
  BY DEF AppendIntent
<1>2. /\ call[t] \in Calls /\ h \in Threads \X {s}
      /\ at \in [Threads -> {"idle", "missed", "append", "check"}] /\ DOMAIN call = Threads
  BY <1>1 DEF HistoryInv, Recorders
<1>3. s \in Sessions /\ i \in Intents /\ h \in Deques /\ e \in Entries
      /\ e.intent = i /\ e.to = h
  BY <1>2 DEF Calls, Entries, Deques
<1>4. /\ said[s] \in Seq(Entries) /\ Len(said[s]) <= MaxLen
      /\ deque[h] \in Seq(Intents) /\ Len(deque[h]) <= MaxLen /\ Agrees(h, s)
      /\ DOMAIN said = Sessions /\ DOMAIN deque = Deques
  BY <1>2, <1>3 DEF HistoryInv, Memory
<1>5. Recent(Append(said[s], e)) = q
  BY <1>3, <1>4, RecentIsPushed
<1>6. deque' = [deque EXCEPT ![h] = p] /\ said' = [said EXCEPT ![s] = q]
  BY <1>5 DEF AppendIntent
<1>7. /\ p \in Seq(Intents) /\ Len(p) <= MaxLen /\ Len(p) <= Len(deque[h]) + 1 /\ Len(p) >= 1
      /\ Len(p) >= Len(deque[h])
      /\ Len(deque[h]) < MaxLen => Len(p) = Len(deque[h]) + 1
      /\ FromEnd(p, 0) = i
      /\ \A j \in 0..Len(p) - 2 : j < Len(deque[h]) /\ FromEnd(p, j + 1) = FromEnd(deque[h], j)
  <2>1. ASSUME NEW w \in Seq(Intents), Len(w) <= MaxLen
        PROVE  LET v == Pushed(w, i)
               IN  /\ v \in Seq(Intents) /\ Len(v) <= MaxLen /\ Len(v) <= Len(w) + 1
                   /\ Len(v) >= 1 /\ Len(v) >= Len(w)
                   /\ Len(w) < MaxLen => Len(v) = Len(w) + 1
                   /\ FromEnd(v, 0) = i
                   /\ \A j \in 0..Len(v) - 2 : j < Len(w) /\ FromEnd(v, j + 1) = FromEnd(w, j)
    BY <1>3, <2>1, PushFacts, Zenon
  <2> QED
    BY <1>4, <2>1
<1>8. /\ q \in Seq(Entries) /\ Len(q) <= MaxLen /\ Len(q) <= Len(said[s]) + 1 /\ Len(q) >= 1
      /\ Len(q) >= Len(said[s]) /\ (Len(said[s]) < MaxLen => Len(q) = Len(said[s]) + 1)
      /\ FromEnd(q, 0) = e
      /\ \A j \in 0..Len(q) - 2 : j < Len(said[s]) /\ FromEnd(q, j + 1) = FromEnd(said[s], j)
  <2>1. ASSUME NEW w \in Seq(Entries), Len(w) <= MaxLen
        PROVE  LET v == Pushed(w, e)
               IN  /\ v \in Seq(Entries) /\ Len(v) <= MaxLen /\ Len(v) <= Len(w) + 1
                   /\ Len(v) >= 1 /\ Len(v) >= Len(w)
                   /\ Len(w) < MaxLen => Len(v) = Len(w) + 1
                   /\ FromEnd(v, 0) = e
                   /\ \A j \in 0..Len(v) - 2 : j < Len(w) /\ FromEnd(v, j + 1) = FromEnd(w, j)
    BY <1>3, <2>1, PushFacts, Zenon
  <2> QED
    BY <1>4, <2>1
<1>9. /\ MaxLen \in Nat /\ Len(p) \in Nat /\ Len(q) \in Nat
      /\ Len(said[s]) \in Nat /\ Len(deque[h]) \in Nat
  BY <1>4, <1>7, <1>8, IntentAssumption, LenProperties DEF MaxLen
<1> HIDE DEF p, q, e
<1>10. /\ DOMAIN deque' = Deques /\ DOMAIN said' = Sessions
       /\ \A d \in Deques : deque'[d] = IF d = h THEN p ELSE deque[d]
       /\ \A x \in Sessions : said'[x] = IF x = s THEN q ELSE said[x]
  BY <1>3, <1>4, <1>6
<1>11. \A j \in 0..Len(q) - 1 : Ago(s, j)' = FromEnd(q, j)
  BY <1>1, <1>3, <1>10 DEF Ago, FromEnd
<1>12. \A j \in 0..Len(said[s]) - 1 : Ago(s, j) = FromEnd(said[s], j)
  BY DEF Ago, FromEnd
<1>13. Agrees(h, s)'
  <2>1. Len(p) <= Len(q)
    BY <1>4, <1>7, <1>8, <1>9 DEF Agrees
  <2>2. ASSUME NEW j \in 0..Len(q) - 1, InOne(s, j + 1, h)'
        PROVE  j < Len(p) /\ FromEnd(p, j) = FromEnd(q, j).intent
    <3>1. CASE j = 0
      BY <3>1, <1>3, <1>7, <1>8, <1>9
    <3>2. CASE j # 0
      <4> DEFINE k == j - 1
      <4>1. k \in 0..Len(q) - 2 /\ k \in 0..Len(said[s]) - 1 /\ j = k + 1 /\ k \in Nat
        BY <3>2, <1>8, <1>9
      <4> HIDE DEF k
      <4>2. ASSUME NEW x \in 0..k PROVE Ago(s, x).to = h
        <5>1. x + 1 \in 0..(j + 1) - 1 /\ x + 1 \in 0..Len(q) - 1 /\ x \in 0..Len(q) - 2
              /\ x \in 0..Len(said[s]) - 1
          BY <4>1, <1>9
        <5>2. Ago(s, x + 1)'.to = h
          BY <1>1, <2>2, <5>1 DEF InOne
        <5> QED
          BY <5>1, <5>2, <1>8, <1>11, <1>12
      <4>3. InOne(s, k + 1, h)
        BY <4>1, <4>2 DEF InOne
      <4>4. k < Len(deque[h]) /\ FromEnd(deque[h], k) = Ago(s, k).intent
        BY <1>4, <4>1, <4>3 DEF Agrees
      <4>5. j < Len(p)
        BY <1>7, <1>8, <1>9, <4>1, <4>4
      <4>6. k \in 0..Len(p) - 2
        BY <1>9, <4>1, <4>5
      <4>7. FromEnd(p, j) = FromEnd(deque[h], k) /\ FromEnd(q, j) = FromEnd(said[s], k)
        BY <1>7, <1>8, <4>1, <4>6
      <4> QED
        BY <1>12, <4>1, <4>4, <4>5, <4>7
    <3> QED
      BY <3>1, <3>2
  <2>3. deque'[h] = p /\ said'[s] = q
    BY <1>3, <1>10
  <2> QED
    BY <1>1, <1>11, <2>1, <2>2, <2>3 DEF Agrees
<1>14. ASSUME NEW d \in Threads \X {s}, d # h PROVE Agrees(d, s)'
  <2>1. d \in Deques /\ deque'[d] = deque[d] /\ said'[s] = q
    BY <1>3, <1>10, <1>14 DEF Deques
  <2>2. Len(deque[d]) <= Len(said[s]) /\ deque[d] \in Seq(Intents)
    BY <1>3 DEF HistoryInv, Memory, Agrees
  <2>3. ASSUME NEW j \in 0..Len(q) - 1, InOne(s, j + 1, d)' PROVE FALSE
    <3>1. 0 \in 0..(j + 1) - 1 /\ 0 \in 0..Len(q) - 1
      BY <1>9
    <3>2. Ago(s, 0)'.to = d
      BY <2>3, <3>1 DEF InOne
    <3> QED
      BY <1>3, <1>8, <1>11, <1>14, <3>1, <3>2
  <2> QED
    BY <1>1, <1>8, <1>9, <2>1, <2>2, <2>3, LenProperties DEF Agrees, FromEnd
<1>15. ASSUME NEW x \in Sessions, x # s, NEW d \in Threads \X {x} PROVE Agrees(d, x)'
  <2>1. d \in Deques /\ d # h /\ deque'[d] = deque[d] /\ said'[x] = said[x]
    BY <1>2, <1>10, <1>15 DEF Deques
  <2>2. Agrees(d, x)
    BY DEF HistoryInv, Memory
  <2> QED
    BY <2>1, <2>2 DEF Agrees, InOne, Ago, FromEnd
<1>16. ASSUME NEW x \in Sessions, NEW d \in Threads \X {x} PROVE Agrees(d, x)'
  <2>1. CASE x # s
    BY <2>1, <1>15
  <2>2. CASE x = s /\ d = h
    <3>1. deque'[d] = deque'[h] /\ said'[x] = said'[s] /\ s' = s /\ h' = h
      BY <2>2, <1>1
    <3> QED
      BY <2>2, <3>1, <1>13 DEF Agrees, InOne, Ago, FromEnd
  <2>3. CASE x = s /\ d # h
    <3>1. Agrees(d, s)'
      BY <2>3, <1>14
    <3>2. s' = s
      BY <1>1
    <3> QED
      BY <2>3, <3>1, <3>2 DEF Agrees, InOne, Ago, FromEnd
  <2> QED
    BY <2>1, <2>2, <2>3
<1>17. Memory'
  <2>1. ASSUME NEW u \in Threads, NEW x \in Sessions
        PROVE  /\ deque'[<<u, x>>] \in Seq(Intents) /\ Len(deque'[<<u, x>>]) <= MaxLen
               /\ Agrees(<<u, x>>, x)'
    <3> DEFINE d == <<u, x>>
    <3>1. d \in Threads \X {x} /\ d \in Deques
      BY DEF Deques
    <3>2. deque[d] \in Seq(Intents) /\ Len(deque[d]) <= MaxLen
      BY DEF HistoryInv, Memory
    <3>3. Agrees(d, x)'
      BY <3>1, <1>16
    <3> HIDE DEF d
    <3>4. deque'[d] \in Seq(Intents) /\ Len(deque'[d]) <= MaxLen
      BY <3>1, <3>2, <1>7, <1>10
    <3> QED
      BY <3>3, <3>4 DEF d
  <2>2. \A x \in Sessions : said'[x] \in Seq(Entries) /\ Len(said'[x]) <= MaxLen
    BY <1>8, <1>10 DEF HistoryInv, Memory
  <2> QED
    BY <1>1, <1>10, <2>1, <2>2 DEF HistoryInv, Memory
<1>18. Recorders'
  <2>1. /\ at' \in [Threads -> {"idle", "missed", "append", "check"}] /\ at'[t] = "check"
        /\ \A u \in Threads : u # t => at'[u] = at[u]
    BY <1>1, <1>2
  <2>2. p # <<>>
    BY <1>7
  <2>3. ASSUME NEW u \in Threads, at'[u] = "check" PROVE deque'[call[u].holds] # <<>>
    <3>1. CASE u = t
      BY <3>1, <1>3, <1>10, <2>2
    <3>2. CASE u # t
      <4>1. at[u] = "check" /\ call[u] \in Calls /\ deque[call[u].holds] # <<>>
            /\ call[u].holds \in Threads \X {call[u].session}
        BY <3>2, <2>1, <2>3 DEF HistoryInv, Recorders
      <4>2. call[u].holds \in Deques
        BY <4>1 DEF Calls, Deques
      <4> QED
        BY <4>1, <4>2, <1>10, <2>2
    <3> QED
      BY <3>1, <3>2
  <2>4. ASSUME NEW u \in Threads, at'[u] # "idle"
        PROVE  call[u] \in Calls
               /\ (at'[u] # "missed" => call[u].holds \in Threads \X {call[u].session})
    BY <1>1, <1>2, <2>1, <2>4 DEF HistoryInv, Recorders
  <2> QED
    BY <1>1, <1>2, <2>1, <2>3, <2>4 DEF Recorders
<1> QED
  BY <1>17, <1>18 DEF HistoryInv

\* Every step of the history keeps the invariant.
LEMMA HistoryNext == HistoryInv /\ [LoopNext]_loopVars => HistoryInv'
<1> SUFFICES ASSUME HistoryInv, [LoopNext]_loopVars PROVE HistoryInv'
  OBVIOUS
<1>1. ASSUME NEW t \in Threads, Leave(t) PROVE HistoryInv'
  <2>1. UNCHANGED <<history, deque, said>>
    BY <1>1, Zenon DEF Leave
  <2>2. /\ at' \in [Threads -> {"idle", "missed", "append", "check"}] /\ DOMAIN call' = Threads
        /\ at'[t] = "idle" /\ \A u \in Threads : u # t => at'[u] = at[u] /\ call'[u] = call[u]
    BY <1>1 DEF Leave, HistoryInv, Recorders
  <2>3. Memory'
    BY <2>1 DEF HistoryInv, Memory, Agrees, InOne, Ago
  <2>4. Recorders'
    BY <2>1, <2>2 DEF HistoryInv, Recorders
  <2> QED
    BY <2>3, <2>4 DEF HistoryInv
<1>2. CASE UNCHANGED loopVars
  <2>1. UNCHANGED <<history, deque, call, at, said>>
    BY <1>2 DEF loopVars
  <2> QED
    BY <2>1 DEF HistoryInv, Memory, Recorders, Agrees, InOne, Ago
<1> QED
  BY <1>1, <1>2, FetchingKeepsHistory, AppendKeepsHistory, Zenon DEF LoopNext, Abort, Pass

\* The initial state satisfies it.
LEMMA HistoryInit == LoopInit => HistoryInv
<1> SUFFICES ASSUME LoopInit PROVE HistoryInv
  OBVIOUS
<1>1. /\ <<>> \in Seq(Intents) /\ <<>> \in Seq(Entries) /\ Len(<<>>) = 0 /\ 0 <= MaxLen
      /\ \A j : j \notin 0..0 - 1
  BY EmptySeq, IntentAssumption DEF MaxLen
<1>2. /\ \A s \in Sessions : said[s] = <<>> /\ history[s] = NoDeque
      /\ \A t \in Threads, s \in Sessions : <<t, s>> \in Deques /\ deque[<<t, s>>] = <<>>
  BY DEF Deques, LoopInit
<1>3. ASSUME NEW t \in Threads, NEW s \in Sessions PROVE Agrees(<<t, s>>, s)
  BY <1>1, <1>2 DEF Agrees
<1>4. Memory
  BY <1>1, <1>2, <1>3 DEF LoopInit, Memory
<1>5. Recorders
  BY DEF LoopInit, Recorders
<1> QED
  BY <1>4, <1>5 DEF HistoryInv

\* A request is aborted over a loop, and passes no loop that fills the deque.
LEMMA VerdictsAreRight ==
  ASSUME HistoryInv, NEW t \in Threads
  PROVE  LET s == call[t].session
             d == call[t].holds
         IN  /\ Abort(t) => /\ LoopThreshold <= Len(said[s])
                            /\ InOne(s, LoopThreshold, d) => InARow(s, LoopThreshold)
             /\ Pass(t) => ~(InARow(s, LoopThreshold + 1) /\ InOne(s, LoopThreshold + 1, d))
<1> DEFINE s == call[t].session
           d == call[t].holds
           q == deque[d]
           n == LoopThreshold
<1>0. n \in Nat \ {0} /\ MaxLen = n + 1
  BY IntentAssumption DEF MaxLen
<1> SUFFICES ASSUME at[t] = "check"
             PROVE  /\ Abort(t) => n <= Len(said[s]) /\ (InOne(s, n, d) => InARow(s, n))
                    /\ Pass(t) => ~(InARow(s, n + 1) /\ InOne(s, n + 1, d))
  BY Zenon DEF Abort, Pass
<1>1. s \in Sessions /\ d \in Threads \X {s} /\ q # <<>>
  BY DEF HistoryInv, Recorders, Calls
<1>2. /\ q \in Seq(Intents) /\ Len(q) <= n + 1 /\ Agrees(d, s)
      /\ said[s] \in Seq(Entries) /\ Len(said[s]) <= n + 1
  BY <1>0, <1>1 DEF HistoryInv, Memory
<1>3. Len(q) \in Nat \ {0} /\ Len(said[s]) \in Nat /\ DOMAIN q = 1..Len(q)
  BY <1>1, <1>2, EmptySeq, LenProperties
<1>4. AllAlike(q) <=> Range(q) = {q[Len(q)]}
  BY <1>1, <1>2, AlikeAsTheLast
<1>5. \A j \in 0..Len(q) - 1 : FromEnd(q, j) = q[Len(q) - j] /\ Len(q) - j \in 1..Len(q)
  BY <1>3 DEF FromEnd
<1>6. LoopFound(q) <=> n <= Len(q) /\ AllAlike(q)
  BY <1>0, <1>3 DEF LoopFound
<1>7. Abort(t) => LoopFound(q)
  BY Zenon DEF Abort
<1>8. Pass(t) => ~LoopFound(q)
  BY Zenon DEF Pass
<1>9. ASSUME NEW k \in 1..Len(said[s]), InOne(s, k, d)
      PROVE  \A j \in 0..k - 1 : j < Len(q) /\ FromEnd(q, j) = Ago(s, j).intent
  <2> TAKE j \in 0..k - 1
  <2>1. InOne(s, j + 1, d) /\ j \in 0..Len(said[s]) - 1
    BY <1>3, <1>9 DEF InOne
  <2> QED
    BY <1>2, <2>1 DEF Agrees
<1>10. Len(q) <= Len(said[s])
  BY <1>2 DEF Agrees
<1> HIDE DEF q, s, d, n
<1>11. ASSUME LoopFound(q), InOne(s, n, d) PROVE InARow(s, n)
  <2>1. n \in 1..Len(said[s])
    BY <1>0, <1>3, <1>6, <1>10, <1>11
  <2>2. \A x \in 1..Len(q) : q[x] = q[Len(q)]
    BY <1>3, <1>4, <1>6, <1>11 DEF Range
  <2>3. \A j \in 0..n - 1 : j \in 0..Len(q) - 1 /\ FromEnd(q, j) = Ago(s, j).intent
    BY <1>0, <1>3, <1>9, <1>11, <2>1
  <2>4. \A j \in 0..n - 1 : Ago(s, j).intent = q[Len(q)]
    BY <1>5, <2>2, <2>3
  <2>5. 0 \in 0..n - 1
    BY <1>0
  <2> QED
    BY <2>1, <2>4, <2>5 DEF InARow
<1>12. ASSUME InARow(s, n + 1), InOne(s, n + 1, d) PROVE LoopFound(q)
  <2>1. n + 1 \in 1..Len(said[s])
    BY <1>0, <1>3, <1>12 DEF InARow
  <2>2. \A j \in 0..n : j < Len(q) /\ FromEnd(q, j) = Ago(s, j).intent
    BY <1>0, <1>9, <1>12, <2>1
  <2>3. n < Len(q)
    BY <1>0, <2>2
  <2>4. Len(q) = n + 1
    <3>1. Len(q) <= n + 1 /\ Len(q) \in Nat /\ n \in Nat
      BY <1>0, <1>2, <1>3
    <3> QED
      BY <2>3, <3>1
  <2>5. ASSUME NEW x \in 1..Len(q) PROVE q[x] = Ago(s, 0).intent
    <3> DEFINE j == Len(q) - x
    <3>1. j \in 0..n /\ j \in 0..Len(q) - 1 /\ Len(q) - j = x
      BY <1>0, <2>4
    <3> HIDE DEF j
    <3>2. Ago(s, j).intent = Ago(s, 0).intent
      BY <1>0, <1>12, <3>1 DEF InARow
    <3> QED
      BY <1>5, <2>2, <3>1, <3>2
  <2>6. Len(q) \in 1..Len(q)
    BY <1>3
  <2>7. Range(q) = {q[Len(q)]}
    BY <1>3, <2>5, <2>6 DEF Range
  <2> QED
    BY <1>0, <1>4, <1>6, <2>4, <2>7
<1>13. LoopFound(q) => n <= Len(said[s])
  BY <1>0, <1>3, <1>6, <1>10
<1> QED
  BY <1>7, <1>8, <1>11, <1>12, <1>13

-----------------------------------------------------------------------------
(* The theorems *)

\* A step of the whole keeps both invariants.
LEMMA GuardsNextInv ==
  /\ RegistryInv /\ [GuardsNext]_<<vars, loopVars>> => RegistryInv'
  /\ HistoryInv /\ [GuardsNext]_<<vars, loopVars>> => HistoryInv'
<1>1. [GuardsNext]_<<vars, loopVars>> => [Next]_vars /\ [LoopNext]_loopVars
  BY Zenon DEF GuardsNext
<1> QED
  BY <1>1, RegistryNext, HistoryNext

\* The callers of a name share one breaker between two resets, and those of different names
\* share none, whatever they fetch, report and reset at once.
THEOREM OneBreakerEach == GuardsSpec => []OneBreakerPerName
<1>1. GuardsInit => RegistryInv
  BY RegistryInit DEF GuardsInit
<1>2. RegistryInv => OneBreakerPerName
  BY DEF RegistryInv
<1> QED
  BY <1>1, <1>2, GuardsNextInv, PTL DEF GuardsSpec

\* No report that comes after a reset changes the breaker the reset has put in.
THEOREM ResetsForget == GuardsSpec => ResetForgets
<1>1. GuardsInit => RegistryInv
  BY RegistryInit DEF GuardsInit
<1>2. [GuardsNext]_<<vars, loopVars>> => [Next]_vars
  BY Zenon DEF GuardsNext
<1> QED
  BY <1>1, <1>2, GuardsNextInv, LateReports, PTL DEF GuardsSpec, ResetForgets

\* A request is aborted only when its session has said the same LoopThreshold times in a row,
\* or its last appends are divided between two deques: for any threads, whichever sessions
\* they serve at once.
THEOREM AbortsAreLoops == GuardsSpec => AbortMeansLoop
<1>1. GuardsInit => HistoryInv
  BY HistoryInit DEF GuardsInit
<1>2. HistoryInv =>
        [\A t \in Threads : Abort(t) =>
           LET s == call[t].session
           IN  /\ LoopThreshold <= Len(said[s])
               /\ InOne(s, LoopThreshold, call[t].holds) => InARow(s, LoopThreshold)]_loopVars
  BY VerdictsAreRight, Zenon
<1>3. HistoryInv /\ [GuardsNext]_<<vars, loopVars>> => HistoryInv'
  BY GuardsNextInv
<1> QED
  BY <1>1, <1>2, <1>3, PTL DEF GuardsSpec, AbortMeansLoop

\* And a request never gets through on more than LoopThreshold alike in one deque.
THEOREM LoopsEnd == GuardsSpec => NoLoopOutlivesTheDeque
<1>1. GuardsInit => HistoryInv
  BY HistoryInit DEF GuardsInit
<1>2. HistoryInv =>
        [\A t \in Threads : Pass(t) =>
           LET s == call[t].session
           IN  ~(InARow(s, LoopThreshold + 1) /\ InOne(s, LoopThreshold + 1, call[t].holds))]_loopVars
  BY VerdictsAreRight, Zenon
<1>3. HistoryInv /\ [GuardsNext]_<<vars, loopVars>> => HistoryInv'
  BY GuardsNextInv
<1> QED
  BY <1>1, <1>2, <1>3, PTL DEF GuardsSpec, NoLoopOutlivesTheDeque
=============================================================================
