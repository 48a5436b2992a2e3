------------------------- MODULE ShadowRepairProofs -------------------------
(***************************************************************************)
(* Approval and ShadowRepair for every set of attempts and requests, every *)
(* finite set of threads and every cooldown and SLA.                       *)
(*                                                                         *)
(* First the workflow alone: that an escalation is due needs one fact      *)
(* about threads, that the clock value check_sla carries into the lock is  *)
(* never ahead of the clock; that the trail accounts for everything needs  *)
(* the number of threads that owe an event to be followed through each     *)
(* step.  Then the pipeline, a client of the workflow like any other: its  *)
(* behaviours are behaviours of Approval, so what is proved of Approval    *)
(* holds under it, and the rest needs what each stage of an attempt knows. *)
(***************************************************************************)
EXTENDS ShadowRepair, FiniteSetTheorems, TLAPS

-----------------------------------------------------------------------------
(* The workflow *)

\* A clock value carried by check_sla is not ahead of the clock.
ReadsAreOld == \A a \in Actors : doing[a].read # Never => doing[a].read <= now

\* What the status of a request says about its times.
TimesFit ==
  \A r \in Requests :
    /\ status[r] = "absent" <=> submitted_at[r] = Never
    /\ submitted_at[r] # Never => submitted_at[r] <= now
    /\ status[r] \in {"absent", "pending"} => approved_at[r] = Never /\ escalated_at[r] = Never

IInv == TypeOK /\ ReadsAreOld /\ TimesFit /\ ApprovalsAreCool /\ EscalationsAreDue

\* No request is there, and nobody is doing anything, at the start.
LEMMA InitInv == Init => IInv
<1> SUFFICES ASSUME Init PROVE IInv
  OBVIOUS
<1>1. 0 \in Time /\ Never \notin Time
  BY ApprovalAssumption DEF Time, Never
<1>2. TypeOK
  BY <1>1 DEF Init, TypeOK, Status, Events, NothingToDo
<1>3. ReadsAreOld
  BY DEF Init, ReadsAreOld, NothingToDo
<1>4. TimesFit /\ ApprovalsAreCool /\ EscalationsAreDue
  BY DEF Init, TimesFit, ApprovalsAreCool, EscalationsAreDue
<1> QED
  BY <1>2, <1>3, <1>4 DEF IInv

\* A thread that only moves to its audit step, or reads the clock, keeps what is
\* said about threads.
LEMMA OwesKeeps ==
  ASSUME TypeOK, ReadsAreOld, NEW a \in Actors, NEW events \in SUBSET (Events \X Requests),
         Owes(a, events), now' = now
  PROVE  /\ doing' \in [Actors -> [owes : SUBSET (Events \X Requests), read : Time \cup {Never}]]
         /\ ReadsAreOld'
<1>1. [owes |-> events, read |-> Never] \in [owes : SUBSET (Events \X Requests), read : Time \cup {Never}]
  OBVIOUS
<1>2. doing' \in [Actors -> [owes : SUBSET (Events \X Requests), read : Time \cup {Never}]]
  BY <1>1 DEF Owes, TypeOK
<1>3. ReadsAreOld'
  BY DEF Owes, TypeOK, ReadsAreOld, Never
<1> QED
  BY <1>2, <1>3

\* Every step keeps the invariant.
LEMMA NextInv == IInv /\ [Next]_vars => IInv'
<1> SUFFICES ASSUME IInv, [Next]_vars PROVE IInv'
  OBVIOUS
<1>0. now \in Nat /\ now <= LastTick /\ now \in Time /\ now # Never /\ Never \notin Time
  BY ApprovalAssumption DEF IInv, TypeOK, Time, Never
<1>e. /\ "approval_submitted" \in Events /\ "approval_granted" \in Events
      /\ "approval_rejected" \in Events /\ "approval_sla_breached" \in Events
  BY DEF Events
<1>1. ASSUME NEW a \in Actors, NEW r \in Requests, Submit(a, r) PROVE IInv'
  <2>1. {<<"approval_submitted", r>>} \in SUBSET (Events \X Requests)
    BY <1>e
  <2>2. /\ doing' \in [Actors -> [owes : SUBSET (Events \X Requests), read : Time \cup {Never}]]
        /\ ReadsAreOld'
    BY <1>1, <2>1, OwesKeeps DEF Submit, IInv
  <2>3. TypeOK'
    BY <1>0, <1>1, <2>2 DEF Submit, IInv, TypeOK, Status
  <2>4. TimesFit' /\ ApprovalsAreCool' /\ EscalationsAreDue'
    BY <1>0, <1>1 DEF Submit, IInv, TypeOK, TimesFit, ApprovalsAreCool, EscalationsAreDue
  <2> QED
    BY <2>2, <2>3, <2>4 DEF IInv
<1>2. ASSUME NEW a \in Actors, NEW r \in Requests, Approve(a, r) PROVE IInv'
  <2>1. {<<"approval_granted", r>>} \in SUBSET (Events \X Requests)
    BY <1>e
  <2>2. /\ doing' \in [Actors -> [owes : SUBSET (Events \X Requests), read : Time \cup {Never}]]
        /\ ReadsAreOld'
    BY <1>2, <2>1, OwesKeeps DEF Approve, IInv
  <2>3. TypeOK'
    BY <1>0, <1>2, <2>2 DEF Approve, IInv, TypeOK, Status
  <2>4. TimesFit' /\ ApprovalsAreCool' /\ EscalationsAreDue'
    BY <1>0, <1>2 DEF Approve, IInv, TypeOK, TimesFit, ApprovalsAreCool, EscalationsAreDue
  <2> QED
    BY <2>2, <2>3, <2>4 DEF IInv
<1>3. ASSUME NEW a \in Actors, NEW r \in Requests, Reject(a, r) PROVE IInv'
  <2>1. {<<"approval_rejected", r>>} \in SUBSET (Events \X Requests)
    BY <1>e
  <2>2. /\ doing' \in [Actors -> [owes : SUBSET (Events \X Requests), read : Time \cup {Never}]]
        /\ ReadsAreOld'
    BY <1>3, <2>1, OwesKeeps DEF Reject, IInv
  <2>3. TypeOK'
    BY <1>3, <2>2 DEF Reject, IInv, TypeOK, Status
  <2>4. TimesFit' /\ ApprovalsAreCool' /\ EscalationsAreDue'
    BY <1>3 DEF Reject, IInv, TypeOK, TimesFit, ApprovalsAreCool, EscalationsAreDue
  <2> QED
    BY <2>2, <2>3, <2>4 DEF IInv
<1>4. ASSUME NEW a \in Actors, CheckSlaRead(a) PROVE IInv'
  <2>1. TypeOK'
    BY <1>0, <1>4 DEF CheckSlaRead, IInv, TypeOK, record
  <2>2. ReadsAreOld'
    BY <1>0, <1>4 DEF CheckSlaRead, IInv, TypeOK, ReadsAreOld
  <2>3. TimesFit' /\ ApprovalsAreCool' /\ EscalationsAreDue'
    BY <1>4 DEF CheckSlaRead, IInv, TimesFit, ApprovalsAreCool, EscalationsAreDue, record
  <2> QED
    BY <2>1, <2>2, <2>3 DEF IInv
<1>5. ASSUME NEW a \in Actors, CheckSlaEscalate(a) PROVE IInv'
  <2> DEFINE t == doing[a].read
             breached == Breached(t)
  <2>1. t \in Time /\ t <= now
    BY <1>5 DEF CheckSlaEscalate, IInv, TypeOK, ReadsAreOld
  <2>2. breached \subseteq Requests
    BY DEF Breached
  <2>3. \A r \in breached : status[r] = "pending" /\ t > submitted_at[r] + Sla
    BY DEF Breached
  <2>4. /\ status' = [r \in Requests |-> IF r \in breached THEN "escalated" ELSE status[r]]
        /\ escalated_at' = [r \in Requests |-> IF r \in breached THEN now ELSE escalated_at[r]]
        /\ Owes(a, {"approval_sla_breached"} \X breached)
        /\ UNCHANGED <<submitted_at, approved_at, approved_by, now, trail>>
    BY <1>5 DEF CheckSlaEscalate
  <2> HIDE DEF t, breached
  <2>5. {"approval_sla_breached"} \X breached \in SUBSET (Events \X Requests)
    BY <1>e, <2>2
  <2>6. /\ doing' \in [Actors -> [owes : SUBSET (Events \X Requests), read : Time \cup {Never}]]
        /\ ReadsAreOld'
    BY <2>4, <2>5, OwesKeeps DEF IInv
  <2>7. TypeOK'
    BY <1>0, <2>4, <2>6 DEF IInv, TypeOK, Status
  <2>8. TimesFit'
    BY <2>3, <2>4 DEF IInv, TypeOK, TimesFit
  <2>9. ApprovalsAreCool'
    BY <2>3, <2>4 DEF IInv, TypeOK, ApprovalsAreCool
  <2>10. EscalationsAreDue'
    <3> SUFFICES ASSUME NEW r \in Requests, escalated_at'[r] # Never
                 PROVE  escalated_at'[r] > submitted_at'[r] + Sla /\ approved_at'[r] = Never
      BY DEF EscalationsAreDue
    <3>1. CASE r \in breached
      <4>1. escalated_at'[r] = now /\ submitted_at'[r] = submitted_at[r]
        BY <2>4, <3>1
      <4>2. status[r] = "pending" /\ t > submitted_at[r] + Sla
        BY <2>3, <3>1
      <4>3. submitted_at[r] \in Nat /\ approved_at[r] = Never
        BY <4>2, ApprovalAssumption DEF IInv, TypeOK, TimesFit, Time, Never
      <4>4. now > submitted_at[r] + Sla
        BY <1>0, <2>1, <4>2, <4>3, ApprovalAssumption DEF Time
      <4> QED
        BY <2>4, <4>1, <4>3, <4>4
    <3>2. CASE r \notin breached
      BY <2>4, <3>2 DEF IInv, EscalationsAreDue
    <3> QED
      BY <3>1, <3>2
  <2> QED
    BY <2>6, <2>7, <2>8, <2>9, <2>10 DEF IInv
<1>6. ASSUME NEW a \in Actors, Audit(a) PROVE IInv'
  <2>1. PICK ev \in doing[a].owes :
          /\ trail' = [trail EXCEPT ![ev[2]][ev[1]] = @ + 1]
          /\ doing' = [doing EXCEPT ![a].owes = @ \ {ev}]
          /\ UNCHANGED <<record, now>>
    BY <1>6 DEF Audit
  <2>2. ev[1] \in Events /\ ev[2] \in Requests
    BY <2>1 DEF IInv, TypeOK
  <2>3. trail' \in [Requests -> [Events -> Nat]]
    BY <2>1, <2>2 DEF IInv, TypeOK
  <2>4. doing' \in [Actors -> [owes : SUBSET (Events \X Requests), read : Time \cup {Never}]]
    BY <2>1 DEF IInv, TypeOK
  <2>5. \A b \in Actors : doing'[b].read = doing[b].read
    BY <2>1 DEF IInv, TypeOK
  <2>6. ReadsAreOld'
    BY <2>1, <2>5 DEF IInv, ReadsAreOld, Never
  <2> QED
    BY <2>1, <2>3, <2>4, <2>6
    DEF IInv, TypeOK, TimesFit, ApprovalsAreCool, EscalationsAreDue, record, Never
<1>7. CASE Tick
  <2>1. now' = now + 1 /\ now' \in Time /\ UNCHANGED <<record, doing, trail>>
    BY <1>0, <1>7, ApprovalAssumption DEF Tick, Time
  <2>2. TypeOK'
    BY <2>1 DEF IInv, TypeOK, record
  <2>3. ReadsAreOld'
    BY <1>0, <2>1, ApprovalAssumption DEF IInv, TypeOK, ReadsAreOld, Time, Never
  <2>4. TimesFit'
    BY <1>0, <2>1, ApprovalAssumption DEF IInv, TypeOK, TimesFit, Time, Never, record
  <2> QED
    BY <2>1, <2>2, <2>3, <2>4 DEF IInv, ApprovalsAreCool, EscalationsAreDue, record
<1>8. CASE UNCHANGED vars
  BY <1>8 DEF vars, record, IInv, TypeOK, ReadsAreOld, TimesFit, ApprovalsAreCool,
              EscalationsAreDue
<1> QED
  BY <1>1, <1>2, <1>3, <1>4, <1>5, <1>6, <1>7, <1>8 DEF Next

\* Every variable keeps its type.
THEOREM TypeCorrect == Spec => []TypeOK
<1>1. IInv => TypeOK
  BY DEF IInv
<1> QED
  BY InitInv, NextInv, <1>1, PTL DEF Spec

\* No approval is ever given before the cooldown has passed (ApprovalsAreCool).
THEOREM ApprovalsAreAlwaysCool == Spec => []ApprovalsAreCool
<1>1. IInv => ApprovalsAreCool
  BY DEF IInv
<1> QED
  BY InitInv, NextInv, <1>1, PTL DEF Spec

\* Nothing is escalated before its SLA or after its approval (EscalationsAreDue).
THEOREM EscalationsAreAlwaysDue == Spec => []EscalationsAreDue
<1>1. IInv => EscalationsAreDue
  BY DEF IInv
<1> QED
  BY InitInv, NextInv, <1>1, PTL DEF Spec

\* The condition DecisionsStand puts on one step.
Stands ==
  \A r \in Requests :
    /\ status'[r] # status[r] => status[r] \in {"absent", "pending"} \/ status'[r] = "rejected"
    /\ approved_at[r] # Never => approved_at'[r] = approved_at[r]
                                 /\ approved_by'[r] = approved_by[r]

\* Every step satisfies it.
LEMMA StepStands == IInv /\ [Next]_vars => Stands
<1> SUFFICES ASSUME IInv, [Next]_vars PROVE Stands
  OBVIOUS
<1> USE DEF IInv
<1>1. ASSUME NEW a \in Actors, NEW r \in Requests, Submit(a, r) PROVE Stands
  BY <1>1 DEF Submit, TypeOK, Stands
<1>2. ASSUME NEW a \in Actors, NEW r \in Requests, Approve(a, r) PROVE Stands
  BY <1>2 DEF Approve, TypeOK, TimesFit, Stands
<1>3. ASSUME NEW a \in Actors, NEW r \in Requests, Reject(a, r) PROVE Stands
  BY <1>3 DEF Reject, TypeOK, Stands
<1>4. ASSUME NEW a \in Actors, CheckSlaEscalate(a) PROVE Stands
  BY <1>4 DEF CheckSlaEscalate, Breached, Stands
<1>5. ASSUME UNCHANGED record PROVE Stands
  BY <1>5 DEF record, Stands
<1>6. ASSUME NEW a \in Actors, CheckSlaRead(a) \/ Audit(a) PROVE Stands
  BY <1>5, <1>6 DEF CheckSlaRead, Audit
<1>7. CASE Tick \/ UNCHANGED vars
  BY <1>5, <1>7 DEF Tick, vars
<1> QED
  BY <1>1, <1>2, <1>3, <1>4, <1>6, <1>7 DEF Next

\* A decision is undone only by a rejection and never rewritten (DecisionsStand).
THEOREM DecisionsAlwaysStand == Spec => DecisionsStand
<1>1. IInv /\ [Next]_vars => [Stands]_vars
  BY StepStands
<1> QED
  BY InitInv, NextInv, <1>1, PTL DEF Spec, DecisionsStand, Stands

\* A thread that holds a clock value for check_sla owes the log nothing.
ReadersOweNothing == \A a \in Actors : doing[a].read # Never => doing[a].owes = {}

\* How often an event of a request was logged or will be.
Accounted(e, r) == trail[r][e] + Owed(e, r)

\* What is inductive about the trail, beside IInv.
TrailInv == ReadersOweNothing /\ TrailAccountsForAll

\* A thread that owed nothing and takes on a set of events adds itself to those who
\* owe them.
LEMMA OwesAccounted ==
  ASSUME TypeOK, NEW a \in Actors, NEW events \in SUBSET (Events \X Requests),
         doing[a].owes = {}, Owes(a, events), trail' = trail,
         NEW e \in Events, NEW r \in Requests
  PROVE  /\ Accounted(e, r) \in Nat
         /\ Accounted(e, r)' = Accounted(e, r) + (IF <<e, r>> \in events THEN 1 ELSE 0)
<1> DEFINE O == {b \in Actors : <<e, r>> \in doing[b].owes}
           P == {b \in Actors : <<e, r>> \in doing'[b].owes}
<1>1. IsFiniteSet(O) /\ Cardinality(O) \in Nat /\ a \notin O
  BY ApprovalAssumption, FS_Subset, FS_CardinalityType
<1>2. \A b \in Actors : doing'[b].owes = IF b = a THEN events ELSE doing[b].owes
  BY DEF Owes, TypeOK
<1>3. P = IF <<e, r>> \in events THEN O \cup {a} ELSE O
  BY <1>1, <1>2
<1>4. Cardinality(P) = Cardinality(O) + (IF <<e, r>> \in events THEN 1 ELSE 0)
  <2> HIDE DEF O, P
  <2>1. CASE <<e, r>> \in events
    BY <1>1, <1>3, <2>1, FS_AddElement
  <2>2. CASE <<e, r>> \notin events
    BY <1>1, <1>3, <2>2
  <2> QED
    BY <2>1, <2>2
<1>5. trail[r][e] \in Nat /\ trail'[r][e] = trail[r][e]
  BY DEF TypeOK
<1> QED
  BY <1>1, <1>4, <1>5 DEF Accounted, Owed

\* Logging an event takes it from those who owe it to the trail.
LEMMA AuditAccounted ==
  ASSUME TypeOK, NEW a \in Actors, Audit(a), NEW e \in Events, NEW r \in Requests
  PROVE  Accounted(e, r)' = Accounted(e, r)
<1> DEFINE O == {b \in Actors : <<e, r>> \in doing[b].owes}
           P == {b \in Actors : <<e, r>> \in doing'[b].owes}
<1>0. PICK ev \in doing[a].owes :
        /\ trail' = [trail EXCEPT ![ev[2]][ev[1]] = @ + 1]
        /\ doing' = [doing EXCEPT ![a].owes = @ \ {ev}]
  BY DEF Audit
<1>1. IsFiniteSet(O) /\ Cardinality(O) \in Nat
  BY ApprovalAssumption, FS_Subset, FS_CardinalityType
<1>2. \A b \in Actors : doing'[b].owes = IF b = a THEN doing[a].owes \ {ev} ELSE doing[b].owes
  BY <1>0 DEF TypeOK
<1>3. ev \in Events \X Requests
  BY <1>0 DEF TypeOK
<1>4. trail[r][e] \in Nat
  BY DEF TypeOK
<1>5. CASE ev = <<e, r>>
  <2>1. trail'[r][e] = trail[r][e] + 1
    BY <1>0, <1>5 DEF TypeOK
  <2>2. a \in O /\ P = O \ {a}
    BY <1>0, <1>2, <1>5
  <2>3. Cardinality(P) = Cardinality(O) - 1
    BY <1>1, <2>2, FS_RemoveElement
  <2> QED
    BY <1>1, <1>4, <2>1, <2>3 DEF Accounted, Owed
<1>6. CASE ev # <<e, r>>
  <2>1. ev[1] # e \/ ev[2] # r
    BY <1>3, <1>6
  <2>2. trail'[r][e] = trail[r][e]
    BY <1>0, <1>3, <2>1 DEF TypeOK
  <2>3. P = O
    BY <1>0, <1>2, <1>6
  <2> QED
    BY <2>2, <2>3 DEF Accounted, Owed
<1> QED
  BY <1>5, <1>6

\* At the start nothing happened, is logged or is owed.
LEMMA InitTrail == Init => TrailInv
<1> SUFFICES ASSUME Init PROVE TrailInv
  OBVIOUS
<1>1. ReadersOweNothing
  BY DEF Init, NothingToDo, ReadersOweNothing
<1>2. ASSUME NEW e \in Events, NEW r \in Requests PROVE Accounted(e, r) = 0
  <2>1. {a \in Actors : <<e, r>> \in doing[a].owes} = {}
    BY DEF Init, NothingToDo
  <2> QED
    BY <2>1, FS_EmptySet DEF Init, Accounted, Owed
<1>3. TrailAccountsForAll
  BY <1>2 DEF Init, TrailAccountsForAll, Accounted, Events
<1> QED
  BY <1>1, <1>3 DEF TrailInv

\* What TrailAccountsForAll says of one request.
AccountsFor(r) ==
  /\ Accounted("approval_submitted", r) = IF status[r] = "absent" THEN 0 ELSE 1
  /\ Accounted("approval_granted", r) = IF approved_at[r] = Never THEN 0 ELSE 1
  /\ Accounted("approval_sla_breached", r) = IF escalated_at[r] = Never THEN 0 ELSE 1
  /\ status[r] = "rejected" <=> Accounted("approval_rejected", r) > 0

\* TrailAccountsForAll, one request at a time.
LEMMA TrailIsAccounts == TrailAccountsForAll <=> \A r \in Requests : AccountsFor(r)
  BY DEF TrailAccountsForAll, AccountsFor, Accounted

\* Every step that changes a request owes its event, and no other step changes what is
\* accounted for.
LEMMA NextTrail == IInv /\ TrailInv /\ [Next]_vars => TrailInv'
<1> SUFFICES ASSUME IInv, TrailInv, [Next]_vars PROVE TrailInv'
  OBVIOUS
<1>t. TypeOK /\ TimesFit /\ now # Never /\ \A r \in Requests : AccountsFor(r)
  BY TrailIsAccounts, ApprovalAssumption DEF IInv, TrailInv, TypeOK, Time, Never
<1>e. /\ "approval_submitted" \in Events /\ "approval_granted" \in Events
      /\ "approval_rejected" \in Events /\ "approval_sla_breached" \in Events
  BY DEF Events
<1>s. SUFFICES /\ ReadersOweNothing'
               /\ \A r \in Requests : AccountsFor(r)'
  <2>1. TrailAccountsForAll' <=> \A r \in Requests : AccountsFor(r)'
    BY DEF TrailAccountsForAll, AccountsFor, Accounted
  <2> QED
    BY <2>1 DEF TrailInv
<1>1. ASSUME NEW a \in Actors, NEW q \in Requests, Submit(a, q)
      PROVE  ReadersOweNothing' /\ \A r \in Requests : AccountsFor(r)'
  <2> DEFINE events == {<<"approval_submitted", q>>}
  <2>1. /\ events \in SUBSET (Events \X Requests) /\ doing[a].owes = {}
        /\ Owes(a, events) /\ trail' = trail
    BY <1>1, <1>e DEF Submit, Free, NothingToDo
  <2>2. ReadersOweNothing'
    BY <1>t, <2>1 DEF Owes, TypeOK, ReadersOweNothing, TrailInv
  <2>3. ASSUME NEW r \in Requests PROVE AccountsFor(r)'
    <3>1. ASSUME NEW e \in Events
          PROVE  /\ Accounted(e, r) \in Nat
                 /\ Accounted(e, r)' = Accounted(e, r) +
                      (IF e = "approval_submitted" /\ r = q THEN 1 ELSE 0)
      <4>1. <<e, r>> \in events <=> e = "approval_submitted" /\ r = q
        OBVIOUS
      <4> HIDE DEF events
      <4> QED
        BY <1>t, <2>1, <4>1, OwesAccounted
    <3>2. AccountsFor(r)
      BY <1>t
    <3> QED
      BY <1>1, <1>t, <1>e, <3>1, <3>2 DEF Submit, AccountsFor, TypeOK
  <2> QED
    BY <2>2, <2>3
<1>2. ASSUME NEW a \in Actors, NEW q \in Requests, Approve(a, q)
      PROVE  ReadersOweNothing' /\ \A r \in Requests : AccountsFor(r)'
  <2> DEFINE events == {<<"approval_granted", q>>}
  <2>1. /\ events \in SUBSET (Events \X Requests) /\ doing[a].owes = {}
        /\ Owes(a, events) /\ trail' = trail
    BY <1>2, <1>e DEF Approve, Free, NothingToDo
  <2>2. ReadersOweNothing'
    BY <1>t, <2>1 DEF Owes, TypeOK, ReadersOweNothing, TrailInv
  <2>3. ASSUME NEW r \in Requests PROVE AccountsFor(r)'
    <3>1. ASSUME NEW e \in Events
          PROVE  /\ Accounted(e, r) \in Nat
                 /\ Accounted(e, r)' = Accounted(e, r) +
                      (IF e = "approval_granted" /\ r = q THEN 1 ELSE 0)
      <4>1. <<e, r>> \in events <=> e = "approval_granted" /\ r = q
        OBVIOUS
      <4> HIDE DEF events
      <4> QED
        BY <1>t, <2>1, <4>1, OwesAccounted
    <3>2. AccountsFor(r)
      BY <1>t
    <3> QED
      BY <1>2, <1>t, <1>e, <3>1, <3>2 DEF Approve, AccountsFor, TypeOK, TimesFit
  <2> QED
    BY <2>2, <2>3
<1>3. ASSUME NEW a \in Actors, NEW q \in Requests, Reject(a, q)
      PROVE  ReadersOweNothing' /\ \A r \in Requests : AccountsFor(r)'
  <2> DEFINE events == {<<"approval_rejected", q>>}
  <2>1. /\ events \in SUBSET (Events \X Requests) /\ doing[a].owes = {}
        /\ Owes(a, events) /\ trail' = trail
    BY <1>3, <1>e DEF Reject, Free, NothingToDo
  <2>2. ReadersOweNothing'
    BY <1>t, <2>1 DEF Owes, TypeOK, ReadersOweNothing, TrailInv
  <2>3. ASSUME NEW r \in Requests PROVE AccountsFor(r)'
    <3>1. ASSUME NEW e \in Events
          PROVE  /\ Accounted(e, r) \in Nat
                 /\ Accounted(e, r)' = Accounted(e, r) +
                      (IF e = "approval_rejected" /\ r = q THEN 1 ELSE 0)
      <4>1. <<e, r>> \in events <=> e = "approval_rejected" /\ r = q
        OBVIOUS
      <4> HIDE DEF events
      <4> QED
        BY <1>t, <2>1, <4>1, OwesAccounted
    <3>2. AccountsFor(r)
      BY <1>t
    <3> QED
      BY <1>3, <1>t, <1>e, <3>1, <3>2 DEF Reject, AccountsFor, TypeOK, TimesFit
  <2> QED
    BY <2>2, <2>3
<1>4. ASSUME NEW a \in Actors, CheckSlaEscalate(a)
      PROVE  ReadersOweNothing' /\ \A r \in Requests : AccountsFor(r)'
  <2> DEFINE breached == Breached(doing[a].read)
             events == {"approval_sla_breached"} \X breached
  <2>0. \A r \in breached : r \in Requests /\ status[r] = "pending"
    BY DEF Breached
  <2>1. /\ doing[a].owes = {} /\ Owes(a, events)
        /\ status' = [r \in Requests |-> IF r \in breached THEN "escalated" ELSE status[r]]
        /\ escalated_at' = [r \in Requests |-> IF r \in breached THEN now ELSE escalated_at[r]]
        /\ UNCHANGED <<approved_at, trail>>
    BY <1>4 DEF CheckSlaEscalate, TrailInv, ReadersOweNothing
  <2> HIDE DEF breached
  <2>2. events \in SUBSET (Events \X Requests)
    BY <1>e, <2>0
  <2>3. ReadersOweNothing'
    BY <1>t, <2>1 DEF Owes, TypeOK, ReadersOweNothing, TrailInv
  <2>4. ASSUME NEW r \in Requests PROVE AccountsFor(r)'
    <3>1. ASSUME NEW e \in Events
          PROVE  /\ Accounted(e, r) \in Nat
                 /\ Accounted(e, r)' = Accounted(e, r) +
                      (IF e = "approval_sla_breached" /\ r \in breached THEN 1 ELSE 0)
      <4>1. <<e, r>> \in events <=> e = "approval_sla_breached" /\ r \in breached
        OBVIOUS
      <4> HIDE DEF events
      <4> QED
        BY <1>t, <2>1, <2>2, <4>1, OwesAccounted
    <3>2. AccountsFor(r)
      BY <1>t
    <3> QED
      BY <1>t, <1>e, <2>0, <2>1, <3>1, <3>2 DEF AccountsFor, TypeOK, TimesFit
  <2> QED
    BY <2>3, <2>4
<1>5. ASSUME NEW a \in Actors, Audit(a)
      PROVE  ReadersOweNothing' /\ \A r \in Requests : AccountsFor(r)'
  <2>1. ReadersOweNothing'
    BY <1>5, <1>t DEF Audit, TypeOK, TrailInv, ReadersOweNothing
  <2>2. \A e \in Events, r \in Requests : Accounted(e, r)' = Accounted(e, r)
    BY <1>5, <1>t, AuditAccounted
  <2>3. UNCHANGED record
    BY <1>5 DEF Audit
  <2> QED
    BY <1>t, <1>e, <2>1, <2>2, <2>3 DEF AccountsFor, record
<1>6. ASSUME NEW a \in Actors, CheckSlaRead(a)
      PROVE  ReadersOweNothing' /\ \A r \in Requests : AccountsFor(r)'
  <2>1. /\ doing' = [doing EXCEPT ![a].read = now] /\ doing[a].owes = {}
        /\ UNCHANGED <<record, trail>>
    BY <1>6 DEF CheckSlaRead, Free, NothingToDo
  <2>2. \A b \in Actors : doing'[b].owes = doing[b].owes
    BY <1>t, <2>1 DEF TypeOK
  <2>3. ReadersOweNothing'
    BY <1>t, <2>1 DEF TypeOK, TrailInv, ReadersOweNothing
  <2>4. ASSUME NEW e \in Events, NEW r \in Requests PROVE Accounted(e, r)' = Accounted(e, r)
    <3>1. {b \in Actors : <<e, r>> \in doing'[b].owes}
            = {b \in Actors : <<e, r>> \in doing[b].owes}
      BY <2>2
    <3> QED
      BY <2>1, <3>1 DEF Accounted, Owed
  <2> QED
    BY <1>t, <1>e, <2>1, <2>3, <2>4 DEF AccountsFor, record
<1>7. CASE Tick \/ UNCHANGED vars
  <2>1. UNCHANGED <<record, doing, trail>>
    BY <1>7 DEF Tick, vars
  <2> QED
    BY <1>t, <2>1 DEF TrailInv, ReadersOweNothing, AccountsFor, Accounted, Owed, record
<1> QED
  BY <1>1, <1>2, <1>3, <1>4, <1>5, <1>6, <1>7 DEF Next

\* The audit trail, with what threads still owe it, accounts for every submission,
\* grant, breach and rejection, in whatever order threads log (TrailAccountsForAll).
THEOREM TrailAlwaysAccounts == Spec => []TrailAccountsForAll
<1>1. TrailInv => TrailAccountsForAll
  BY DEF TrailInv
<1> QED
  BY InitInv, NextInv, InitTrail, NextTrail, <1>1, PTL DEF Spec

-----------------------------------------------------------------------------
(* The pipeline *)

\* Types of the pipeline's own state.
RepairTypes ==
  /\ attempt \in [Attempts -> RepairAttempt]
  /\ running \in [Actors -> Attempts \cup {NoAttempt}]

\* What an attempt has proved by the time it is in its stage.
Earned(y) ==
  /\ y.stage = "comparing" => y.test_passed
  /\ (y.stage \in {"submitting", "attaching"} \/ y.asked # NoRequest) =>
       /\ y.test_passed
       /\ y.compared => y.parity = "reached"
       /\ y.status = "awaiting_approval"
  /\ y.asked # NoRequest => y.stage \in {"attaching", "ended"}

\* A request asked for is in the workflow, and is asked for once.
AskedOnce ==
  \A x \in Attempts :
    attempt[x].asked # NoRequest =>
      /\ status[attempt[x].asked] # "absent"
      /\ \A y \in Attempts : attempt[y].asked = attempt[x].asked => y = x

RepairInv == RepairTypes /\ (\A x \in Attempts : Earned(attempt[x])) /\ AskedOnce

-----------------------------------------------------------------------------
\* The pipeline starts the workflow as it starts alone, and takes only its steps.
THEOREM RepairKeepsWorkflow == RepairSpec => Spec
<1>1. RepairInit => Init
  BY DEF RepairInit
<1>2. [RepairNext]_rvars => [Next]_vars
  <2> SUFFICES ASSUME [RepairNext]_rvars PROVE [Next]_vars
    OBVIOUS
  <2>1. ASSUME NEW a \in Actors, RepairStep(a) PROVE [Next]_vars
    BY <2>1 DEF RepairStep, Begin, Patch, Test, Compare, RequestApproval, PassWithoutGate,
                Attach, Next
  <2>2. ASSUME NEW a \in Actors, WorkflowStep(a) PROVE [Next]_vars
    BY <2>2 DEF WorkflowStep, Next
  <2>3. ASSUME NEW a \in Actors, Audit(a) PROVE [Next]_vars
    BY <2>3 DEF Next
  <2>4. Tick => [Next]_vars
    BY DEF Next
  <2>5. UNCHANGED rvars => [Next]_vars
    BY DEF rvars
  <2> QED
    BY <2>1, <2>2, <2>3, <2>4, <2>5 DEF RepairNext
<1> QED
  BY <1>1, <1>2, PTL DEF RepairSpec, Spec

\* Repairs cannot have a request approved before its cooldown.
THEOREM RepairsAreAlwaysCool == RepairSpec => []ApprovalsAreCool
  BY RepairKeepsWorkflow, ApprovalsAreAlwaysCool, PTL

-----------------------------------------------------------------------------
\* No step takes a request out of the workflow.
LEMMA RequestsRemain ==
  ASSUME TypeOK, [Next]_vars, NEW r \in Requests, status[r] # "absent"
  PROVE  status'[r] # "absent"
<1>1. ASSUME NEW a \in Actors, NEW q \in Requests, Submit(a, q) PROVE status'[r] # "absent"
  BY <1>1 DEF Submit, TypeOK
<1>2. ASSUME NEW a \in Actors, NEW q \in Requests, Approve(a, q) PROVE status'[r] # "absent"
  BY <1>2 DEF Approve, TypeOK
<1>3. ASSUME NEW a \in Actors, NEW q \in Requests, Reject(a, q) PROVE status'[r] # "absent"
  BY <1>3 DEF Reject, TypeOK
<1>4. ASSUME NEW a \in Actors, CheckSlaEscalate(a) PROVE status'[r] # "absent"
  BY <1>4 DEF CheckSlaEscalate
<1>5. ASSUME NEW a \in Actors, CheckSlaRead(a) \/ Audit(a) PROVE status'[r] # "absent"
  BY <1>5 DEF CheckSlaRead, Audit, record
<1>6. CASE Tick \/ UNCHANGED vars
  BY <1>6 DEF Tick, vars, record
<1> QED
  BY <1>1, <1>2, <1>3, <1>4, <1>5, <1>6 DEF Next

\* A step that gives the attempt of its thread a value z which has earned its stage, and
\* asks for no new request, keeps the invariant.
LEMMA UpdateKeeps ==
  ASSUME RepairInv, TypeOK, [Next]_vars, NEW x \in Attempts, NEW z \in RepairAttempt,
         attempt' = [attempt EXCEPT ![x] = z], Earned(z),
         z.asked = attempt[x].asked,
         running' \in [Actors -> Attempts \cup {NoAttempt}]
  PROVE  RepairInv'
<1>1. RepairTypes'
  BY DEF RepairInv, RepairTypes
<1>2. \A w \in Attempts : attempt'[w] = IF w = x THEN z ELSE attempt[w]
  BY DEF RepairInv, RepairTypes
<1>3. \A w \in Attempts : attempt'[w].asked = attempt[w].asked
  BY <1>2
<1>4. (\A w \in Attempts : Earned(attempt[w]))'
  <2> SUFFICES ASSUME NEW w \in Attempts PROVE Earned(attempt'[w])
    BY DEF Earned
  <2> QED
    BY <1>2 DEF RepairInv
<1>5. \A w \in Attempts : attempt[w].asked \in Requests \cup {NoRequest}
  BY DEF RepairInv, RepairTypes, RepairAttempt
<1>6. AskedOnce'
  BY <1>3, <1>5, RequestsRemain DEF RepairInv, AskedOnce
<1> QED
  BY <1>1, <1>4, <1>6 DEF RepairInv

\* A step of the workflow, or of the clock, keeps it.
LEMMA WorkflowKeeps ==
  ASSUME RepairInv, TypeOK, [Next]_vars, UNCHANGED repair
  PROVE  RepairInv'
<1>1. RepairTypes'
  BY DEF RepairInv, RepairTypes, repair
<1>2. (\A w \in Attempts : Earned(attempt[w]))'
  BY DEF RepairInv, Earned, repair
<1>3. \A w \in Attempts : attempt[w].asked \in Requests \cup {NoRequest}
  BY DEF RepairInv, RepairTypes, RepairAttempt
<1>4. AskedOnce'
  BY <1>3, RequestsRemain DEF RepairInv, AskedOnce, repair
<1> QED
  BY <1>1, <1>2, <1>4 DEF RepairInv

\* The pipeline starts with no attempt.
LEMMA RepairInitInv == RepairInit => RepairInv
<1> SUFFICES ASSUME RepairInit PROVE RepairInv
  OBVIOUS
<1>1. NewAttempt \in RepairAttempt
  BY DEF NewAttempt, RepairAttempt, Stages, RepairStatus, Raised
<1>2. RepairTypes
  BY <1>1 DEF RepairInit, RepairTypes
<1>3. \A x \in Attempts : attempt[x].asked = NoRequest /\ Earned(attempt[x])
  BY DEF RepairInit, NewAttempt, Earned
<1> QED
  BY <1>2, <1>3 DEF RepairInv, AskedOnce

\* Each step of attempt_repair keeps the invariant.
LEMMA RepairStepKeeps ==
  ASSUME RepairInv, TypeOK, [Next]_vars, NEW a \in Actors, RepairStep(a)
  PROVE  RepairInv'
<1> DEFINE x == running[a]
           y == attempt[x]
<1>t. running \in [Actors -> Attempts \cup {NoAttempt}] /\ attempt \in [Attempts -> RepairAttempt]
  BY DEF RepairInv, RepairTypes
<1>e. \A w \in Attempts : Earned(attempt[w])
  BY DEF RepairInv
<1>1. ASSUME NEW w \in Attempts, Begin(a, w) PROVE RepairInv'
  <2>1. PICK gate \in BOOLEAN, compared \in BOOLEAN :
          attempt' = [attempt EXCEPT ![w] =
                        [NewAttempt EXCEPT !.stage = "patching", !.gate = gate, !.compared = compared]]
    BY <1>1 DEF Begin
  <2> DEFINE z == [NewAttempt EXCEPT !.stage = "patching", !.gate = gate, !.compared = compared]
  <2>2. z \in RepairAttempt
    BY DEF NewAttempt, RepairAttempt, Stages, RepairStatus, Raised
  <2>3. z.stage = "patching" /\ z.asked = NoRequest
    BY DEF NewAttempt
  <2>4. Earned(z)
    BY <2>3 DEF Earned
  <2>5. attempt[w].asked = NoRequest
    BY <1>1, <1>e DEF Begin, Earned
  <2>6. running' \in [Actors -> Attempts \cup {NoAttempt}]
    BY <1>1, <1>t DEF Begin
  <2> HIDE DEF z
  <2> QED
    BY <2>1, <2>2, <2>3, <2>4, <2>5, <2>6, UpdateKeeps DEF z
<1>2. ASSUME NEW stage \in Stages, In(a, stage), NEW z \in RepairAttempt, Earned(z),
             z.asked = y.asked, Becomes(a, z),
             running' = running \/ running' = [running EXCEPT ![a] = NoAttempt]
      PROVE  RepairInv'
  <2>1. x \in Attempts
    BY <1>2, <1>t DEF In
  <2>2. running' \in [Actors -> Attempts \cup {NoAttempt}]
    BY <1>2, <1>t
  <2> QED
    BY <1>2, <2>1, <2>2, UpdateKeeps DEF Becomes
<1>y. ASSUME NEW stage \in Stages, In(a, stage) PROVE y \in RepairAttempt /\ Earned(y)
  BY <1>y, <1>t, <1>e DEF In
<1>3. CASE Patch(a)
  <2>1. y \in RepairAttempt /\ Earned(y) /\ In(a, "patching") /\ y.stage = "patching" /\ "patching" \in Stages
    BY <1>3, <1>y DEF Patch, In, Stages
  <2>2. y.asked = NoRequest
    BY <2>1 DEF Earned
  <2>3. PICK z \in RepairAttempt :
          /\ z.asked = NoRequest /\ z.stage \in {"testing", "ended"} /\ Becomes(a, z)
          /\ running' = running \/ running' = [running EXCEPT ![a] = NoAttempt]
    BY <1>3, <2>1, <2>2 DEF Patch, Goes, Rejects, Raises, RepairAttempt, Stages, RepairStatus, Raised
  <2> QED
    BY <1>2, <2>1, <2>2, <2>3 DEF Earned
<1>4. CASE Test(a)
  <2>1. y \in RepairAttempt /\ Earned(y) /\ In(a, "testing") /\ y.stage = "testing" /\ "testing" \in Stages
    BY <1>4, <1>y DEF Test, In, Stages
  <2>2. y.asked = NoRequest
    BY <2>1 DEF Earned
  <2>3. PICK z \in RepairAttempt :
          /\ z.asked = NoRequest /\ z.stage \in {"comparing", "submitting", "ended"} /\ Becomes(a, z)
          /\ z.stage # "ended" => z.test_passed
          /\ z.stage = "submitting" => ~z.compared /\ z.status = "awaiting_approval"
          /\ running' = running \/ running' = [running EXCEPT ![a] = NoAttempt]
    BY <1>4, <2>1, <2>2
       DEF Test, Goes, Gate, Rejects, Raises, RepairAttempt, Stages, RepairStatus, Raised
  <2> QED
    BY <1>2, <2>1, <2>2, <2>3 DEF Earned
<1>5. CASE Compare(a)
  <2>1. y \in RepairAttempt /\ Earned(y) /\ In(a, "comparing") /\ y.stage = "comparing" /\ "comparing" \in Stages
    BY <1>5, <1>y DEF Compare, In, Stages
  <2>2. y.asked = NoRequest /\ y.test_passed
    BY <2>1 DEF Earned
  <2>3. PICK z \in RepairAttempt :
          /\ z.asked = NoRequest /\ z.stage \in {"submitting", "ended"} /\ Becomes(a, z)
          /\ z.stage = "submitting" =>
               z.test_passed /\ z.parity = "reached" /\ z.status = "awaiting_approval"
          /\ running' = running \/ running' = [running EXCEPT ![a] = NoAttempt]
    BY <1>5, <2>1, <2>2
       DEF Compare, Goes, Gate, Rejects, Raises, RepairAttempt, Stages, RepairStatus, Raised
  <2> QED
    BY <1>2, <2>1, <2>2, <2>3 DEF Earned
<1>6. CASE PassWithoutGate(a)
  <2>1. y \in RepairAttempt /\ Earned(y) /\ In(a, "submitting") /\ y.stage = "submitting" /\ "submitting" \in Stages
    BY <1>6, <1>y DEF PassWithoutGate, In, Stages
  <2>2. PICK z \in RepairAttempt :
          /\ z.asked = y.asked /\ z.stage = "ended" /\ Becomes(a, z)
          /\ running' = [running EXCEPT ![a] = NoAttempt]
    BY <1>6, <2>1 DEF PassWithoutGate, Raises, RepairAttempt, Stages, RepairStatus, Raised
  <2> QED
    BY <1>2, <2>1, <2>2 DEF Earned
<1>7. CASE Attach(a)
  <2>1. y \in RepairAttempt /\ Earned(y) /\ In(a, "attaching") /\ y.stage = "attaching" /\ "attaching" \in Stages
    BY <1>7, <1>y DEF Attach, In, Stages
  <2>2. PICK z \in RepairAttempt :
          /\ z.asked = y.asked /\ z.stage = "ended" /\ z.test_passed = y.test_passed
          /\ z.compared = y.compared /\ z.parity = y.parity /\ z.status = y.status
          /\ Becomes(a, z) /\ running' = [running EXCEPT ![a] = NoAttempt]
    BY <1>7, <2>1 DEF Attach, Raises, RepairAttempt, Stages, RepairStatus, Raised
  <2> QED
    BY <1>2, <2>1, <2>2 DEF Earned
<1>8. CASE RequestApproval(a)
  <2>1. y \in RepairAttempt /\ Earned(y) /\ In(a, "submitting") /\ y.stage = "submitting" /\ x \in Attempts
    BY <1>8, <1>y, <1>t DEF RequestApproval, In, Stages
  <2>2. PICK r \in Requests : Submit(a, r) /\ Goes(a, [y EXCEPT !.stage = "attaching", !.asked = r])
    BY <1>8 DEF RequestApproval
  <2> DEFINE z == [y EXCEPT !.stage = "attaching", !.asked = r]
  <2>3. z \in RepairAttempt /\ z.asked = r /\ Earned(z)
    BY <2>1 DEF RepairAttempt, Stages, Earned
  <2> HIDE DEF z
  <2>4. \A w \in Attempts : attempt'[w] = IF w = x THEN z ELSE attempt[w]
    BY <2>1, <2>2, <1>t DEF Goes, Becomes, z
  <2>5. RepairTypes'
    BY <2>1, <2>2, <2>3, <1>t DEF RepairTypes, Goes, Becomes, z
  <2>6. (\A w \in Attempts : Earned(attempt[w]))'
    <3> SUFFICES ASSUME NEW w \in Attempts PROVE Earned(attempt'[w])
      BY DEF Earned
    <3> QED
      BY <1>e, <2>3, <2>4
  <2>7. \A w \in Attempts : attempt[w].asked # r
    BY <2>2, RepairAssumption DEF RepairInv, AskedOnce, Submit
  <2>8. status'[r] # "absent"
    BY <2>2 DEF Submit, TypeOK
  <2>9. \A w \in Attempts : attempt[w].asked \in Requests \cup {NoRequest}
    BY <1>t DEF RepairAttempt
  <2>10. AskedOnce'
    BY <2>3, <2>4, <2>7, <2>8, <2>9, RequestsRemain DEF RepairInv, AskedOnce
  <2> QED
    BY <2>5, <2>6, <2>10 DEF RepairInv
<1> QED
  BY <1>1, <1>3, <1>4, <1>5, <1>6, <1>7, <1>8 DEF RepairStep

\* Every step of the pipeline keeps RepairInv.
LEMMA RepairNextKeeps ==
  RepairInv /\ TypeOK /\ [Next]_vars /\ [RepairNext]_rvars => RepairInv'
<1> SUFFICES ASSUME RepairInv, TypeOK, [Next]_vars, [RepairNext]_rvars PROVE RepairInv'
  OBVIOUS
<1>1. UNCHANGED repair => RepairInv'
  BY WorkflowKeeps
<1> QED
  BY <1>1, RepairStepKeeps DEF RepairNext, WorkflowStep, rvars

\* No human is asked about a patch that has not passed its tests and its parity
\* comparison, and no two attempts share a request (RequestsAreEarned).
THEOREM RequestsAreAlwaysEarned == RepairSpec => []RequestsAreEarned
<1>1. RepairInv => RequestsAreEarned
  BY DEF RepairInv, Earned, AskedOnce, RequestsAreEarned
<1> QED
  BY <1>1, RepairInitInv, RepairNextKeeps, RepairKeepsWorkflow, TypeCorrect, PTL
  DEF RepairSpec, Spec

-----------------------------------------------------------------------------
(* What the pipeline and its threads know of an outcome *)
\* What an attempt's status, its request and the error it ended with say of each other.
Known(y) ==
  /\ y.stage # "ended" => y.raised = "nothing" /\ y.status \notin {"rejected", "parity_failed"}
  /\ y.stage = "comparing" => y.status = "tested"
  /\ y.stage = "attaching" => y.asked # NoRequest
  /\ y.raised = "ShadowRepairError" <=> y.status \in {"rejected", "parity_failed"}
  /\ y.raised = "the parity function's" => y.status = "tested"
  /\ y.raised = "ApprovalRequiredError" =>
       /\ y.status = "awaiting_approval"
       /\ y.gate => y.request = y.asked /\ y.asked # NoRequest

\* A thread is alone in its attempt, which has begun and has not ended.
RunsAlone ==
  \A a \in Actors : running[a] # NoAttempt =>
    /\ attempt[running[a]].stage \notin {"absent", "ended"}
    /\ \A b \in Actors : running[b] = running[a] => b = a

\* The submission of an attempt's request is owed by nobody but the thread in it.
SubmissionsHeld ==
  \A x \in Attempts, b \in Actors :
    <<"approval_submitted", attempt[x].asked>> \in doing[b].owes => running[b] = x

\* A submission is owed only for a request that is there.
OwedAreThere ==
  \A b \in Actors, r \in Requests :
    <<"approval_submitted", r>> \in doing[b].owes => status[r] # "absent"

\* What the pipeline knows of its attempts, its threads and what they owe.
OutcomeInv ==
  /\ \A x \in Attempts : Known(attempt[x])
  /\ RunsAlone /\ SubmissionsHeld /\ OwedAreThere

\* A thread comes to owe a submission only by submitting.
LEMMA NewlyOwed ==
  ASSUME TypeOK, [Next]_vars, NEW b \in Actors, NEW r \in Requests,
         <<"approval_submitted", r>> \in doing'[b].owes
  PROVE  \/ <<"approval_submitted", r>> \in doing[b].owes
         \/ Submit(b, r)
<1>1. ASSUME NEW a \in Actors, NEW q \in Requests, Submit(a, q)
      PROVE  <<"approval_submitted", r>> \in doing[b].owes \/ Submit(b, r)
  <2>1. CASE b = a
    <3>1. <<"approval_submitted", r>> \in {<<"approval_submitted", q>>}
      BY <1>1, <2>1 DEF Submit, Owes, TypeOK
    <3> QED
      BY <1>1, <2>1, <3>1
  <2>2. CASE b # a
    BY <1>1, <2>2 DEF Submit, Owes, TypeOK
  <2> QED
    BY <2>1, <2>2
<1>2. ASSUME NEW a \in Actors, NEW q \in Requests, Approve(a, q)
      PROVE  <<"approval_submitted", r>> \in doing[b].owes
  BY <1>2 DEF Approve, Owes, TypeOK
<1>3. ASSUME NEW a \in Actors, NEW q \in Requests, Reject(a, q)
      PROVE  <<"approval_submitted", r>> \in doing[b].owes
  BY <1>3 DEF Reject, Owes, TypeOK
<1>4. ASSUME NEW a \in Actors, CheckSlaEscalate(a)
      PROVE  <<"approval_submitted", r>> \in doing[b].owes
  <2> DEFINE breached == Breached(doing[a].read)
  <2>1. Owes(a, {"approval_sla_breached"} \X breached)
    BY <1>4 DEF CheckSlaEscalate
  <2> HIDE DEF breached
  <2>2. <<"approval_submitted", r>> \notin {"approval_sla_breached"} \X breached
    OBVIOUS
  <2>3. doing' = [doing EXCEPT ![a] = [owes |-> {"approval_sla_breached"} \X breached,
                                      read |-> Never]]
    BY <2>1 DEF Owes
  <2>4. b # a
    <3> SUFFICES ASSUME b = a PROVE FALSE
      OBVIOUS
    <3>1. doing'[a].owes = {"approval_sla_breached"} \X breached
      BY <2>3 DEF TypeOK
    <3> QED
      BY <2>2, <3>1
  <2>5. doing'[b] = doing[b]
    <3> DEFINE v == [owes |-> {"approval_sla_breached"} \X breached, read |-> Never]
    <3>1. doing' = [doing EXCEPT ![a] = v]
      BY <2>3
    <3> HIDE DEF v
    <3> QED
      BY <2>4, <3>1 DEF TypeOK
  <2> QED
    BY <2>5
<1>5. ASSUME NEW a \in Actors, CheckSlaRead(a) \/ Audit(a)
      PROVE  <<"approval_submitted", r>> \in doing[b].owes
  <2>1. CASE CheckSlaRead(a)
    BY <2>1 DEF CheckSlaRead, TypeOK
  <2>2. CASE Audit(a)
    <3>1. PICK ev : doing' = [doing EXCEPT ![a].owes = @ \ {ev}]
      BY <2>2 DEF Audit
    <3> QED
      BY <3>1 DEF TypeOK
  <2> QED
    BY <1>5, <2>1, <2>2
<1>6. ASSUME Tick \/ UNCHANGED vars
      PROVE  <<"approval_submitted", r>> \in doing[b].owes
  BY <1>6 DEF Tick, vars
<1> QED
  BY <1>1, <1>2, <1>3, <1>4, <1>5, <1>6 DEF Next

\* What a thread owes is of requests that are there, whatever step is taken.
LEMMA OwedStayThere ==
  ASSUME TypeOK, [Next]_vars, OwedAreThere
  PROVE  OwedAreThere'
<1> SUFFICES ASSUME NEW b \in Actors, NEW r \in Requests,
                    <<"approval_submitted", r>> \in doing'[b].owes
             PROVE  status'[r] # "absent"
  BY DEF OwedAreThere
<1>1. CASE <<"approval_submitted", r>> \in doing[b].owes
  BY <1>1, RequestsRemain DEF OwedAreThere
<1>2. CASE Submit(b, r)
  BY <1>2 DEF Submit, TypeOK
<1> QED
  BY <1>1, <1>2, NewlyOwed

\* A step of the workflow keeps what the pipeline knows.
LEMMA WorkflowKeepsOutcome ==
  ASSUME RepairInv, TypeOK, TypeOK', OutcomeInv, [Next]_vars, UNCHANGED repair
  PROVE  OutcomeInv'
<1>1. OwedAreThere'
  BY OwedStayThere DEF OutcomeInv
<1>2. RunsAlone' /\ (\A x \in Attempts : Known(attempt[x]))'
  BY DEF repair, OutcomeInv, RunsAlone, Known
<1>3. SubmissionsHeld'
  <2> SUFFICES ASSUME NEW x \in Attempts, NEW b \in Actors,
                      <<"approval_submitted", attempt[x].asked>> \in doing'[b].owes
               PROVE  running[b] = x
    BY DEF repair, SubmissionsHeld
  <2>1. attempt[x].asked \in Requests
    <3>1. <<"approval_submitted", attempt[x].asked>> \in Events \X Requests
      BY DEF TypeOK
    <3> QED
      BY <3>1
  <2>2. status[attempt[x].asked] # "absent"
    BY <2>1, RepairAssumption DEF RepairInv, AskedOnce
  <2>3. <<"approval_submitted", attempt[x].asked>> \in doing[b].owes
    BY <2>1, <2>2, NewlyOwed DEF Submit
  <2> QED
    BY <2>3 DEF OutcomeInv, SubmissionsHeld
<1> QED
  BY <1>1, <1>2, <1>3 DEF OutcomeInv

\* A thread outside every attempt may begin one.
LEMMA BeginKeepsOutcome ==
  ASSUME RepairInv, TypeOK, OutcomeInv, NEW a \in Actors, NEW x \in Attempts, Begin(a, x)
  PROVE  OutcomeInv'
<1>1. /\ UNCHANGED vars /\ running' = [running EXCEPT ![a] = x] /\ running[a] = NoAttempt
      /\ attempt[x].stage = "absent"
  BY DEF Begin
<1>2. PICK gate \in BOOLEAN, compared \in BOOLEAN :
        attempt' = [attempt EXCEPT ![x] =
                      [NewAttempt EXCEPT !.stage = "patching", !.gate = gate, !.compared = compared]]
  BY DEF Begin
<1> DEFINE z == [NewAttempt EXCEPT !.stage = "patching", !.gate = gate, !.compared = compared]
<1>3. Known(z) /\ z.stage = "patching" /\ z.asked = NoRequest
  BY DEF NewAttempt, Known
<1>4. attempt[x].asked = NoRequest
  BY <1>1 DEF RepairInv, Earned
<1> HIDE DEF z
<1>5. \A w \in Attempts : attempt'[w] = IF w = x THEN z ELSE attempt[w]
  BY <1>2 DEF z, RepairInv, RepairTypes
<1>6. \A w \in Attempts : Known(attempt'[w])
  BY <1>3, <1>5 DEF OutcomeInv
<1>7. \A b \in Actors : running'[b] = IF b = a THEN x ELSE running[b]
  BY <1>1 DEF RepairInv, RepairTypes
<1>t. \A b \in Actors : running[b] \in Attempts \cup {NoAttempt}
  BY DEF RepairInv, RepairTypes
<1>8. RunsAlone'
  <2>1. \A b \in Actors : running[b] # x
    BY <1>1, RepairAssumption DEF OutcomeInv, RunsAlone
  <2> SUFFICES ASSUME NEW c \in Actors, running'[c] # NoAttempt
               PROVE  /\ attempt'[running'[c]].stage \notin {"absent", "ended"}
                      /\ \A b \in Actors : running'[b] = running'[c] => b = c
    BY DEF RunsAlone
  <2>2. CASE c = a
    BY <1>3, <1>5, <1>7, <2>1, <2>2
  <2>3. CASE c # a
    <3>1. running'[c] = running[c] /\ running[c] \in Attempts /\ running[c] # x
      BY <1>7, <1>t, <2>1, <2>3
    <3>2. attempt'[running'[c]] = attempt[running[c]]
      BY <1>5, <3>1
    <3> QED
      BY <1>7, <3>1, <3>2, RepairAssumption DEF OutcomeInv, RunsAlone
  <2> QED
    BY <2>2, <2>3
<1>9. SubmissionsHeld'
  <2> SUFFICES ASSUME NEW w \in Attempts, NEW b \in Actors,
                      <<"approval_submitted", attempt'[w].asked>> \in doing'[b].owes
               PROVE  running'[b] = w
    BY DEF SubmissionsHeld
  <2>1. attempt'[w].asked = attempt[w].asked /\ doing' = doing
    BY <1>1, <1>3, <1>4, <1>5 DEF vars
  <2>2. running[b] = w /\ w # NoAttempt
    BY <2>1, RepairAssumption DEF OutcomeInv, SubmissionsHeld
  <2> QED
    BY <1>1, <1>7, <2>2
<1>10. OwedAreThere'
  BY <1>1 DEF vars, record, OutcomeInv, OwedAreThere
<1> QED
  BY <1>6, <1>8, <1>9, <1>10 DEF OutcomeInv

\* A step that leaves the workflow alone and takes the attempt of its thread to a value
\* z that is known keeps the invariant, if whoever ends an attempt owes nothing of it.
LEMMA RunKeepsOutcome ==
  ASSUME RepairInv, TypeOK, OutcomeInv, UNCHANGED vars,
         NEW a \in Actors, running[a] # NoAttempt,
         NEW z, Becomes(a, z), Known(z), z.asked = attempt[running[a]].asked,
         \/ z.stage \notin {"absent", "ended"} /\ UNCHANGED running
         \/ /\ z.stage = "ended" /\ running' = [running EXCEPT ![a] = NoAttempt]
            /\ <<"approval_submitted", z.asked>> \notin doing[a].owes
  PROVE  OutcomeInv'
<1> DEFINE x == running[a]
<1>t. \A b \in Actors : running[b] \in Attempts \cup {NoAttempt}
  BY DEF RepairInv, RepairTypes
<1>1. x \in Attempts
  BY <1>t
<1> HIDE DEF x
<1>2. \A w \in Attempts : attempt'[w] = IF w = x THEN z ELSE attempt[w]
  BY <1>1 DEF Becomes, RepairInv, RepairTypes, x
<1>3. \A w \in Attempts : Known(attempt'[w]) /\ attempt'[w].asked = attempt[w].asked
  BY <1>1, <1>2 DEF OutcomeInv, x
<1>4. \A b \in Actors : b # a => running'[b] = running[b]
  BY DEF RepairInv, RepairTypes
<1>5. \A b \in Actors : running[b] = x => b = a
  BY <1>1 DEF OutcomeInv, RunsAlone, x
<1>6. \/ running'[a] = x /\ z.stage \notin {"absent", "ended"}
      \/ running'[a] = NoAttempt /\ <<"approval_submitted", z.asked>> \notin doing[a].owes
  BY DEF RepairInv, RepairTypes, x
<1>7. RunsAlone'
  <2> SUFFICES ASSUME NEW c \in Actors, running'[c] # NoAttempt
               PROVE  /\ attempt'[running'[c]].stage \notin {"absent", "ended"}
                      /\ \A b \in Actors : running'[b] = running'[c] => b = c
    BY DEF RunsAlone
  <2>1. CASE c = a
    <3>1. running'[a] = x /\ z.stage \notin {"absent", "ended"}
      BY <1>6, <2>1
    <3> QED
      BY <1>1, <1>2, <1>4, <1>5, <2>1, <3>1
  <2>2. CASE c # a
    <3>1. running'[c] = running[c] /\ running[c] \in Attempts /\ running[c] # x
      BY <1>4, <1>5, <1>t, <2>2
    <3>2. attempt'[running'[c]] = attempt[running[c]]
      BY <1>2, <3>1
    <3>3. \A b \in Actors : running[b] = running[c] => b = c
      BY <3>1, RepairAssumption DEF OutcomeInv, RunsAlone
    <3>4. attempt[running[c]].stage \notin {"absent", "ended"}
      BY <3>1, RepairAssumption DEF OutcomeInv, RunsAlone
    <3>5. running'[a] # running[c]
      BY <1>6, <3>1, RepairAssumption
    <3> QED
      BY <1>4, <3>1, <3>2, <3>3, <3>4, <3>5
  <2> QED
    BY <2>1, <2>2
<1>8. SubmissionsHeld'
  <2> SUFFICES ASSUME NEW w \in Attempts, NEW b \in Actors,
                      <<"approval_submitted", attempt'[w].asked>> \in doing'[b].owes
               PROVE  running'[b] = w
    BY DEF SubmissionsHeld
  <2>1. <<"approval_submitted", attempt[w].asked>> \in doing[b].owes
    BY <1>3 DEF vars
  <2>2. running[b] = w
    BY <2>1 DEF OutcomeInv, SubmissionsHeld
  <2>3. CASE b # a
    BY <1>4, <2>2, <2>3
  <2>4. CASE b = a
    <3>1. w = x /\ z.asked = attempt[w].asked
      BY <2>2, <2>4 DEF x
    <3> QED
      BY <1>6, <2>1, <2>4, <3>1
  <2> QED
    BY <2>3, <2>4
<1>9. OwedAreThere'
  BY DEF vars, record, OutcomeInv, OwedAreThere
<1> QED
  BY <1>3, <1>7, <1>8, <1>9 DEF OutcomeInv

\* An attempt that ends with an error its status explains is known.
LEMMA RaisedKnown ==
  ASSUME NEW y \in RepairAttempt, NEW error,
         error = "ShadowRepairError" <=> y.status \in {"rejected", "parity_failed"},
         error = "the parity function's" => y.status = "tested",
         error = "ApprovalRequiredError" =>
           /\ y.status = "awaiting_approval"
           /\ y.gate => y.request = y.asked /\ y.asked # NoRequest
  PROVE  LET z == [y EXCEPT !.stage = "ended", !.raised = error]
         IN  Known(z) /\ z.stage = "ended" /\ z.asked = y.asked
BY DEF RepairAttempt, Known

\* Each step of attempt_repair keeps what the pipeline knows.
LEMMA RepairStepKeepsOutcome ==
  ASSUME RepairInv, TypeOK, OutcomeInv, [Next]_vars, NEW a \in Actors, RepairStep(a)
  PROVE  OutcomeInv'
<1> DEFINE x == running[a]
           y == attempt[x]
<1>y. ASSUME NEW stage, In(a, stage)
      PROVE  y \in RepairAttempt /\ Earned(y) /\ Known(y) /\ y.stage = stage /\ x # NoAttempt
  BY <1>y DEF In, RepairInv, RepairTypes, OutcomeInv
<1>1. ASSUME NEW w \in Attempts, Begin(a, w) PROVE OutcomeInv'
  BY <1>1, BeginKeepsOutcome
<1>n. ASSUME UNCHANGED vars, x # NoAttempt, y.asked = NoRequest,
             NEW z, Becomes(a, z), Known(z), z.asked = NoRequest,
             \/ z.stage \notin {"absent", "ended"} /\ UNCHANGED running
             \/ z.stage = "ended" /\ running' = [running EXCEPT ![a] = NoAttempt]
      PROVE  OutcomeInv'
  <2>1. <<"approval_submitted", NoRequest>> \notin doing[a].owes
    BY RepairAssumption DEF TypeOK
  <2> QED
    BY <1>n, <2>1, RunKeepsOutcome
<1>r. ASSUME UNCHANGED vars, x # NoAttempt, y.asked = NoRequest, y \in RepairAttempt,
             Rejects(a, y)
      PROVE  OutcomeInv'
  <2> DEFINE u == [y EXCEPT !.status = "rejected"]
             z == [u EXCEPT !.stage = "ended", !.raised = "ShadowRepairError"]
  <2>1. u \in RepairAttempt /\ u.status = "rejected" /\ u.asked = NoRequest
    BY <1>r DEF RepairAttempt, RepairStatus
  <2> HIDE DEF u
  <2>2. Known(z) /\ z.stage = "ended" /\ z.asked = NoRequest
    BY <2>1, RaisedKnown
  <2> HIDE DEF z
  <2>3. Becomes(a, z) /\ running' = [running EXCEPT ![a] = NoAttempt]
    BY <1>r DEF Rejects, Raises, z, u
  <2> QED
    BY <1>r, <1>n, <2>2, <2>3
<1>2. CASE Patch(a)
  <2>1. y \in RepairAttempt /\ Known(y) /\ y.stage = "patching" /\ x # NoAttempt
    BY <1>2, <1>y DEF Patch
  <2>2. y.asked = NoRequest /\ UNCHANGED vars
    BY <1>2, <1>y DEF Patch, Earned
  <2> DEFINE z == [y EXCEPT !.stage = "testing", !.status = "patched"]
  <2>3. Known(z) /\ z.stage = "testing" /\ z.asked = NoRequest
    BY <2>1, <2>2 DEF RepairAttempt, Known
  <2> HIDE DEF z
  <2>4. ASSUME Goes(a, z) PROVE OutcomeInv'
    BY <1>n, <2>1, <2>2, <2>3, <2>4 DEF Goes
  <2> QED
    BY <1>2, <1>r, <2>1, <2>2, <2>4 DEF Patch, z
<1>3. CASE Test(a)
  <2>1. y \in RepairAttempt /\ Known(y) /\ y.stage = "testing" /\ x # NoAttempt
    BY <1>3, <1>y DEF Test
  <2>2. y.asked = NoRequest /\ UNCHANGED vars
    BY <1>3, <1>y DEF Test, Earned
  <2> DEFINE v == [y EXCEPT !.status = "tested", !.test_passed = TRUE]
             z == IF y.compared THEN [v EXCEPT !.stage = "comparing"] ELSE Gate(v)
  <2>3. /\ v \in RepairAttempt /\ v.status = "tested" /\ v.asked = NoRequest
        /\ v.raised = "nothing"
    BY <2>1, <2>2 DEF RepairAttempt, RepairStatus, Known
  <2> HIDE DEF v
  <2>4. Known(z) /\ z.stage \notin {"absent", "ended"} /\ z.asked = NoRequest
    <3>1. CASE y.compared
      BY <2>3, <3>1 DEF RepairAttempt, Known
    <3>2. CASE ~y.compared
      BY <2>3, <3>2 DEF RepairAttempt, Known, Gate
    <3> QED
      BY <3>1, <3>2
  <2> HIDE DEF z
  <2>5. ASSUME Goes(a, z) PROVE OutcomeInv'
    BY <1>n, <2>1, <2>2, <2>4, <2>5 DEF Goes
  <2>6. Goes(a, z) \/ Rejects(a, y)
    BY <1>3, Zenon DEF Test, z, v
  <2> QED
    BY <1>r, <2>1, <2>2, <2>5, <2>6
<1>4. CASE Compare(a)
  <2>1. y \in RepairAttempt /\ Known(y) /\ y.stage = "comparing" /\ x # NoAttempt
    BY <1>4, <1>y DEF Compare
  <2>2. y.asked = NoRequest /\ UNCHANGED vars
    <3>1. UNCHANGED vars
      BY <1>4, Zenon DEF Compare
    <3>2. In(a, "comparing")
      BY <1>4, Zenon DEF Compare
    <3> QED
      BY <2>1, <3>1, <3>2, <1>y DEF Earned
  <2> DEFINE u == [y EXCEPT !.parity = "reached"]
             v == [y EXCEPT !.parity = "below", !.status = "parity_failed"]
             e == [v EXCEPT !.stage = "ended", !.raised = "ShadowRepairError"]
             p == [y EXCEPT !.stage = "ended", !.raised = "the parity function's"]
  <2>3. \/ Goes(a, Gate(u)) \/ Raises(a, v, "ShadowRepairError")
        \/ Rejects(a, y) \/ Raises(a, y, "the parity function's")
    BY <1>4, Zenon DEF Compare
  <2>4. ASSUME Goes(a, Gate(u)) PROVE OutcomeInv'
    <3> DEFINE z == Gate(u)
    <3>1. u \in RepairAttempt /\ u.asked = NoRequest /\ u.raised = "nothing"
      BY <2>1, <2>2 DEF RepairAttempt, Known
    <3> HIDE DEF u
    <3>2. Known(z) /\ z.stage = "submitting" /\ z.asked = NoRequest
      BY <3>1 DEF RepairAttempt, Known, Gate
    <3> HIDE DEF z
    <3>3. Becomes(a, z) /\ UNCHANGED running
      BY <2>4 DEF Goes, z
    <3> QED
      BY <1>n, <2>1, <2>2, <3>2, <3>3
  <2>5. ASSUME Raises(a, v, "ShadowRepairError") PROVE OutcomeInv'
    <3>1. v \in RepairAttempt /\ v.asked = NoRequest /\ v.status = "parity_failed"
      BY <2>1, <2>2 DEF RepairAttempt, RepairStatus
    <3> HIDE DEF v
    <3>2. Known(e) /\ e.stage = "ended" /\ e.asked = NoRequest
      BY <3>1, RaisedKnown
    <3> HIDE DEF e
    <3>3. Becomes(a, e) /\ running' = [running EXCEPT ![a] = NoAttempt]
      BY <2>5 DEF Raises, e
    <3> QED
      BY <1>n, <2>1, <2>2, <3>2, <3>3
  <2>6. ASSUME Raises(a, y, "the parity function's") PROVE OutcomeInv'
    <3>1. y.status = "tested"
      BY <2>1 DEF Known
    <3>2. Known(p) /\ p.stage = "ended" /\ p.asked = NoRequest
      BY <2>1, <2>2, <3>1, RaisedKnown
    <3> HIDE DEF p
    <3>3. Becomes(a, p) /\ running' = [running EXCEPT ![a] = NoAttempt]
      BY <2>6 DEF Raises, p
    <3> QED
      BY <1>n, <2>1, <2>2, <3>2, <3>3
  <2> QED
    BY <1>r, <2>1, <2>2, <2>3, <2>4, <2>5, <2>6
<1>5. CASE PassWithoutGate(a)
  <2>1. y \in RepairAttempt /\ Known(y) /\ y.stage = "submitting" /\ x # NoAttempt
    BY <1>5, <1>y DEF PassWithoutGate
  <2>2. y.asked = NoRequest /\ y.status = "awaiting_approval" /\ ~y.gate /\ UNCHANGED vars
    BY <1>5, <1>y DEF PassWithoutGate, Earned
  <2> DEFINE z == [y EXCEPT !.stage = "ended", !.raised = "ApprovalRequiredError"]
  <2>3. Known(z) /\ z.stage = "ended" /\ z.asked = NoRequest
    BY <2>1, <2>2, RaisedKnown
  <2>4. Becomes(a, z) /\ running' = [running EXCEPT ![a] = NoAttempt]
    BY <1>5 DEF PassWithoutGate, Raises
  <2> HIDE DEF z
  <2> QED
    BY <1>n, <2>1, <2>2, <2>3, <2>4
<1>6. CASE Attach(a)
  <2>1. y \in RepairAttempt /\ Known(y) /\ y.stage = "attaching" /\ x # NoAttempt
    BY <1>6, <1>y DEF Attach
  <2>2. y.asked # NoRequest
    BY <2>1 DEF Known
  <2>3. y.status = "awaiting_approval"
    BY <2>2, <1>6, <1>y DEF Attach, Earned
  <2>4. UNCHANGED vars /\ doing[a].owes = {}
    BY <1>6 DEF Attach, Free, NothingToDo
  <2> DEFINE u == [y EXCEPT !.request = y.asked]
             z == [u EXCEPT !.stage = "ended", !.raised = "ApprovalRequiredError"]
  <2>5. /\ u \in RepairAttempt /\ u.request = u.asked /\ u.asked = y.asked
        /\ u.status = "awaiting_approval"
    BY <2>1, <2>3 DEF RepairAttempt
  <2> HIDE DEF u
  <2>6. Known(z) /\ z.stage = "ended" /\ z.asked = y.asked
    BY <2>2, <2>5, RaisedKnown
  <2>7. Becomes(a, z) /\ running' = [running EXCEPT ![a] = NoAttempt]
    BY <1>6 DEF Attach, Raises, u
  <2> HIDE DEF z
  <2> QED
    BY <2>1, <2>4, <2>6, <2>7, RunKeepsOutcome
<1>7. CASE RequestApproval(a)
  <2>1. y \in RepairAttempt /\ Known(y) /\ y.stage = "submitting" /\ x \in Attempts
        /\ y.asked = NoRequest
    BY <1>7, <1>y DEF RequestApproval, Earned, RepairInv, RepairTypes
  <2>2. PICK r \in Requests : Submit(a, r) /\ Goes(a, [y EXCEPT !.stage = "attaching", !.asked = r])
    BY <1>7 DEF RequestApproval
  <2> DEFINE z == [y EXCEPT !.stage = "attaching", !.asked = r]
  <2>3. Known(z) /\ z.asked = r /\ z.stage = "attaching" /\ r # NoRequest
    BY <2>1, RepairAssumption DEF RepairAttempt, Known
  <2> HIDE DEF z
  <2>4. (\A w \in Attempts : attempt'[w] = IF w = x THEN z ELSE attempt[w])
        /\ UNCHANGED running
    BY <2>1, <2>2 DEF Goes, Becomes, z, RepairInv, RepairTypes
  <2>5. \A w \in Attempts : Known(attempt'[w])
    BY <2>3, <2>4 DEF OutcomeInv
  <2>6. RunsAlone'
    BY <2>3, <2>4 DEF OutcomeInv, RunsAlone, RepairInv, RepairTypes
  <2>7. SubmissionsHeld'
    <3> SUFFICES ASSUME NEW w \in Attempts, NEW b \in Actors,
                        <<"approval_submitted", attempt'[w].asked>> \in doing'[b].owes
                 PROVE  running[b] = w
      BY <2>4 DEF SubmissionsHeld
    <3>1. \A c \in Actors : doing'[c].owes = IF c = a THEN {<<"approval_submitted", r>>}
                                                    ELSE doing[c].owes
      BY <2>2 DEF Submit, Owes, TypeOK
    <3>2. CASE b = a
      <4>1. attempt'[w].asked = r
        BY <3>1, <3>2
      <4>2. w # x => attempt[w].asked # r
        BY <2>2, <2>3 DEF RepairInv, AskedOnce, Submit
      <4> QED
        BY <2>4, <3>2, <4>1, <4>2
    <3>3. CASE b # a /\ w = x
      <4>1. <<"approval_submitted", r>> \in doing[b].owes
        BY <2>3, <2>4, <3>1, <3>3
      <4> QED
        BY <2>2, <4>1 DEF OutcomeInv, OwedAreThere, Submit
    <3>4. CASE b # a /\ w # x
      BY <2>4, <3>1, <3>4 DEF OutcomeInv, SubmissionsHeld
    <3> QED
      BY <3>2, <3>3, <3>4
  <2>8. OwedAreThere'
    BY OwedStayThere DEF OutcomeInv
  <2> QED
    BY <2>5, <2>6, <2>7, <2>8 DEF OutcomeInv
<1> QED
  BY <1>1, <1>2, <1>3, <1>4, <1>5, <1>6, <1>7 DEF RepairStep

\* The pipeline starts with nothing to know.
LEMMA InitOutcome == RepairInit => OutcomeInv
<1> SUFFICES ASSUME RepairInit PROVE OutcomeInv
  OBVIOUS
<1>1. \A x \in Attempts : Known(attempt[x])
  BY DEF RepairInit, NewAttempt, Known
<1>2. RunsAlone
  BY DEF RepairInit, RunsAlone
<1>3. \A b \in Actors : doing[b].owes = {}
  BY DEF RepairInit, Init, NothingToDo
<1> QED
  BY <1>1, <1>2, <1>3 DEF OutcomeInv, SubmissionsHeld, OwedAreThere

\* An attempt whose submission nobody owes finds it in the trail, once.
LEMMA KnownOutcomes ==
  ASSUME RepairInv, TypeOK, OutcomeInv, TrailAccountsForAll
  PROVE  OutcomesAreKnown
<1> SUFFICES ASSUME NEW x \in Attempts, attempt[x].raised = "ApprovalRequiredError",
                    attempt[x].gate
             PROVE  /\ attempt[x].request \in Requests
                    /\ trail[attempt[x].request]["approval_submitted"] = 1
  BY DEF OutcomeInv, Known, OutcomesAreKnown
<1> DEFINE r == attempt[x].request
<1>1. /\ r = attempt[x].asked /\ r # NoRequest
      /\ attempt[x].stage = "ended" /\ r \in Requests
  BY DEF OutcomeInv, Known, RepairInv, RepairTypes, RepairAttempt
<1>2. status[r] # "absent"
  BY <1>1 DEF RepairInv, AskedOnce
<1>3. \A b \in Actors : <<"approval_submitted", r>> \notin doing[b].owes
  BY <1>1, RepairAssumption DEF OutcomeInv, SubmissionsHeld, RunsAlone
<1>4. Owed("approval_submitted", r) = 0
  <2>1. {b \in Actors : <<"approval_submitted", r>> \in doing[b].owes} = {}
    BY <1>3
  <2> QED
    BY <2>1, FS_EmptySet DEF Owed
<1>5. trail[r]["approval_submitted"] + Owed("approval_submitted", r) = 1
  BY <1>1, <1>2 DEF TrailAccountsForAll
<1>6. trail[r]["approval_submitted"] \in Nat
  BY <1>1 DEF TypeOK, Events
<1> QED
  BY <1>1, <1>4, <1>5, <1>6

\* What attempt_repair raises says what became of its attempt (OutcomesAreKnown).
THEOREM OutcomesAreAlwaysKnown == RepairSpec => []OutcomesAreKnown
<1>1. TypeOK /\ TypeOK' /\ [Next]_vars /\ RepairInv /\ OutcomeInv /\ [RepairNext]_rvars
        => OutcomeInv'
  <2> SUFFICES ASSUME TypeOK, TypeOK', [Next]_vars, RepairInv, OutcomeInv, [RepairNext]_rvars
               PROVE  OutcomeInv'
    OBVIOUS
  <2>1. UNCHANGED repair => OutcomeInv'
    BY WorkflowKeepsOutcome
  <2> QED
    BY <2>1, RepairStepKeepsOutcome DEF RepairNext, WorkflowStep, rvars
<1>2. RepairInv /\ TypeOK /\ OutcomeInv /\ TrailAccountsForAll => OutcomesAreKnown
  BY KnownOutcomes
<1> QED
  BY <1>1, <1>2, RepairInitInv, RepairNextKeeps, InitOutcome, RepairKeepsWorkflow, TypeCorrect,
     TrailAlwaysAccounts, PTL DEF RepairSpec, Spec

-----------------------------------------------------------------------------
(* Types *)

\* An attempt under way has a thread in it: with RunsAlone, it has exactly one.
Manned ==
  \A x \in Attempts :
    attempt[x].stage \notin {"absent", "ended"} => \E b \in Actors : running[b] = x

\* A thread leaves an attempt in the step that ends it.
LEMMA RepairStepKeepsManned ==
  ASSUME RepairTypes, RunsAlone, Manned, NEW a \in Actors, RepairStep(a)
  PROVE  Manned'
<1> SUFFICES ASSUME NEW w \in Attempts, attempt'[w].stage \notin {"absent", "ended"}
             PROVE  \E b \in Actors : running'[b] = w
  BY DEF Manned
<1>t. attempt \in [Attempts -> RepairAttempt] /\ running \in [Actors -> Attempts \cup {NoAttempt}]
  BY DEF RepairTypes
<1>1. ASSUME NEW x \in Attempts, Begin(a, x) PROVE \E b \in Actors : running'[b] = w
  <2>1. running[a] = NoAttempt /\ running' = [running EXCEPT ![a] = x]
    BY <1>1 DEF Begin
  <2>2. PICK z : attempt' = [attempt EXCEPT ![x] = z]
    BY <1>1 DEF Begin
  <2>3. CASE w = x
    BY <1>t, <2>1, <2>3
  <2>4. CASE w # x
    <3>1. PICK b \in Actors : running[b] = w
      BY <1>t, <2>2, <2>4 DEF Manned
    <3>2. b # a
      BY <2>1, <3>1, RepairAssumption
    <3> QED
      BY <1>t, <2>1, <3>1, <3>2
  <2> QED
    BY <2>3, <2>4
<1>2. ASSUME NEW z, running[a] # NoAttempt, Becomes(a, z),
             \/ UNCHANGED running
             \/ z.stage = "ended" /\ running' = [running EXCEPT ![a] = NoAttempt]
      PROVE  \E b \in Actors : running'[b] = w
  <2>1. attempt' = [attempt EXCEPT ![running[a]] = z] /\ running[a] \in Attempts
    BY <1>2, <1>t DEF Becomes
  <2>2. CASE w = running[a]
    <3>1. attempt'[w] = z
      BY <1>t, <2>1, <2>2
    <3> QED
      BY <1>2, <2>2, <3>1
  <2>3. CASE w # running[a]
    <3>1. PICK b \in Actors : running[b] = w
      BY <1>t, <2>1, <2>3 DEF Manned
    <3> QED
      BY <1>2, <1>t, <2>3, <3>1
  <2> QED
    BY <2>2, <2>3
<1>3. ASSUME NEW z, running[a] # NoAttempt, Goes(a, z)
      PROVE  \E b \in Actors : running'[b] = w
  BY <1>2, <1>3 DEF Goes
<1>4. ASSUME NEW z \in RepairAttempt, NEW error, running[a] # NoAttempt, Raises(a, z, error)
      PROVE  \E b \in Actors : running'[b] = w
  <2> DEFINE ended == [z EXCEPT !.stage = "ended", !.raised = error]
  <2>1. ended.stage = "ended"
    BY DEF RepairAttempt
  <2>2. Becomes(a, ended) /\ running' = [running EXCEPT ![a] = NoAttempt]
    BY <1>4 DEF Raises
  <2> HIDE DEF ended
  <2> QED
    BY <1>2, <1>4, <2>1, <2>2
<1> DEFINE y == attempt[running[a]]
<1>5. running[a] # NoAttempt => y \in RepairAttempt
  BY <1>t
<1>6. CASE Patch(a) \/ Test(a)
  <2>1. running[a] # NoAttempt
    BY <1>6 DEF Patch, Test, In
  <2>2. [y EXCEPT !.status = "rejected"] \in RepairAttempt
    BY <1>5, <2>1 DEF RepairAttempt, RepairStatus
  <2>3. (\E z : Goes(a, z)) \/ Rejects(a, y)
    BY <1>6 DEF Patch, Test
  <2> QED
    BY <1>3, <1>4, <2>1, <2>2, <2>3 DEF Rejects
<1>7. CASE Compare(a)
  <2>1. running[a] # NoAttempt
    BY <1>7 DEF Compare, In
  <2>2. /\ [y EXCEPT !.status = "rejected"] \in RepairAttempt
        /\ [y EXCEPT !.parity = "below", !.status = "parity_failed"] \in RepairAttempt
    BY <1>5, <2>1 DEF RepairAttempt, RepairStatus
  <2>3. \/ \E z : Goes(a, z)
        \/ Rejects(a, y)
        \/ Raises(a, [y EXCEPT !.parity = "below", !.status = "parity_failed"], "ShadowRepairError")
        \/ Raises(a, y, "the parity function's")
    BY <1>7 DEF Compare
  <2> QED
    BY <1>3, <1>4, <1>5, <2>1, <2>2, <2>3 DEF Rejects
<1>8. CASE RequestApproval(a)
  BY <1>3, <1>8 DEF RequestApproval, In
<1>9. CASE PassWithoutGate(a)
  BY <1>4, <1>5, <1>9 DEF PassWithoutGate, In
<1>10. CASE Attach(a)
  <2>1. running[a] # NoAttempt /\ Raises(a, [y EXCEPT !.request = y.asked], "ApprovalRequiredError")
    BY <1>10 DEF Attach, In
  <2>2. [y EXCEPT !.request = y.asked] \in RepairAttempt
    BY <1>5, <2>1 DEF RepairAttempt
  <2> QED
    BY <1>4, <2>1, <2>2
<1> QED
  BY <1>1, <1>6, <1>7, <1>8, <1>9, <1>10 DEF RepairStep

\* RepairTypeOK: attempts, requests and trail keep their types, and an attempt is under way
\* if and only if some thread is in attempt_repair for it.
THEOREM RepairTypeCorrect == RepairSpec => []RepairTypeOK
<1>1. RepairInit => Manned
  BY DEF RepairInit, NewAttempt, Manned
<1>2. RepairInv /\ OutcomeInv /\ Manned /\ [RepairNext]_rvars => Manned'
  <2>1. UNCHANGED repair /\ Manned => Manned'
    BY DEF repair, Manned
  <2> QED
    BY <2>1, RepairStepKeepsManned DEF RepairNext, WorkflowStep, rvars, RepairInv, OutcomeInv
<1>3. TypeOK /\ TypeOK' /\ [Next]_vars /\ RepairInv /\ OutcomeInv /\ [RepairNext]_rvars
        => OutcomeInv'
  <2>1. UNCHANGED repair /\ RepairInv /\ TypeOK /\ TypeOK' /\ OutcomeInv /\ [Next]_vars
          => OutcomeInv'
    BY WorkflowKeepsOutcome
  <2> QED
    BY <2>1, RepairStepKeepsOutcome DEF RepairNext, WorkflowStep, rvars
<1>4. TypeOK /\ RepairInv /\ OutcomeInv /\ Manned => RepairTypeOK
  <2> SUFFICES ASSUME RepairTypes, RunsAlone, Manned, TypeOK PROVE RepairTypeOK
    BY DEF RepairInv, OutcomeInv
  <2>1. ASSUME NEW x \in Attempts, NEW b \in Actors, running[b] = x
        PROVE  attempt[x].stage \notin {"absent", "ended"}
    BY <2>1, RepairAssumption DEF RunsAlone
  <2> QED
    BY <2>1 DEF RepairTypes, Manned, RepairTypeOK
<1> QED
  BY <1>1, <1>2, <1>3, <1>4, RepairInitInv, RepairNextKeeps, InitOutcome, RepairKeepsWorkflow,
     TypeCorrect, PTL DEF RepairSpec, Spec
=============================================================================
