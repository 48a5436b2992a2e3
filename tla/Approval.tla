------------------------------ MODULE Approval ------------------------------
(***************************************************************************)
(* ApprovalWorkflow of src/src/governance/audit_logger.py: the human       *)
(* approval of skills.  A request's status changes under the workflow's    *)
(* lock; the audit event of the change is logged after the lock is         *)
(* released, so other threads' decisions fall in between; check_sla reads  *)
(* the clock before it takes the lock.                                     *)
(*                                                                         *)
(* The clock counts abstract ticks.  The score, risk level and notes of a  *)
(* request are left out: no operation reads them once they are stored.     *)
(***************************************************************************)
EXTENDS Naturals, FiniteSets

CONSTANTS Requests,     \* the request ids that can be submitted
          Actors,       \* threads: reviewers, submitters, the caller of check_sla
          Nobody,       \* approved_by of a request nobody approved
          Cooldown,     \* COOLDOWN_MINUTES
          Sla,          \* SLA_HOURS
          LastTick,     \* where the model stops the clock
          RejectBound   \* how often one request is rejected in a behaviour

ASSUME ApprovalAssumption ==
  /\ Cooldown \in Nat /\ Sla \in Nat /\ LastTick \in Nat /\ RejectBound \in Nat
  /\ IsFiniteSet(Actors) /\ Nobody \notin Actors

VARIABLES status,        \* "absent" until submitted, then ApprovalStatus
          submitted_at, approved_at, approved_by,
          now,           \* time.time()
          doing,         \* what each thread still has to do after its locked step
          trail,         \* how often each event was logged for each request
          escalated_at   \* history: the time at which check_sla escalated a request

record == <<status, submitted_at, approved_at, approved_by, escalated_at>>
vars == <<record, now, doing, trail>>

Time   == 0..LastTick
Never  == LastTick + 1

Status == {"absent", "pending", "approved", "rejected", "escalated"}
Events == {"approval_submitted", "approval_granted", "approval_rejected",
           "approval_sla_breached"}

\* Out of the lock a thread owes the log a set of events; check_sla also holds the
\* time it read.
NothingToDo == [owes |-> {}, read |-> Never]

TypeOK ==
  /\ status \in [Requests -> Status]
  /\ submitted_at \in [Requests -> Time \cup {Never}]
  /\ approved_at \in [Requests -> Time \cup {Never}]
  /\ escalated_at \in [Requests -> Time \cup {Never}]
  /\ approved_by \in [Requests -> Actors \cup {Nobody}]
  /\ now \in Time
  /\ doing \in [Actors -> [owes : SUBSET (Events \X Requests), read : Time \cup {Never}]]
  /\ trail \in [Requests -> [Events -> Nat]]

Init ==
  /\ status = [r \in Requests |-> "absent"]
  /\ submitted_at = [r \in Requests |-> Never]
  /\ approved_at = [r \in Requests |-> Never]
  /\ escalated_at = [r \in Requests |-> Never]
  /\ approved_by = [r \in Requests |-> Nobody]
  /\ now = 0
  /\ doing = [a \in Actors |-> NothingToDo]
  /\ trail = [r \in Requests |-> [e \in Events |-> 0]]

-----------------------------------------------------------------------------
Free(a) == doing[a] = NothingToDo

\* The locked step is over; the events are logged afterwards.
Owes(a, events) == doing' = [doing EXCEPT ![a] = [owes |-> events, read |-> Never]]

Submit(a, r) ==
  /\ Free(a) /\ status[r] = "absent"
  /\ status' = [status EXCEPT ![r] = "pending"]
  /\ submitted_at' = [submitted_at EXCEPT ![r] = now]
  /\ Owes(a, {<<"approval_submitted", r>>})
  /\ UNCHANGED <<approved_at, approved_by, escalated_at, now, trail>>

ApproveAnyStatus(a, r) ==   \* mutant: the PENDING check is lost
  /\ Free(a) /\ status[r] # "absent"
  /\ now >= submitted_at[r] + Cooldown
  /\ status' = [status EXCEPT ![r] = "approved"]
  /\ approved_at' = [approved_at EXCEPT ![r] = now]
  /\ approved_by' = [approved_by EXCEPT ![r] = a]
  /\ Owes(a, {<<"approval_granted", r>>})
  /\ UNCHANGED <<submitted_at, escalated_at, now, trail>>

ApproveAtOnce(a, r) ==   \* mutant: the cooldown check is lost
  /\ Free(a) /\ status[r] = "pending"
  /\ status' = [status EXCEPT ![r] = "approved"]
  /\ approved_at' = [approved_at EXCEPT ![r] = now]
  /\ approved_by' = [approved_by EXCEPT ![r] = a]
  /\ Owes(a, {<<"approval_granted", r>>})
  /\ UNCHANGED <<submitted_at, escalated_at, now, trail>>

\* Its ValueErrors (unknown, not pending, cooling down) leave everything as it was.
Approve(a, r) ==
  /\ Free(a) /\ status[r] = "pending"
  /\ now >= submitted_at[r] + Cooldown
  /\ status' = [status EXCEPT ![r] = "approved"]
  /\ approved_at' = [approved_at EXCEPT ![r] = now]
  /\ approved_by' = [approved_by EXCEPT ![r] = a]
  /\ Owes(a, {<<"approval_granted", r>>})
  /\ UNCHANGED <<submitted_at, escalated_at, now, trail>>

RejectUnlogged(a, r) ==   \* mutant: rejecting an escalated request logs nothing
  /\ Free(a) /\ status[r] # "absent"
  /\ trail[r]["approval_rejected"] < RejectBound
  /\ status' = [status EXCEPT ![r] = "rejected"]
  /\ Owes(a, IF status[r] = "escalated" THEN {} ELSE {<<"approval_rejected", r>>})
  /\ UNCHANGED <<submitted_at, approved_at, approved_by, escalated_at, now, trail>>

\* reject looks at no status: it also withdraws an approval already given.
Reject(a, r) ==
  /\ Free(a) /\ status[r] # "absent"
  /\ trail[r]["approval_rejected"] < RejectBound
  /\ status' = [status EXCEPT ![r] = "rejected"]
  /\ Owes(a, {<<"approval_rejected", r>>})
  /\ UNCHANGED <<submitted_at, approved_at, approved_by, escalated_at, now, trail>>

\* check_sla: the clock is read here ...
CheckSlaRead(a) ==
  /\ Free(a)
  /\ doing' = [doing EXCEPT ![a].read = now]
  /\ UNCHANGED <<record, now, trail>>

BreachedAnyStatus(t) ==   \* mutant: the PENDING check is lost
  {r \in Requests : status[r] # "absent" /\ t > submitted_at[r] + Sla}

Breached(t) == {r \in Requests : status[r] = "pending" /\ t > submitted_at[r] + Sla}

\* ... and used here, under the lock.
CheckSlaEscalate(a) ==
  LET breached == Breached(doing[a].read)
  IN  /\ doing[a].read # Never
      /\ status' = [r \in Requests |-> IF r \in breached THEN "escalated" ELSE status[r]]
      /\ escalated_at' = [r \in Requests |-> IF r \in breached THEN now ELSE escalated_at[r]]
      /\ Owes(a, {"approval_sla_breached"} \X breached)
      /\ UNCHANGED <<submitted_at, approved_at, approved_by, now, trail>>

\* self._audit.log(...), one event at a time
Audit(a) ==
  \E ev \in doing[a].owes :
    /\ trail' = [trail EXCEPT ![ev[2]][ev[1]] = @ + 1]
    /\ doing' = [doing EXCEPT ![a].owes = @ \ {ev}]
    /\ UNCHANGED <<record, now>>

Tick == now < LastTick /\ now' = now + 1 /\ UNCHANGED <<record, doing, trail>>

Next ==
  \/ \E a \in Actors :
       \/ \E r \in Requests : Submit(a, r) \/ Approve(a, r) \/ Reject(a, r)
       \/ CheckSlaRead(a) \/ CheckSlaEscalate(a) \/ Audit(a)
  \/ Tick

Spec == Init /\ [][Next]_vars

-----------------------------------------------------------------------------
(* Properties *)

\* No approval is given before the cooldown has passed, and none is recorded
\* without its time and its reviewer, even after a later rejection has replaced it.
ApprovalsAreCool ==
  \A r \in Requests :
    /\ status[r] = "approved" => approved_at[r] # Never
    /\ approved_at[r] # Never => /\ submitted_at[r] # Never
                                 /\ approved_at[r] >= submitted_at[r] + Cooldown
                                 /\ approved_by[r] \in Actors

\* A decision is never undone except by a rejection, a rejection never, and the record of
\* who approved a request, and when, is never rewritten.
DecisionsStand ==
  [][\A r \in Requests :
       /\ status'[r] # status[r] => status[r] \in {"absent", "pending"} \/ status'[r] = "rejected"
       /\ approved_at[r] # Never => approved_at'[r] = approved_at[r]
                                    /\ approved_by'[r] = approved_by[r]]_vars

\* A request is escalated only after its SLA, though check_sla decides on a clock value
\* read before the lock; and a request is never both approved and escalated.
EscalationsAreDue ==
  \A r \in Requests :
    escalated_at[r] # Never
      => escalated_at[r] > submitted_at[r] + Sla /\ approved_at[r] = Never

\* What is still to be logged about r.
Owed(e, r) == Cardinality({a \in Actors : <<e, r>> \in doing[a].owes})

\* The audit trail, with what the threads still owe it, accounts for every request: one
\* submission, one grant per approval, one breach per escalation, a rejection for each
\* rejected request.  Threads log out of the lock and in any order.
TrailAccountsForAll ==
  \A r \in Requests :
    LET Accounted(e) == trail[r][e] + Owed(e, r)
    IN  /\ Accounted("approval_submitted") = IF status[r] = "absent" THEN 0 ELSE 1
        /\ Accounted("approval_granted") = IF approved_at[r] = Never THEN 0 ELSE 1
        /\ Accounted("approval_sla_breached") = IF escalated_at[r] = Never THEN 0 ELSE 1
        /\ status[r] = "rejected" <=> Accounted("approval_rejected") > 0

-----------------------------------------------------------------------------
(* Claims of the repository that the code does not keep: see the README. *)

\* audit_logger.py:159: "SLA_HOURS: Maximum hours before automatic escalation."  A request
\* past its SLA is for escalation, no longer for an ordinary approval.
NoApprovalPastSla ==
  [][\A r \in Requests :
       status[r] = "pending" /\ status'[r] = "approved" => now <= submitted_at[r] + Sla]_vars
=============================================================================
