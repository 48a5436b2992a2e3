---------------------------- MODULE ShadowRepair ----------------------------
(***************************************************************************)
(* ShadowRepairPipeline of src/src/repair/auto_repair.py over the approval *)
(* workflow it submits to.  attempt_repair runs on its caller's thread and *)
(* holds no lock; the attempt is in the history, for others to read, from  *)
(* its first step.  Pipelines with and without a workflow share the        *)
(* history here: an attempt's gate says which kind runs it.                *)
(*                                                                         *)
(* Patch function, test runner, shadow executor and parity function are    *)
(* the caller's: each may answer anything or raise.                        *)
(***************************************************************************)
EXTENDS Approval

CONSTANTS Attempts,     \* RepairAttempt objects
          NoAttempt,    \* what a thread outside attempt_repair is in
          NoRequest     \* approval_request_id of an attempt without a request

ASSUME RepairAssumption == NoAttempt \notin Attempts /\ NoRequest \notin Requests

VARIABLES attempt,      \* the attempts, with the stage their pipeline is in
          running       \* the attempt each thread is in

repair == <<attempt, running>>
rvars  == <<vars, repair>>

Stages == {"absent", "patching", "testing", "comparing", "submitting", "attaching", "ended"}
\* The code also declares "approved" and never assigns it: a decision changes the request
\* and not the attempt.
RepairStatus == {"pending", "patched", "tested", "parity_failed", "awaiting_approval", "rejected"}
Raised == {"nothing", "ShadowRepairError", "ApprovalRequiredError", "the parity function's"}

\* `compared': prod_output and shadow_executor were both given.  `asked' is the request
\* submit() has stored and the attempt does not know yet.
RepairAttempt ==
  [stage : Stages, status : RepairStatus, gate : BOOLEAN, compared : BOOLEAN,
   test_passed : BOOLEAN, parity : {"unknown", "below", "reached"},
   asked : Requests \cup {NoRequest}, request : Requests \cup {NoRequest}, raised : Raised]

NewAttempt ==
  [stage |-> "absent", status |-> "pending", gate |-> FALSE, compared |-> FALSE,
   test_passed |-> FALSE, parity |-> "unknown", asked |-> NoRequest, request |-> NoRequest,
   raised |-> "nothing"]

RepairTypeOK ==
  /\ TypeOK
  /\ attempt \in [Attempts -> RepairAttempt]
  /\ running \in [Actors -> Attempts \cup {NoAttempt}]
  /\ \A x \in Attempts :
       attempt[x].stage \notin {"absent", "ended"} <=> \E a \in Actors : running[a] = x

RepairInit ==
  /\ Init
  /\ attempt = [x \in Attempts |-> NewAttempt]
  /\ running = [a \in Actors |-> NoAttempt]

-----------------------------------------------------------------------------
In(a, stage) == running[a] # NoAttempt /\ attempt[running[a]].stage = stage

Becomes(a, y) == attempt' = [attempt EXCEPT ![running[a]] = y]

Goes(a, y) == Becomes(a, y) /\ UNCHANGED running

Raises(a, y, error) ==
  /\ Becomes(a, [y EXCEPT !.stage = "ended", !.raised = error])
  /\ running' = [running EXCEPT ![a] = NoAttempt]

Rejects(a, y) == Raises(a, [y EXCEPT !.status = "rejected"], "ShadowRepairError")

\* The human gate: the status says so before the request is submitted.
Gate(y) == [y EXCEPT !.stage = "submitting", !.status = "awaiting_approval"]

\* Ids are without end in the code: the model's suffice for the attempts under way.
IdsLeft ==
  Cardinality({r \in Requests : status[r] = "absent"})
    > Cardinality({x \in Attempts : attempt[x].stage \notin {"absent", "attaching", "ended"}})

Begin(a, x) ==
  /\ IdsLeft
  /\ running[a] = NoAttempt /\ Free(a) /\ attempt[x].stage = "absent"
  /\ \E gate, compared \in BOOLEAN :
       attempt' = [attempt EXCEPT ![x] =
                     [NewAttempt EXCEPT !.stage = "patching", !.gate = gate, !.compared = compared]]
  /\ running' = [running EXCEPT ![a] = x]
  /\ UNCHANGED vars

Patch(a) ==
  LET y == attempt[running[a]]
  IN  /\ In(a, "patching")
      /\ \/ Goes(a, [y EXCEPT !.stage = "testing", !.status = "patched"])
         \/ Rejects(a, y)
      /\ UNCHANGED vars

TestUnchecked(a) ==   \* mutant: what the test runner answers is stored and not looked at
  LET y == attempt[running[a]]
      z == [y EXCEPT !.status = "tested"]
  IN  /\ In(a, "testing")
      /\ \/ \E passed \in BOOLEAN :
              Goes(a, IF y.compared THEN [z EXCEPT !.stage = "comparing", !.test_passed = passed]
                                    ELSE Gate([z EXCEPT !.test_passed = passed]))
         \/ Rejects(a, y)
      /\ UNCHANGED vars

\* The runner passes the patch; or it fails it, or raises.  Without a comparison the
\* status moves on from "tested" at once.
Test(a) ==
  LET y == attempt[running[a]]
      z == [y EXCEPT !.status = "tested", !.test_passed = TRUE]
  IN  /\ In(a, "testing")
      /\ \/ Goes(a, IF y.compared THEN [z EXCEPT !.stage = "comparing"] ELSE Gate(z))
         \/ Rejects(a, y)
      /\ UNCHANGED vars

\* Parity is reached, or is below 95 %; the executor raises; the parity function raises,
\* which attempt_repair does not catch.
Compare(a) ==
  LET y == attempt[running[a]]
  IN  /\ In(a, "comparing")
      /\ \/ Goes(a, Gate([y EXCEPT !.parity = "reached"]))
         \/ Raises(a, [y EXCEPT !.parity = "below", !.status = "parity_failed"], "ShadowRepairError")
         \/ Rejects(a, y)
         \/ Raises(a, y, "the parity function's")
      /\ UNCHANGED vars

\* submit() stores the request; whoever sees it may decide it from here on.
RequestApproval(a) ==
  LET y == attempt[running[a]]
  IN  /\ In(a, "submitting") /\ y.gate
      /\ \E r \in Requests :
           /\ Submit(a, r)
           /\ Goes(a, [y EXCEPT !.stage = "attaching", !.asked = r])

PassWithoutGate(a) ==
  /\ In(a, "submitting") /\ ~attempt[running[a]].gate
  /\ Raises(a, attempt[running[a]], "ApprovalRequiredError")
  /\ UNCHANGED vars

AttachUnlogged(a) ==   \* mutant: the submission is logged in the background
  LET y == attempt[running[a]]
  IN  /\ In(a, "attaching")
      /\ Raises(a, [y EXCEPT !.request = y.asked], "ApprovalRequiredError")
      /\ UNCHANGED vars

\* submit() has logged the submission and returned.
Attach(a) ==
  LET y == attempt[running[a]]
  IN  /\ In(a, "attaching") /\ Free(a)
      /\ Raises(a, [y EXCEPT !.request = y.asked], "ApprovalRequiredError")
      /\ UNCHANGED vars

RepairStep(a) ==
  \/ \E x \in Attempts : Begin(a, x)
  \/ Patch(a) \/ Test(a) \/ Compare(a)
  \/ RequestApproval(a) \/ PassWithoutGate(a) \/ Attach(a)

\* Threads outside the pipeline use the workflow directly.
WorkflowStep(a) ==
  /\ running[a] = NoAttempt
  /\ \/ \E r \in Requests : (IdsLeft /\ Submit(a, r)) \/ Approve(a, r) \/ Reject(a, r)
     \/ CheckSlaRead(a) \/ CheckSlaEscalate(a)
  /\ UNCHANGED repair

RepairNext ==
  \/ \E a \in Actors : RepairStep(a) \/ WorkflowStep(a) \/ (Audit(a) /\ UNCHANGED repair)
  \/ Tick /\ UNCHANGED repair

RepairSpec == RepairInit /\ [][RepairNext]_rvars

-----------------------------------------------------------------------------
(* Properties *)

\* No human is asked about a patch that did not pass its tests, or did not reach parity
\* where it was compared; whatever becomes of a request, its attempt goes on awaiting
\* it, and it is no other attempt's.
RequestsAreEarned ==
  \A x \in Attempts :
    attempt[x].asked # NoRequest =>
      /\ attempt[x].test_passed
      /\ attempt[x].compared => attempt[x].parity = "reached"
      /\ attempt[x].status = "awaiting_approval"
      /\ status[attempt[x].asked] # "absent"
      /\ \A y \in Attempts : attempt[y].asked = attempt[x].asked => y = x

\* What attempt_repair raises says what its attempt came to.  Who hears of a required
\* approval, from a pipeline with a workflow, finds the request named in the attempt and
\* its submission in the audit trail, though the request may be decided by then.
OutcomesAreKnown ==
  \A x \in Attempts :
    LET y == attempt[x]
    IN  /\ y.raised = "ShadowRepairError" <=> y.status \in {"rejected", "parity_failed"}
        /\ y.raised = "the parity function's" => y.status = "tested"
        /\ y.raised = "ApprovalRequiredError" =>
             /\ y.status = "awaiting_approval"
             /\ y.gate => /\ y.request \in Requests
                          /\ trail[y.request]["approval_submitted"] = 1

-----------------------------------------------------------------------------
(* Claims of the repository that the code does not keep: see the README. *)

\* auto_repair.py:7: "Shadow mode compares V2 outputs against V1 to verify >=95 % parity."
ParityIsVerified ==
  \A x \in Attempts : attempt[x].status = "awaiting_approval" => attempt[x].parity = "reached"
=============================================================================
