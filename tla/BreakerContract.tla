-------------------------- MODULE BreakerContract --------------------------
(***************************************************************************)
(* What a circuit breaker promises, said in terms of the outcomes that     *)
(* were reported to it rather than of counters:                            *)
(*  - it serves until the last FailureThreshold outcomes it heard while    *)
(*    serving are all failures, then it rests;                             *)
(*  - it rests until RecoveryTimeout ticks have passed without a failure   *)
(*    being reported, and only a caller can then start the trial;          *)
(*  - a failure heard during the trial sends it back to rest, and only     *)
(*    SuccessThreshold successes with no failure among them end it.        *)
(***************************************************************************)
EXTENDS Naturals, SequencesExt

CONSTANTS Callers, FailureThreshold, SuccessThreshold, RecoveryTimeout

VARIABLES phase,     \* "serving", "resting" or "probing"
          heard,     \* the outcomes heard in this phase, the last Memory of them
          rest,      \* ticks since the last failure, up to RecoveryTimeout
          admitted   \* the callers whose call has been let through

cvars == <<phase, heard, rest, admitted>>

Memory == IF FailureThreshold > SuccessThreshold
            THEN FailureThreshold ELSE SuccessThreshold

LastOf(s, n) == SubSeq(s, IF Len(s) > n THEN Len(s) - n + 1 ELSE 1, Len(s))

\* The last n outcomes of h exist and are all equal to ok.
RunOf(h, n, ok) == Len(h) >= n /\ Range(LastOf(h, n)) = {ok}

CInit == /\ phase = "serving" /\ heard = <<>>
         /\ rest = RecoveryTimeout /\ admitted = {}

Wait == /\ rest < RecoveryTimeout
        /\ rest' = rest + 1
        /\ UNCHANGED <<phase, heard, admitted>>

Admit(c) ==
  /\ c \notin admitted /\ admitted' = admitted \cup {c}
  /\ \/ phase # "resting" /\ UNCHANGED <<phase, heard>>
     \/ phase = "resting" /\ rest = RecoveryTimeout
        /\ phase' = "probing" /\ heard' = <<>>
  /\ UNCHANGED rest

\* The phase the outcome ok leads to, h being everything heard in this phase with it.
NextPhase(h, ok) ==
  CASE phase = "serving" /\ RunOf(h, FailureThreshold, FALSE) -> "resting"
    [] phase = "probing" /\ ~ok -> "resting"
    [] phase = "probing" /\ Len(h) >= SuccessThreshold /\ ok -> "serving"
    [] OTHER -> phase

Report(c, ok) ==
  LET h == Append(heard, ok)
  IN  /\ c \in admitted
      /\ admitted' \in {admitted, admitted \ {c}}
      /\ phase' = NextPhase(h, ok)
      /\ heard' = IF phase' = phase THEN LastOf(h, Memory) ELSE <<>>
      /\ rest' = IF ok THEN rest ELSE 0

\* A call may end without telling the breaker how it went.
Vanish(c) == /\ c \in admitted /\ admitted' = admitted \ {c}
             /\ UNCHANGED <<phase, heard, rest>>

CNext == \/ Wait
         \/ \E c \in Callers : \/ Admit(c) \/ Vanish(c)
                               \/ \E ok \in BOOLEAN : Report(c, ok)

ContractSpec == CInit /\ [][CNext]_cvars
=============================================================================
