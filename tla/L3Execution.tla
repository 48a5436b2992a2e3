---------------------------- MODULE L3Execution ----------------------------
(***************************************************************************)
(* InProcessL3Executor.execute of src/src/execution/l3_executor.py on what *)
(* the loader of TokenBudget returns.  Edits of the contents go on after   *)
(* the load: before the executor hashes them, while it reads them one by   *)
(* one, and before it hashes them again.                                   *)
(*                                                                         *)
(* A content is told apart by what became of it since it was loaded; the   *)
(* edits during the load are TokenBudget's.                                *)
(***************************************************************************)
EXTENDS TokenBudget, Sequences

CONSTANT EditBound   \* how often the contents are edited after a load

ASSUME EditAssumption == EditBound \in Nat

VARIABLES content,  \* each piece's content now, as of the load
          hashed,   \* ... when pre_hash was computed
          seen,     \* ... when it was read
          unread,   \* the pieces still to be read
          stage,    \* where execute is
          edits     \* history: the pieces edited since the load, then since pre_hash

lvars == <<content, hashed, seen, unread, stage, edits>>

Loaded == IF phase = "missing" THEN {} ELSE kept \cup {Nothing}

\* "odd" is a value that neither json.dumps nor split takes.
Contents == {"loaded", "other", "blank", "odd"}
Stages == {"idle", "reading", "rehashing", "succeeded", "failed", "raised"}

AsLoaded == [p \in Pieces |-> "loaded"]

L3TypeOK ==
  /\ TypeOK
  /\ {content, hashed, seen} \subseteq [Pieces -> Contents]
  /\ unread \subseteq Loaded /\ stage \in Stages /\ edits \in Seq(Pieces)

L3Init ==
  /\ Init
  /\ content = AsLoaded /\ hashed = AsLoaded /\ seen = AsLoaded
  /\ unread = {} /\ stage = "idle" /\ edits = <<>>

-----------------------------------------------------------------------------
Words(p) == IF p = Nothing THEN stored.fixed ELSE stored.prunable[p].words

\* i.get("content") is true.
HasContent(p, c) == c # "blank" /\ (c = "loaded" => Words(p) > 0)

\* The loader works for the next request, on contents as they are then.
Loading ==
  /\ stage \notin {"reading", "rehashing"} /\ Next
  /\ stage' = "idle" /\ unread' = {} /\ edits' = <<>>
  /\ content' = AsLoaded /\ hashed' = AsLoaded /\ seen' = AsLoaded

Edit(p) ==
  /\ phase = "loaded" /\ p \in Loaded /\ stage \in {"idle", "reading", "rehashing"}
  /\ Len(edits) < EditBound
  /\ \E c \in Contents \ {content[p]} : content' = [content EXCEPT ![p] = c]
  /\ edits' = Append(edits, p)
  /\ UNCHANGED <<vars, hashed, seen, unread, stage>>

\* pre_hash, computed outside the try: what json.dumps raises is no SandboxExecutionError.
Execute ==
  /\ phase \in {"loaded", "missing"} /\ stage = "idle"
  /\ hashed' = content /\ edits' = <<>>
  /\ \/ /\ \E p \in Loaded : content[p] = "odd"
        /\ stage' = "raised" /\ unread' = {}
     \/ /\ \A p \in Loaded : content[p] # "odd"
        /\ stage' = "reading" /\ unread' = Loaded
  /\ UNCHANGED <<vars, content, seen>>

Read(p) ==
  /\ stage = "reading" /\ p \in unread
  /\ unread' = unread \ {p}
  /\ seen' = [seen EXCEPT ![p] = content[p]]
  /\ UNCHANGED <<vars, content, hashed, stage, edits>>

\* "if not contents": SandboxExecutionError
ReadAll ==
  /\ stage = "reading" /\ unread = {}
  /\ stage' = IF \E p \in Loaded : HasContent(p, seen[p]) THEN "rehashing" ELSE "raised"
  /\ UNCHANGED <<vars, content, hashed, seen, unread, edits>>

\* mutant: post_hash is computed from what was read
RehashSeen ==
  /\ stage = "rehashing"
  /\ stage' = IF \A p \in Loaded : HasContent(p, seen[p]) => seen[p] # "odd"
                THEN "succeeded" ELSE "failed"
  /\ UNCHANGED <<vars, content, hashed, seen, unread, edits>>

\* post_hash: an edit that is still there is a TOCTOU violation.  What json.dumps or split
\* raise inside the try becomes a result with success=False.
Rehash ==
  /\ stage = "rehashing"
  /\ stage' = CASE \E p \in Loaded : content[p] = "odd" -> "failed"
                [] \E p \in Loaded : content[p] # "odd" /\ content[p] # hashed[p] -> "raised"
                [] \E p \in Loaded : seen[p] = "odd" -> "failed"
                [] OTHER -> "succeeded"
  /\ UNCHANGED <<vars, content, hashed, seen, unread, edits>>

L3Next ==
  \/ Loading
  \/ \E p \in Pieces : Edit(p) \/ Read(p)
  \/ Execute \/ ReadAll \/ Rehash

L3Spec == L3Init /\ [][L3Next]_<<vars, lvars>>

-----------------------------------------------------------------------------
(* Properties *)

EditsOf(p) == Cardinality({n \in DOMAIN edits : edits[n] = p})

\* What a successful execution applied is what its payload_hash covers, piece by piece,
\* unless a piece was edited and restored between the two hashes.
AppliedAreHashed ==
  stage = "succeeded" => \A p \in Loaded : seen[p] # hashed[p] => EditsOf(p) >= 2

-----------------------------------------------------------------------------
(* Claims of the repository that the code does not keep: see the README. *)

\* l3_executor.py:9: "the skill payload is hashed before execution; any modification
\* between load and run raises SandboxExecutionError."
AppliedAsLoaded ==
  stage = "succeeded" => \A p \in Loaded : seen[p] = "loaded"

\* engine.py:223: "No instructions registered -- treat as empty skill", one that runs.
EmptySkillsRun == [][phase = "missing" /\ ReadAll => stage' # "raised"]_<<vars, lvars>>
=============================================================================
