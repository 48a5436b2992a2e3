------------------------------ MODULE AuditLog ------------------------------
(***************************************************************************)
(* AuditLogger of src/src/governance/audit_logger.py: a hash-chained list  *)
(* kept as a ring.  log() appends, moves _last_hash and evicts under the   *)
(* lock, one Python statement at a time; get_entries() copies under the    *)
(* lock; verify_chain() walks the same list by index with no lock at all,  *)
(* so it can meet every intermediate state of log().                       *)
(*                                                                         *)
(* An entry can also be edited in memory: AuditEntry is a mutable          *)
(* dataclass, and the tests of the chain change a logged payload.          *)
(***************************************************************************)
EXTENDS Naturals, Sequences

CONSTANTS Writers, NoOne,
          Max,         \* max_in_memory
          LogBound,    \* how many events a behaviour logs
          EditBound    \* how many of them are edited in memory

ASSUME AuditAssumption ==
  /\ Max \in Nat \ {0} /\ LogBound \in Nat /\ EditBound \in Nat
  /\ NoOne \notin Writers

VARIABLES entries, last_hash,
          lock,       \* the thread inside the lock, or NoOne
          step,       \* what the thread in the lock has done: "free", "appended" or "hashed"
          walk,       \* verify_chain: where it is and what it carries
          copy,       \* the last list get_entries returned
          logged,     \* how many events were logged: the next entry's identity
          edits,      \* history: how many edits were made
          before      \* history: the list was edited or had evicted before the walk began

vars == <<entries, last_hash, lock, step, walk, copy, logged, edits, before>>

-----------------------------------------------------------------------------
GENESIS_HASH == <<>>

\* SHA-256 of an entry: a value that determines the fields it was computed from.
Digest(body, prev) == <<body, prev>>

\* The body stands for entry_id, timestamp, event_type, actor and payload: its
\* identity, and how often it was edited.
Body(n) == [id |-> n, edit |-> 0]

\* AuditEntry(...) as log() builds it, with the hash __post_init__ computes.
NewEntry(n, prev) ==
  [body |-> Body(n), prev_hash |-> prev, entry_hash |-> Digest(Body(n), prev)]

Intact(e) == e.entry_hash = Digest(e.body, e.prev_hash)

Idle == [pc |-> "idle", i |-> 0, prev |-> GENESIS_HASH, verdict |-> FALSE, quiet |-> FALSE]

Init ==
  /\ entries = <<>> /\ last_hash = GENESIS_HASH
  /\ lock = NoOne /\ step = "free"
  /\ walk = Idle /\ copy = <<>>
  /\ logged = 0 /\ edits = 0 /\ before = [edited |-> FALSE, evicted |-> FALSE]

-----------------------------------------------------------------------------
(* log(): acquire and append, move _last_hash, evict and release. *)

LogAppend(w) ==
  /\ lock = NoOne /\ logged < LogBound
  /\ lock' = w /\ step' = "appended"
  /\ entries' = Append(entries, NewEntry(logged, last_hash))
  /\ logged' = logged + 1
  /\ UNCHANGED <<last_hash, walk, copy, edits, before>>

LogHashFirst(w) ==   \* mutant: _last_hash is moved to the head of the ring
  /\ lock = w /\ step = "appended"
  /\ last_hash' = Head(entries).entry_hash
  /\ step' = "hashed"
  /\ UNCHANGED <<entries, lock, walk, copy, logged, edits, before>>

LogHash(w) ==
  /\ lock = w /\ step = "appended"
  /\ last_hash' = entries[Len(entries)].entry_hash
  /\ step' = "hashed"
  /\ UNCHANGED <<entries, lock, walk, copy, logged, edits, before>>

LogEvict(w) ==
  /\ lock = w /\ step = "hashed"
  /\ lock' = NoOne /\ step' = "free"
  /\ entries' = IF Len(entries) > Max THEN Tail(entries) ELSE entries
  /\ walk' = [walk EXCEPT !.quiet = @ /\ entries' = entries]
  /\ UNCHANGED <<last_hash, copy, logged, edits, before>>

\* An entry can be reached, and so edited, once the log() that made it has returned.
Edit(k) ==
  /\ edits < EditBound
  /\ lock # NoOne => k < Len(entries)
  /\ entries' = [entries EXCEPT ![k].body.edit = @ + 1]
  /\ edits' = edits + 1
  /\ walk' = [walk EXCEPT !.quiet = FALSE]
  /\ UNCHANGED <<last_hash, lock, step, copy, logged, before>>

GetEntriesUnlocked ==   \* mutant: the copy is taken without the lock
  /\ copy' = entries
  /\ UNCHANGED <<entries, last_hash, lock, step, walk, logged, edits, before>>

GetEntries ==
  /\ lock = NoOne
  /\ copy' = entries
  /\ UNCHANGED <<entries, last_hash, lock, step, walk, logged, edits, before>>

-----------------------------------------------------------------------------
(* verify_chain(): the for loop over the live list, by index. *)

VerifyStart ==
  /\ walk.pc # "walking"
  /\ walk' = [pc |-> "walking", i |-> 1, prev |-> GENESIS_HASH, verdict |-> FALSE,
              quiet |-> TRUE]
  /\ before' = [edited  |-> \E k \in 1..Len(entries) : ~Intact(entries[k]),
                evicted |-> entries # <<>> /\ entries[1].body.id # 0]
  /\ UNCHANGED <<entries, last_hash, lock, step, copy, logged, edits>>

Verdict(b) == [walk EXCEPT !.pc = "done", !.verdict = b, !.i = 0, !.prev = GENESIS_HASH]

VerifyStepNoLink ==   \* mutant: each entry is checked, the links between them are not
  /\ walk.pc = "walking"
  /\ walk' = IF walk.i > Len(entries) THEN Verdict(TRUE)
             ELSE IF Intact(entries[walk.i])
                    THEN [walk EXCEPT !.i = @ + 1, !.prev = entries[walk.i].entry_hash]
                    ELSE Verdict(FALSE)
  /\ UNCHANGED <<entries, last_hash, lock, step, copy, logged, edits, before>>

VerifyStepCarriesLast ==   \* mutant: the chain is compared with _last_hash as it goes
  /\ walk.pc = "walking"
  /\ walk' = IF walk.i > Len(entries) THEN Verdict(walk.prev = last_hash)
             ELSE IF Intact(entries[walk.i]) /\ entries[walk.i].prev_hash = walk.prev
                    THEN [walk EXCEPT !.i = @ + 1, !.prev = entries[walk.i].entry_hash]
                    ELSE Verdict(FALSE)
  /\ UNCHANGED <<entries, last_hash, lock, step, copy, logged, edits, before>>

VerifyStep ==
  /\ walk.pc = "walking"
  /\ \/ walk.i > Len(entries) /\ walk' = Verdict(TRUE)
     \/ /\ walk.i <= Len(entries)
        /\ LET e == entries[walk.i]
           IN  walk' = IF Intact(e) /\ e.prev_hash = walk.prev
                         THEN [walk EXCEPT !.i = @ + 1, !.prev = e.entry_hash]
                         ELSE Verdict(FALSE)
  /\ UNCHANGED <<entries, last_hash, lock, step, copy, logged, edits, before>>

Next ==
  \/ \E w \in Writers : LogAppend(w) \/ LogHash(w) \/ LogEvict(w)
  \/ \E k \in 1..Len(entries) : Edit(k)
  \/ GetEntries \/ VerifyStart \/ VerifyStep

Spec == Init /\ [][Next]_vars

-----------------------------------------------------------------------------
(* Properties *)

TypeOK ==
  /\ lock \in Writers \cup {NoOne}
  /\ step \in {"free", "appended", "hashed"} /\ (step = "free" <=> lock = NoOne)
  /\ logged \in 0..LogBound /\ edits \in 0..EditBound
  /\ Len(entries) <= IF lock = NoOne THEN Max ELSE Max + 1
  /\ walk.pc \in {"idle", "walking", "done"} /\ walk.i \in 0..LogBound + 1

\* Neighbours in a list of entries are linked by the hash of the first.
Linked(s) == \A k \in 1..Len(s) : k < Len(s) => s[k + 1].prev_hash = s[k].entry_hash

\* Whatever is logged, evicted or edited, the entries in memory are one chain whose
\* end is _last_hash, except in the instant between the append and the new _last_hash.
ChainLinked ==
  /\ Linked(entries)
  /\ (entries # <<>> /\ step # "appended") => last_hash = entries[Len(entries)].entry_hash

\* A copy returned by get_entries is such a chain, and never the overfull ring.
CopyIsARing == Linked(copy) /\ Len(copy) <= Max

\* verify_chain never accepts a list in which some entry had been edited when the walk
\* began, not even when evictions shift the list under its index meanwhile.
EditsDetected == walk.pc = "done" /\ walk.verdict => ~before.edited

\* A log that never evicted and is neither edited nor trimmed during the walk verifies,
\* however many events are logged meanwhile.
GrowingLogVerifies ==
  walk.pc = "done" /\ walk.quiet /\ before = [edited |-> FALSE, evicted |-> FALSE]
    => walk.verdict

-----------------------------------------------------------------------------
(* Claims of the repository that the code does not keep: see the README. *)

\* audit_logger.py:94, the docstring of verify_chain: "Return True if the entire
\* in-memory chain is intact."
IntactChainVerifies ==
  walk.pc = "done" /\ walk.quiet /\ ~before.edited => walk.verdict
=============================================================================
