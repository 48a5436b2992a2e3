------------------------------ MODULE AgentDb ------------------------------
(***************************************************************************)
(* The Database of backend/db.py and the endpoints of backend/main.py that *)
(* write to it.  Nobody holds the database's lock across a suspension, so  *)
(* every statement with its commit is one step, and a request is stopped   *)
(* between two statements only by a crash.                                 *)
(*                                                                         *)
(* A statement can fail before it changes anything, or its commit can: the *)
(* change then stays in the open transaction of the one connection, where  *)
(* reads see it and the next commit takes it along; or SQLite rolls the    *)
(* whole transaction back, as it may on a full disk, and with it what      *)
(* earlier failures had left open.  SQLite and the disk are external;      *)
(* labels, times and payloads are data nothing reads back.                 *)
(***************************************************************************)
EXTENDS Naturals

CONSTANTS Agents, Trusts,
          Clients,       \* callers of the optimistic update_trust
          NoRow,
          VersionBound   \* up to which version clients update


VARIABLES live,        \* the tables as the connection sees them
          committed,   \* the tables as a restart finds them
          memory,      \* DNARegistry: the agents registered since the start
          pending,     \* the agent whose row is written and whose event is not, or NoRow
          client,      \* the row each client has read and not yet updated, or NoRow
          unstored     \* history: the agents whose last registration failed to write a row

dbVars == <<live, committed, memory, pending, client, unstored>>

Row == [trust : Trusts, version : Nat, archived : BOOLEAN]
Events == {"agent_registered", "human_override"} \X Agents

\* Some rows of agents, and which events there are in audit_events.
Tables == [row : [Agents -> Row \cup {NoRow}], events : SUBSET Events]

\* `since' (history): another client's update has changed the row ("overtaken"), or what was
\* read has been rolled back ("undone"), or neither.
Reads == [agent : Agents, version : Nat, since : {"current", "overtaken", "undone"}]

ASSUME DbAssumption ==
  /\ VersionBound \in Nat
  /\ NoRow \notin Agents /\ NoRow \notin Row /\ NoRow \notin Reads

DbTypeOK ==
  /\ live \in Tables /\ committed \in Tables
  /\ memory \subseteq Agents /\ pending \in Agents \cup {NoRow}
  /\ client \in [Clients -> Reads \cup {NoRow}]
  /\ unstored \subseteq Agents

\* _migrate creates the tables, or finds them.
DbInit ==
  /\ live = [row |-> [h \in Agents |-> NoRow], events |-> {}] /\ committed = live
  /\ memory = {} /\ pending = NoRow
  /\ client = [c \in Clients |-> NoRow]
  /\ unstored = {}

-----------------------------------------------------------------------------
(* One statement and its commit, on tables that it turns into t. *)

Commit(t) == live' = t /\ committed' = t
Raise(t)  == live' \in {live, t, committed} /\ UNCHANGED committed

Stored(h) == live.row[h] # NoRow

WithRow(h, r) == [live EXCEPT !.row[h] = r]

\* ON CONFLICT DO UPDATE leaves version and archived alone.
Upserted(h, trust) ==
  WithRow(h, IF Stored(h) THEN [live.row[h] EXCEPT !.trust = trust]
                          ELSE [trust |-> trust, version |-> 1, archived |-> FALSE])

Audited(e) == [live EXCEPT !.events = @ \cup {e}]

\* What a client has read, once the row is back to what the disk has.
RolledBack(r) ==
  LET row == live'.row[r.agent]
  IN  [r EXCEPT !.since =
         IF @ = "undone" \/ row = NoRow \/ row.version < r.version THEN "undone"
         ELSE IF row.version = r.version THEN "current" ELSE @]

Overtaken(r) == [r EXCEPT !.since = IF @ = "undone" THEN @ ELSE "overtaken"]

\* The clients after a statement of `who' (a client or NoRow).
Seen(who) ==
  [c \in Clients |->
     IF c = who \/ client[c] = NoRow THEN NoRow
     ELSE IF live'.row[client[c].agent] = live.row[client[c].agent] THEN client[c]
     ELSE IF live' = committed /\ committed' = committed THEN RolledBack(client[c])
     ELSE IF who # NoRow THEN Overtaken(client[c])
     ELSE client[c]]

-----------------------------------------------------------------------------
(* Endpoints *)

RegisterAuditsFirst(h) ==   \* mutant: the event, then the row
  \E trust \in Trusts :
    /\ pending = NoRow
    /\ memory' = memory \cup {h}
    /\ \/ Commit(Audited(<<"agent_registered", h>>)) /\ pending' = h
       \/ Raise(Audited(<<"agent_registered", h>>)) /\ UNCHANGED pending
    /\ client' = Seen(NoRow) /\ UNCHANGED unstored

\* register_dna, upsert_agent: an error answers 500 and skips the event.
RegisterAgent(h) ==
  \E trust \in Trusts :
    /\ pending = NoRow
    /\ memory' = memory \cup {h}
    /\ \/ Commit(Upserted(h, trust)) /\ pending' = h /\ unstored' = unstored \ {h}
       \/ Raise(Upserted(h, trust)) /\ UNCHANGED pending /\ unstored' = unstored \cup {h}
    /\ client' = Seen(NoRow)

AuditRegistered ==
  /\ pending # NoRow /\ pending' = NoRow
  /\ LET t == Audited(<<"agent_registered", pending>>) IN Commit(t) \/ Raise(t)
  /\ client' = Seen(NoRow)
  /\ UNCHANGED <<memory, unstored>>

SetOverride(h) ==
  /\ pending = NoRow /\ h \in memory
  /\ LET t == Audited(<<"human_override", h>>) IN Commit(t) \/ Raise(t)
  /\ client' = Seen(NoRow)
  /\ UNCHANGED <<memory, pending, unstored>>

-----------------------------------------------------------------------------
(* Callers of the Database itself *)

ArchiveAgent(h) ==
  /\ pending = NoRow
  /\ LET t == IF Stored(h) THEN WithRow(h, [live.row[h] EXCEPT !.archived = TRUE]) ELSE live
     IN  Commit(t) \/ Raise(t)
  /\ client' = Seen(NoRow)
  /\ UNCHANGED <<memory, pending, unstored>>

\* fetchone, on the same connection: it sees what is not committed.
Read(c, h) ==
  /\ pending = NoRow /\ client[c] = NoRow /\ Stored(h)
  /\ live.row[h].version < VersionBound
  /\ client' = [client EXCEPT ![c] = [agent |-> h, version |-> live.row[h].version,
                                      since |-> "current"]]
  /\ UNCHANGED <<live, committed, memory, pending, unstored>>

KeepVersion(row, trust) == [row EXCEPT !.trust = trust]   \* mutant: no "version + 1"

Updated(row, trust) ==
  [trust |-> trust, version |-> row.version + 1, archived |-> row.archived]

\* update_with_version: True, or an exception.
Update(c) ==
  /\ pending = NoRow /\ client[c] # NoRow
  /\ LET h == client[c].agent
     IN  /\ Stored(h) /\ live.row[h].version = client[c].version
         /\ \E trust \in Trusts :
              LET t == WithRow(h, Updated(live.row[h], trust)) IN Commit(t) \/ Raise(t)
         /\ client' = Seen(c)
  /\ UNCHANGED <<memory, pending, unstored>>

\* update_with_version: False.  It commits what was left open all the same.
UpdateFails(c) ==
  /\ pending = NoRow /\ client[c] # NoRow
  /\ LET h == client[c].agent
     IN  Stored(h) => live.row[h].version # client[c].version
  /\ Commit(live) \/ Raise(live)
  /\ client' = Seen(c)
  /\ UNCHANGED <<memory, pending, unstored>>

\* An insert into telemetry, which nothing reads: its rows are left out, but its commit
\* takes along what the connection has open.
RecordTelemetry ==
  /\ pending = NoRow
  /\ Commit(live) \/ Raise(live)
  /\ client' = Seen(NoRow)
  /\ UNCHANGED <<memory, pending, unstored>>

-----------------------------------------------------------------------------
\* The process ends and starts again, at any time: close_db commits nothing.
DbRestart ==
  /\ live' = committed /\ UNCHANGED committed
  /\ memory' = {} /\ pending' = NoRow
  /\ client' = [c \in Clients |-> NoRow]
  /\ UNCHANGED unstored

DbNext ==
  \/ \E h \in Agents : RegisterAgent(h) \/ SetOverride(h) \/ ArchiveAgent(h)
  \/ AuditRegistered \/ RecordTelemetry
  \/ \E c \in Clients : Update(c) \/ UpdateFails(c) \/ \E h \in Agents : Read(c, h)
  \/ DbRestart

DbSpec == DbInit /\ [][DbNext]_dbVars

-----------------------------------------------------------------------------
(* Properties *)

\* README.md:37: of the clients that read a row, one updates it: the others' update is
\* refused, through failed commits, rollbacks and restarts, if what they read has not been
\* rolled back itself.
NoLostUpdate ==
  [][\A c \in Clients :
       client[c] # NoRow /\ client[c].since = "overtaken" /\ Update(c) => live' = live]_dbVars

\* An event of the trail names an agent without a row only if it is an override, and the
\* registration of that agent failed to write the row: whatever else fails, is rolled back
\* or crashes, for the connection and for a restart.
TrailNamesAgents ==
  \A t \in {live, committed}, e \in Events :
    e \in t.events => \/ t.row[e[2]] # NoRow
                       \/ (e[1] = "human_override" /\ e[2] \in unstored)

-----------------------------------------------------------------------------
(* Claims of the repository that the code does not keep: see the README. *)

\* db.py:166: False "when the row's version does not match (i.e. a concurrent writer
\* modified the row first)": upsert_agent and archive_agent modify it and keep the version.
WritersAreNoticed ==
  [][\A h \in Agents : Stored(h) /\ live'.row[h] \notin {live.row[h], NoRow}
                          => live'.row[h].version # live.row[h].version]_dbVars

\* README.md:37: "concurrent trust-score updates are safe": not the one of a client whose
\* reading has been rolled back, when the row gets the version it read a second time.
UpdatesAreSafe ==
  [][\A c \in Clients :
       client[c] # NoRow /\ client[c].since # "current" /\ Update(c) => live' = live]_dbVars

\* README.md:33: "Agent state, audit events ... persist": an agent that has an event has a
\* row.  One whose row failed to be written stays in memory and is overridden.
EventsHaveRows == \A e \in Events : e \in committed.events => committed.row[e[2]] # NoRow

\* README.md:33: "Agent state ... persist": an agent that answers requests has a row, and
\* one that has a row answers.
AgentsPersist == pending = NoRow => \A h \in Agents : h \in memory <=> committed.row[h] # NoRow
=============================================================================
