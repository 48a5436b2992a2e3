---------------------------- MODULE RateLimiter ----------------------------
(***************************************************************************)
(* The telemetry rate limit of backend/main.py: a deque of arrival times   *)
(* per client.  _check_telemetry_rate never suspends, since nobody holds   *)
(* its lock across an await: it is one step of the event loop.             *)
(*                                                                         *)
(* A time is kept as its age, and ages past the window are all alike.      *)
(***************************************************************************)
EXTENDS Naturals, Sequences

CONSTANTS Ips, NoClient,
          RateLimit,   \* TELEMETRY_RATE_LIMIT
          Window,      \* the 60 seconds, in ticks of the model's clock
          StartBound   \* how many restarts there are within a window

ASSUME RateAssumption ==
  RateLimit \in Nat /\ Window \in Nat /\ StartBound \in Nat /\ NoClient \notin Ips

VARIABLES window,   \* _telemetry_window: ages of the requests let through, oldest first
          recent,   \* history: recent[c][a] requests of c got through at most a ticks ago
                    \* in this process,
          earlier,  \* and earlier[c][a] in the processes before it
          starts,   \* history: how many restarts there were at most a ticks ago
          refused   \* history: the client that was answered 429 last, until time passes

rateVars == <<window, recent, earlier, starts, refused>>

Ages == 0..Window
None == [a \in Ages |-> 0]

RateInit ==
  /\ window = [c \in Ips |-> << >>]
  /\ recent = [c \in Ips |-> None] /\ earlier = recent /\ starts = None
  /\ refused = NoClient

\* The loop takes requests from the left until the deque is empty or begins with one that
\* is younger than old.
Popped(w, old) ==
  LET n == CHOOSE n \in 0..Len(w) : /\ \A i \in 1..n : w[i] >= old
                                    /\ n < Len(w) => w[n + 1] < old
  IN  SubSeq(w, n + 1, Len(w))

EvictedAtWindow(w) == Popped(w, Window)   \* mutant: ">=" 60 seconds
EvictedNever(w) == w                      \* mutant: the deque only grows

Evicted(w) == Popped(w, Window + 1)

Full(w) == Len(Evicted(w)) >= RateLimit

LetThrough(c) ==
  /\ ~Full(window[c])
  /\ window' = [window EXCEPT ![c] = Append(Evicted(@), 0)]
  /\ recent' = [recent EXCEPT ![c] = [a \in Ages |-> @[a] + 1]]
  /\ refused' = NoClient
  /\ UNCHANGED <<earlier, starts>>

TooMany(c) ==
  /\ Full(window[c])
  /\ window' = [window EXCEPT ![c] = Evicted(@)]
  /\ refused' = c
  /\ UNCHANGED <<recent, earlier, starts>>

\* A tick later.
Aged(count) == [a \in Ages |-> IF a = 0 THEN 0 ELSE count[a - 1]]

Tick ==
  /\ window' = [c \in Ips |-> [i \in DOMAIN window[c] |->
                  IF window[c][i] <= Window THEN window[c][i] + 1 ELSE window[c][i]]]
  /\ recent' = [c \in Ips |-> Aged(recent[c])]
  /\ earlier' = [c \in Ips |-> Aged(earlier[c])]
  /\ starts' = Aged(starts)
  /\ refused' = NoClient

\* A new process has an empty dict.
Forget ==
  /\ starts[Window] < StartBound
  /\ window' = [c \in Ips |-> << >>]
  /\ recent' = [c \in Ips |-> None]
  /\ earlier' = [c \in Ips |-> [a \in Ages |-> earlier[c][a] + recent[c][a]]]
  /\ starts' = [a \in Ages |-> starts[a] + 1]
  /\ refused' = NoClient

-----------------------------------------------------------------------------
(* Properties *)

Through(c) == recent[c][Window]

\* README.md:38: what gets through of a client in any 60 seconds, both ends included, is at
\* most the limit, and as much again for every restart in that time.
AtMostLimit ==
  \A c \in Ips : Through(c) + earlier[c][Window] <= RateLimit * (1 + starts[Window])

\* A client is answered 429 only when requests of its own to this process use up the limit:
\* refused ones, old ones and those of other clients do not count.
RefusalsAreEarned == refused # NoClient => Through(refused) = RateLimit

-----------------------------------------------------------------------------
(* Claims of the repository that the code does not keep: see the README. *)

\* README.md:38: "Per-IP 60 req/min sliding window", in any minute: a restart empties the
\* dict in the middle of one.
LimitInAnyMinute == \A c \in Ips : Through(c) + earlier[c][Window] <= RateLimit
=============================================================================
