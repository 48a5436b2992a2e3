------------------------------ MODULE MCEngine ------------------------------
(***************************************************************************)
(* A small instance of Engine for TLC.                                     *)
(***************************************************************************)
EXTENDS Engine, TLC

CONSTANTS s1, s2, ask, ASK, bad, ignore, eu, us, gl, none, med, MED

\* ASK is ask in capitals, and MED is med.
MCNorm == [p \in Prompts |-> IF p = ASK THEN ask ELSE p]
MCLowerTag == [t \in Tags |-> med]

\* bad holds a blob that decodes to an override.
MCBlobs == [p \in Prompts |-> IF p = bad THEN {ignore} ELSE {}]

\* No prompt needs the backend but ASK, for which it may fail.
MCBackend == [p \in Prompts |-> IF p = ASK THEN {"allow", "review", "raises"} ELSE {}]

\* s1 is indexed for every region, s2 for one.
Regional == [s \in Skills |-> IF s = s1 THEN gl ELSE us]

\* ask fits s1; ASK, whose embedding differs, fits s2 a little.
Mixed == [x \in Prompts \X Skills |->
            CASE x[1] = ask /\ x[2] = s1 -> "high"
              [] x[1] = ASK /\ x[2] = s2 -> "review"
              [] OTHER                   -> "low"]

\* s1 was registered for one region after it had been indexed for all; s2 is not
\* registered at first.
European == [slot |-> "blue", region |-> eu, tags |-> {}, level |-> "P2"]
Medical  == [slot |-> "green", region |-> gl, tags |-> {MED}, level |-> "P0"]

MCEntries == {European, Medical}
Moved == [s \in Skills |-> IF s = s1 THEN European ELSE none]

\* No medical skills in eu.
MCBlocked == [g \in Regions |-> IF g = eu THEN {med} ELSE {}]

\* No property tells two threads apart.
ThreadSymmetry == Permutations(Threads)

\* Once a request has found its skill, the pipeline and the properties of the run look at
\* its prompt through Norm only: states that differ in no more than the spelling are one.
Found == {"found", "fetch", "l2", "load", "reload", "l3", "run", "store"}

Spelt == [t \in Threads |-> IF call[t] # Nothing /\ call[t].pc \in Found
                              THEN [call[t] EXCEPT !.prompt = Norm[@]] ELSE call[t]]

View == <<l1, l2, l3, routes, cache, registry, Spelt, answer, updates>>
=============================================================================
