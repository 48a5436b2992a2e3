---------------------------- MODULE MCL1Discovery ----------------------------
(***************************************************************************)
(* L1Discovery for TLC: three skills of three kinds, two queries that       *)
(* differ in nothing but case, and renames that form a chain or a circle.  *)
(***************************************************************************)
EXTENDS L1Discovery, TLC

CONSTANTS sa, sb, sc, ask, ASK, near, far, eu, us, k

Row(s, e, g, kind) == [id |-> s, embedding |-> e, region |-> g, kind |-> kind]

\* sa is indexed for one region, and then again with another embedding for all of them.
MCRows == {Row(sa, near, eu, 1), Row(sa, far, GL, 1), Row(sb, far, GL, 1),
           Row(sb, near, us, 3), Row(sc, near, GL, 2)}

MCRegion == [q \in Queries |-> eu]
MCCacheKey == [q \in Queries |-> k]

MCScore == [x \in Queries \X {near, far} |->
              CASE x = <<ask, near>> -> 97 [] x = <<ask, far>> -> 90
                [] x = <<ASK, near>> -> 90 [] x = <<ASK, far>> -> 60]

MCRenames == {<<sa, sb>>, <<sb, sc>>, <<sb, sa>>}

ThreadSymmetry == Permutations(Threads)
=============================================================================
