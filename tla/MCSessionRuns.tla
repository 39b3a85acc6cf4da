--------------------------- MODULE MCSessionRuns ---------------------------
(* SessionRuns on small instances. *)
EXTENDS SessionRuns, TLC

CONSTANTS a, r1, r2, r3, r4

\* No behaviour gets beyond the fourth epoch: the ids after it are not used.
Ids(ids) == [e \in 1 .. MaxProbe * Cardinality(Calls) |-> ids[IF e < 4 THEN e ELSE 4]]

\* The second epoch of session a has the id of the first one of session b:
\* `x` and `x-2` are both session ids.
CollidingIds == [s \in Sessions |-> Ids(IF s = a THEN <<r1, r2, r3, r4>>
                                        ELSE <<r2, r4, r3, r1>>)]

OneSessionIds == [s \in Sessions |-> Ids(<<r1, r2, r3, r4>>)]

Symmetry == Permutations(Calls)
=============================================================================
