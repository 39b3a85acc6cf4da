----------------------------- MODULE MCProcesses -----------------------------
(***************************************************************************)
(* Model checking of one fetch against its origin, and, apart from it, of  *)
(* processes starting over shared databases: each behaviour has one part.  *)
(***************************************************************************)
EXTENDS Sources, Startup

\* One at the cap, one below it and one above it.
MCLength == [v \in Versions |-> CASE v = "below" -> 1 [] v = "at" -> 2 [] OTHER -> 3]

MCMigrations == <<2, 1>>

\* Which database and which address are the child's makes no difference.
Init == \/ FetchInit /\ StartupOff
        \/ /\ FetchOff /\ StartupInit
           /\ proc[Child].database = "d1" /\ proc[Child].address = "a1"

Next == \/ FetchNext /\ UNCHANGED startupVars
        \/ StartupNext /\ UNCHANGED sourcesVars

Spec == Init /\ [][Next]_<<sourcesVars, startupVars>>
             /\ FetchFairness /\ StartupFairness
=============================================================================
