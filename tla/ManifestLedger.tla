--------------------------- MODULE ManifestLedger ---------------------------
(***************************************************************************)
(* What Readproof promises about runs, with every statement of a request   *)
(* that matters made one atomic step: a run is a log of staged entries,    *)
(* and its manifest is a prefix of that log, sealed once and published     *)
(* once.  RunBuilder implements it (RunBuilder!Implements).                *)
(*                                                                         *)
(* The log may grow after the seal: the code does not prevent it.          *)
(***************************************************************************)
EXTENDS Naturals, FiniteSets

CONSTANTS Runs, Entries

VARIABLES
    phase,   \* run -> "none" | "open" | "committed"
    staged,  \* run -> log: positions 0 .. n-1 -> entry
    sealed   \* run -> {} or {the log prefix its manifest records}

vars == <<phase, staged, sealed>>

Length(log) == Cardinality(DOMAIN log)

Prefix(log, n) == [p \in 0 .. n - 1 |-> log[p]]

Init ==
    /\ phase = [r \in Runs |-> "none"]
    /\ staged = [r \in Runs |-> Prefix(<<>>, 0)]
    /\ sealed = [r \in Runs |-> {}]

Open(r) ==
    /\ phase[r] = "none"
    /\ phase' = [phase EXCEPT ![r] = "open"]
    /\ UNCHANGED <<staged, sealed>>

Stage(r, e) ==
    /\ phase[r] # "none"
    /\ staged' = [staged EXCEPT ![r] =
                     [p \in 0 .. Length(@) |->
                         IF p = Length(@) THEN e ELSE @[p]]]
    /\ UNCHANGED <<phase, sealed>>

Seal(r) ==
    /\ phase[r] = "open"
    /\ sealed[r] = {}
    /\ \E n \in 0 .. Length(staged[r]) :
          sealed' = [sealed EXCEPT ![r] = {Prefix(staged[r], n)}]
    /\ UNCHANGED <<phase, staged>>

Publish(r) ==
    /\ sealed[r] # {}
    /\ phase' = [phase EXCEPT ![r] = "committed"]
    /\ UNCHANGED <<staged, sealed>>

Next ==
    \E r \in Runs : \/ Open(r) \/ Seal(r) \/ Publish(r)
                    \/ \E e \in Entries : Stage(r, e)

Spec == Init /\ [][Next]_vars
=============================================================================
