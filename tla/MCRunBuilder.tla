---------------------------- MODULE MCRunBuilder ----------------------------
(* RunBuilder on small instances. *)
EXTENDS RunBuilder, TLC

\* Requests, ids and resolved entries are interchangeable: none is compared
\* by anything but equality.
Symmetry ==
    Permutations(Clients) \cup Permutations(Runs) \cup Permutations(Entries)
        \cup Permutations(ManifestIds)
=============================================================================
