----------------------------- MODULE MCResolver -----------------------------
(* Resolver on small instances. *)
EXTENDS Resolver, TLC

Policy(strategy, age, pin) == [strategy |-> strategy, maxAge |-> age, pin |-> pin]

\* Policies without a pin: always fetch, a TTL of one second, no TTL.
FetchPolicies ==
    {Policy("require_fresh", 0, None), Policy("allow_stale", Second, None),
     Policy("allow_stale", 0, None)}

\* Stored snapshots only: pinned to any id, minted or not, and no TTL.
StoredPolicies ==
    {Policy("allow_stale", 0, None)}
        \cup {Policy("pinned", 0, s) : s \in SnapIds}

Symmetry ==
    Permutations(Clients) \cup Permutations(Uris) \cup Permutations(Contents)
        \cup Permutations(SnapIds)
=============================================================================
