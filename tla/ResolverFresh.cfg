SPECIFICATION Spec
CONSTANTS
    c1 = c1
    c2 = c2
    u1 = u1
    x1 = x1
    x2 = x2
    s1 = s1
    s2 = s2
    None = None
    Clients = {c1, c2}
    Uris = {u1}
    Tags = {}
    Contents = {x1, x2}
    SnapIds = {s1, s2}
    Policies <- FetchPolicies
    Second = 1
    MaxTime = 2
SYMMETRY Symmetry
INVARIANTS
    AnswerIsFresh
    ObservedAtIsHonest
    RowsHaveTheirBytes
    MaterializedIsObserved
    DeliveredReplays
