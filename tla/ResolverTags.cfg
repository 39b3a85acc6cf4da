SPECIFICATION Spec
CONSTANTS
    c1 = c1
    c2 = c2
    u1 = u1
    u2 = u2
    t1 = t1
    x1 = x1
    s1 = s1
    s2 = s2
    None = None
    Clients = {c1, c2}
    Uris = {u1, u2}
    Tags = {t1}
    Contents = {x1}
    SnapIds = {s1, s2}
    Policies <- StoredPolicies
    Second = 1
    MaxTime = 0
SYMMETRY Symmetry
INVARIANTS
    PointersAreOwn
    AnswerIsRecorded
