SPECIFICATION Spec
CONSTANTS
    None = None
    a = a
    r1 = r1
    r2 = r2
    r3 = r3
    r4 = r4
    Sessions = {a}
    RunIds = {r1, r2, r3, r4}
    RunId <- OneSessionIds
    MaxProbe = 4
    Calls = {c1, c2, c3, c4}
    Kinds = {"resolve", "end"}
    MaxEnds = 2
    Faults = FALSE
SYMMETRY Symmetry
INVARIANTS
    EndedSessionIsCommitted
CHECK_DEADLOCK FALSE
