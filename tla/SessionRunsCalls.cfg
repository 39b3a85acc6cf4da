SPECIFICATION Spec
CONSTANTS
    None = None
    a = a
    r1 = r1
    r2 = r2
    r3 = r3
    r4 = r4
    Sessions = {a, b}
    RunIds = {r1, r2, r3, r4}
    RunId <- CollidingIds
    MaxProbe = 2
    Calls = {c1, c2, c3, c4, c5}
    Kinds = {"resolve", "end", "commit", "manifest", "unload"}
    MaxEnds = 1
    Faults = FALSE
SYMMETRY Symmetry
INVARIANTS
    TypeOK
    ReportedReadIsSo
    OneSessionPerRun
    EndedSessionIsCommitted
    UnloadCommits
CHECK_DEADLOCK FALSE
