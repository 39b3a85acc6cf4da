SPECIFICATION FairSpec
CONSTANTS
    None = None
    a = a
    r1 = r1
    r2 = r2
    r3 = r3
    r4 = r4
    Sessions = {a}
    RunIds = {r1, r2, r3, r4}
    RunId <- OneSessionIds
    MaxProbe = 2
    Calls = {c1, c2, c3}
    Kinds = {"resolve", "end", "commit", "manifest"}
    MaxEnds = 2
    Faults = TRUE
PROPERTIES
    CallsFinish
CHECK_DEADLOCK FALSE
