SPECIFICATION Spec
CONSTANTS
    c1 = c1  c2 = c2  c3 = c3  r1 = r1  r2 = r2
    e1 = e1  e2 = e2  m1 = m1  m2 = m2  m3 = m3
    None = None
    Clients = {c1, c2, c3}
    Runs = {r1}
    Entries = {e1, e2}
    ManifestIds = {m1, m2}
    MaxRows = 1
SYMMETRY Symmetry
INVARIANTS
    PositionsContiguous
    AckedMountStaged
    ToldIsNotLater
    OneManifestPerRun
    CommitCoversAcked
