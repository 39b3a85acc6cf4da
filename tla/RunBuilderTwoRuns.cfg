SPECIFICATION FairSpec
CONSTANTS
    c1 = c1  c2 = c2  r1 = r1  r2 = r2  e1 = e1  m1 = m1  m2 = m2
    None = None
    Clients = {c1, c2}
    Runs = {r1, r2}
    Entries = {e1}
    ManifestIds = {m1, m2}
    MaxRows = 1
INVARIANTS
    CommittedNamesItsManifest
    ManifestIsStagedPrefix
PROPERTIES
    SealedForever
    Implements
    CommitCompletes
