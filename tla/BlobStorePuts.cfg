SPECIFICATION FairSpec
CONSTANTS
    w1 = w1  w2 = w2  w3 = w3  h1 = h1
    i1 = i1  i2 = i2  i3 = i3  i4 = i4
    None = None
    Writers = {w1, w2, w3}
    Hashes = {h1}
    Inodes = {i1, i2, i3, i4}
    Chunks = 2
INVARIANTS
    WholeUnlessOverlapped
    AnsweredIsStored
    TornOnlyWhileWritten
PROPERTIES
    PublishedBecomesStored
