SPECIFICATION Spec
CONSTANTS
    w1 = w1
    w2 = w2
    h1 = h1
    i1 = i1
    i2 = i2
    i3 = i3
    None = None
    Writers = {w1, w2}
    Hashes = {h1}
    Inodes = {i1, i2, i3}
    Chunks = 1
SYMMETRY Symmetry
INVARIANTS
    PublishedIsWhole
