---------------------------- MODULE MCBlobStore ----------------------------
(* BlobStore on small instances. *)
EXTENDS BlobStore, TLC

Symmetry ==
    Permutations(Writers) \cup Permutations(Hashes) \cup Permutations(Inodes)
=============================================================================
