----------------------------- MODULE Manifests -----------------------------
(***************************************************************************)
(* What the program computes from committed manifests: the Merkle root     *)
(* (internal/merkle), the replay (internal/replay) and the difference of   *)
(* two manifests (internal/diff), as functions of the manifests and of a   *)
(* store [snapshots, mats, blobs].                                         *)
(*                                                                         *)
(* A manifest is the sequence of its entries [position, uri, ref,          *)
(* snapshot, materialization, hash], positions counted from 0.  SHA-256    *)
(* does not collide, so a content is its own hash, and a leaf or a node of *)
(* the tree is the tuple it is the hash of.                                *)
(*                                                                         *)
(* X_bug is X as a plausible mistake would have it, used by no             *)
(* specification; the README names the property it breaks.                 *)
(***************************************************************************)
EXTENDS Naturals, Sequences, FiniteSets, FiniteSetsExt

CONSTANTS
    None,   \* a missing row or file, the empty Go string
    Failed  \* the answer of a call that failed

ASSUME NoneIsNoFailure == None # Failed

-----------------------------------------------------------------------------
(* The Merkle tree *)

Leaf_noPosition(position, uri, hash) == <<"leaf", uri, hash>>

Leaf(position, uri, hash) == <<"leaf", position, uri, hash>>

\* One pass over a level: the odd node out is paired with itself.
NextLevel(level) ==
    [i \in 1 .. (Len(level) + 1) \div 2 |->
        <<"node", level[2 * i - 1],
                  level[IF 2 * i <= Len(level) THEN 2 * i ELSE 2 * i - 1]>>]

\* Passes are made until one node is left.
Passed(level) == IF Len(level) > 1 THEN NextLevel(level) ELSE level

Levels(leaves) ==
    LET level[n \in 0 .. Len(leaves)] ==
            IF n = 0 THEN leaves ELSE Passed(level[n - 1])
    IN  level

Root(leaves) ==
    IF leaves = <<>> THEN <<"empty">> ELSE Levels(leaves)[Len(leaves)][1]

MerkleRoot(entries) ==
    Root([i \in DOMAIN entries |->
             Leaf(entries[i].position, entries[i].uri, entries[i].hash)])

\* What the root commits to.
Committed(entries) ==
    [i \in DOMAIN entries |->
        <<entries[i].position, entries[i].uri, entries[i].hash>>]

-----------------------------------------------------------------------------
(* Replay: entry, materialization, blob, and the hash of what was read *)

ReplayedContent(store, e) ==
    IF store.mats[e.materialization] = None THEN None
    ELSE store.blobs[store.mats[e.materialization]]

ReplayEntry(store, e) ==
    LET content == ReplayedContent(store, e) IN
    [position |-> e.position, uri |-> e.uri, recorded |-> e.hash,
     replayed |-> content, content |-> content, match |-> e.hash = content]

\* One entry that cannot be read fails the replay of all.
Replay(store, entries) ==
    IF \E i \in DOMAIN entries : ReplayedContent(store, entries[i]) = None
    THEN Failed
    ELSE [i \in DOMAIN entries |-> ReplayEntry(store, entries[i])]

AllMatch(replayed) == \A i \in DOMAIN replayed : replayed[i].match

-----------------------------------------------------------------------------
(* The difference of two manifests *)

UrisOf(entries) == {entries[i].uri : i \in DOMAIN entries}

\* Of the entries that mount one URI, the last.
EntriesByUri(entries) ==
    [u \in UrisOf(entries) |->
        entries[Max({i \in DOMAIN entries : entries[i].uri = u})]]

Absent == [snapshot |-> None, provenance |-> None, ref |-> None]

\* The snapshot that an entry names, its provenance, and the ref.
SideOf(store, byUri, u) ==
    IF u \notin DOMAIN byUri THEN Absent
    ELSE [snapshot   |-> byUri[u].snapshot,
          provenance |-> store.snapshots[byUri[u].snapshot],
          ref        |-> byUri[u].ref]

StatusOf(a, b, u) ==
    CASE u \notin DOMAIN b -> "removed"
      [] u \notin DOMAIN a -> "added"
      [] u \in DOMAIN a \cap DOMAIN b /\ a[u].hash = b[u].hash -> "unchanged"
      [] OTHER -> "changed"

\* A snapshot row is needed of every side; a blob, of changed ones only.
Unreadable(store, a, b, u) ==
    \/ u \in DOMAIN a /\ store.snapshots[a[u].snapshot] = None
    \/ u \in DOMAIN b /\ store.snapshots[b[u].snapshot] = None
    \/ /\ StatusOf(a, b, u) = "changed"
       /\ None \in {store.blobs[a[u].hash], store.blobs[b[u].hash]}

EntryDiff(store, a, b, u) ==
    [status |-> StatusOf(a, b, u),
     a |-> SideOf(store, a, u), b |-> SideOf(store, b, u),
     text |-> IF StatusOf(a, b, u) = "changed"
              THEN <<store.blobs[a[u].hash], store.blobs[b[u].hash]>>
              ELSE None]

UnionUris_ofFirst(a, b) == DOMAIN a

UnionUris(a, b) == DOMAIN a \cup DOMAIN b

Diff(store, entriesA, entriesB) ==
    LET a == EntriesByUri(entriesA)
        b == EntriesByUri(entriesB)
    IN  IF \E u \in UnionUris(a, b) : Unreadable(store, a, b, u) THEN Failed
        ELSE [u \in UnionUris(a, b) |-> EntryDiff(store, a, b, u)]

\* Result.Counts
Count(diff, status) == Cardinality({u \in DOMAIN diff : diff[u].status = status})

-----------------------------------------------------------------------------
(* Properties *)

Mirrored(status) ==
    CASE status = "added" -> "removed" [] status = "removed" -> "added"
      [] OTHER -> status

EachOnce(entries) == Cardinality(UrisOf(entries)) = Len(entries)

ReadsOf(entries) ==
    {<<entries[i].uri, entries[i].hash>> : i \in DOMAIN entries}

ReplayOf(replayed, u) == (CHOOSE i \in DOMAIN replayed : replayed[i].uri = u)

\* Positions are 0, 1, ... and the Merkle root commits to them, so two
\* manifests have one root exactly when they record the same reads in the same
\* order, although the rule for odd levels gives lists of leaves of different
\* lengths the same tree (merkle.go:58-62).
RootBinds(a, b) ==
    MerkleRoot(a) = MerkleRoot(b) <=> Committed(a) = Committed(b)

\* The other direction of a difference says the same; no URI is left out of the
\* counts; and when neither manifest mounts a URI twice, a difference without
\* changes means that the two runs read the same, and the texts it compares are
\* the bytes the two replays verify.
DiffIs(store, a, b) ==
    LET ab == Diff(store, a, b)
        ba == Diff(store, b, a)
        ra == Replay(store, a)
        rb == Replay(store, b)
    IN  /\ ab = Failed <=> ba = Failed
        /\ ab # Failed =>
            /\ DOMAIN ab = DOMAIN ba
            /\ \A u \in DOMAIN ab :
                /\ ba[u].status = Mirrored(ab[u].status)
                /\ ba[u].a = ab[u].b /\ ba[u].b = ab[u].a
            /\ EachOnce(a) /\ EachOnce(b) =>
                /\ Count(ab, "unchanged") = Cardinality(DOMAIN ab)
                      <=> ReadsOf(a) = ReadsOf(b)
                /\ Count(ab, "unchanged") + Count(ab, "changed")
                      + Count(ab, "removed") = Len(a)
                /\ ra # Failed /\ rb # Failed /\ AllMatch(ra) /\ AllMatch(rb) =>
                    \A u \in DOMAIN ab :
                        ab[u].status = "changed" =>
                            ab[u].text = <<ra[ReplayOf(ra, u)].content,
                                           rb[ReplayOf(rb, u)].content>>
=============================================================================
