------------------------------ MODULE Evidence ------------------------------
(***************************************************************************)
(* Evidence bundles: Build in Go (internal/evidence/build.go) and          *)
(* buildEvidence in TypeScript (sdk/typescript/src/evidence.ts), which ask *)
(* a deployment for a manifest, its replay, snapshots and resources and    *)
(* must write the same bundle; and Verify (verify.go), later, after the    *)
(* file was perhaps damaged, with or without the store.  The store changes *)
(* between the calls: a blob is torn while it is being rewritten, a row or *)
(* a file is lost.                                                         *)
(*                                                                         *)
(* Times, formatting and the fixed strings of a bundle are left out.       *)
(***************************************************************************)
EXTENDS Clients

CONSTANTS
    Contents,    \* the contents recorded, which are their own hashes
    Empty,       \* the content without bytes
    Torn,        \* the bytes of a partly written file (or it has none)
    Entries,     \* the entries manifests are made of, without their positions
    MaxEntries,  \* bound: entries of a manifest
    MaxDamage,   \* bound: damages to the store
    NoFile       \* no bundle yet

ASSUME ContentsAreTyped ==
    /\ Empty \in Contents /\ Binary \subseteq Contents \ {Empty}
    /\ {Torn, Mojibake, None} \cap Contents = {} /\ Torn # Mojibake

\* A materialization is of the bytes that its entries record.
ASSUME EntriesAreTyped ==
    /\ \A e \in Entries : e.hash \in Contents
    /\ \A e, d \in Entries : e.materialization = d.materialization => e.hash = d.hash

VARIABLES
    store,     \* [snapshots, mats, blobs, resources]; resources is by URI
    manifest,  \* [id, run, entries], committed
    export,    \* [pc, by, withContent] and the answers so far
    bundle,    \* the file
    original,  \* history: the bundle as it was built
    report,    \* [ok, online] or NoFile
    damage     \* bound

evidenceVars == <<store, manifest, export, bundle, original, report, damage>>

Ids == {e.snapshot : e \in Entries}

Numbered(s) ==
    [i \in DOMAIN s |->
        [position |-> i - 1, uri |-> s[i].uri, ref |-> s[i].ref,
         snapshot |-> s[i].snapshot, materialization |-> s[i].materialization,
         hash |-> s[i].hash]]

\* A resource as registered: its header may carry a credential.
Registered(u) ==
    [uri |-> u, header |-> "secret", policy |-> "allow_stale", missing |-> FALSE]

WholeStore ==
    [snapshots |-> [s \in Ids |-> "provenance"],
     mats      |-> [m \in {e.materialization : e \in Entries} |->
                       (CHOOSE e \in Entries : e.materialization = m).hash],
     blobs     |-> [h \in Contents \cup {Torn} |-> IF h = Torn THEN None ELSE h],
     resources |-> [u \in {e.uri : e \in Entries} |-> Registered(u)]]

Exporting(pc, by, withContent) ==
    [pc |-> pc, by |-> by, withContent |-> withContent,
     replayed |-> Failed, snapshots |-> None, resources |-> None]

EvidenceInit ==
    /\ store = WholeStore
    /\ \E s \in BoundedSeq(Entries, MaxEntries) :
          manifest = [id |-> "manifest", run |-> "run", entries |-> Numbered(s)]
    /\ \E by \in {"go", "ts"}, withContent \in BOOLEAN :
          export = Exporting("replay", by, withContent)
    /\ bundle = NoFile /\ original = NoFile /\ report = NoFile
    /\ damage = 0

EvidenceOff ==
    /\ store = WholeStore
    /\ manifest = [id |-> "manifest", run |-> "run", entries |-> <<>>]
    /\ export = Exporting("off", "go", FALSE)
    /\ bundle = NoFile /\ original = NoFile /\ report = NoFile
    /\ damage = 0

-----------------------------------------------------------------------------
(* The store between the calls *)

Damaged(s) == store' = s /\ damage < MaxDamage /\ damage' = damage + 1

TearBlob(h) ==
    \E x \in {Torn, Empty} \ {h} : Damaged([store EXCEPT !.blobs[h] = x])

LoseBlob(h) == Damaged([store EXCEPT !.blobs[h] = None])

LoseMaterialization(m) == Damaged([store EXCEPT !.mats[m] = None])

LoseSnapshot(s) == Damaged([store EXCEPT !.snapshots[s] = None])

LoseResource(u) == Damaged([store EXCEPT !.resources[u] = None])

\* The put that was writing a blob finishes it.
FinishBlob(h) ==
    /\ store.blobs[h] \notin {h, None}
    /\ store' = [store EXCEPT !.blobs[h] = h]
    /\ UNCHANGED damage

StoreChanges ==
    /\ export.pc \notin {"off", "failed"} /\ report = NoFile
    /\ \E e \in ToSet(manifest.entries) :
          \/ TearBlob(e.hash) \/ LoseBlob(e.hash) \/ FinishBlob(e.hash)
          \/ LoseMaterialization(e.materialization)
          \/ LoseSnapshot(e.snapshot) \/ LoseResource(e.uri)
    /\ UNCHANGED <<manifest, export, bundle, original, report>>

-----------------------------------------------------------------------------
(* Build: the calls *)

AtCall(pc) ==
    /\ export.pc = pc
    /\ UNCHANGED <<store, manifest, original, report, damage>>

\* A replay that fails is recorded, not fatal.
AskReplay ==
    /\ AtCall("replay")
    /\ export' = [export EXCEPT !.pc = "snapshots",
                                !.replayed = Replay(store, manifest.entries)]
    /\ UNCHANGED bundle

\* GetSnapshot of every entry; one that is missing fails the export.
AskSnapshots ==
    /\ AtCall("snapshots")
    /\ LET got == [i \in DOMAIN manifest.entries |->
                      store.snapshots[manifest.entries[i].snapshot]]
       IN  export' = IF None \in Range(got)
                     THEN [export EXCEPT !.pc = "failed"]
                     ELSE [export EXCEPT !.pc = "resources", !.snapshots = got]
    /\ UNCHANGED bundle

\* GetResource of every URI, once each.
AskResources ==
    /\ AtCall("resources")
    /\ export' = [export EXCEPT
                     !.pc = "write",
                     !.resources = [u \in UrisOf(manifest.entries) |->
                                       store.resources[u]]]
    /\ UNCHANGED bundle

-----------------------------------------------------------------------------
(* Build in Go *)

MissingResource(u) ==
    [uri |-> u, header |-> None, policy |-> None, missing |-> TRUE]

BuildResources_raw(got) ==
    [u \in DOMAIN got |-> IF got[u] = None THEN MissingResource(u) ELSE got[u]]

\* The header is redacted here too: a local client answers it raw.
BuildResources(got) ==
    [u \in DOMAIN got |->
        IF got[u] = None THEN MissingResource(u)
        ELSE [got[u] EXCEPT !.header = Redact(@)]]

BuildReplay(replayed) ==
    IF replayed = Failed
    THEN [allMatch |-> FALSE, entries |-> <<>>, error |-> TRUE]
    ELSE [allMatch |-> AllMatch(replayed) /\ Len(replayed) = Len(manifest.entries),
          entries  |-> [i \in DOMAIN replayed |->
                           [position |-> replayed[i].position,
                            match    |-> replayed[i].match,
                            expected |-> replayed[i].recorded,
                            actual   |-> replayed[i].replayed]],
          error    |-> Len(replayed) # Len(manifest.entries)]

\* content_b64 is omitted when it would be empty: here None.
ContentOf(e, x) ==
    IF ~x.withContent \/ x.replayed = Failed THEN None
    ELSE LET at == {i \in DOMAIN x.replayed : x.replayed[i].position = e.position}
         IN  IF at = {} THEN None
             ELSE LET content == x.replayed[CHOOSE i \in at : TRUE].content
                  IN  IF content = Empty THEN None ELSE content

BuildEntries(x) ==
    [i \in DOMAIN manifest.entries |->
        LET e == manifest.entries[i] IN
        [position |-> e.position, uri |-> e.uri, ref |-> e.ref,
         snapshot |-> e.snapshot, materialization |-> e.materialization,
         hash |-> e.hash, provenance |-> x.snapshots[i],
         content |-> ContentOf(e, x)]]

Statement(entries, resources, replay) ==
    [type      |-> "statement",
     subject   |-> <<[name |-> manifest.id, digest |-> MerkleRoot(entries)]>>,
     predicateType |-> "evidence",
     run       |-> manifest.run,
     manifest  |-> manifest.id,
     root      |-> MerkleRoot(entries),
     entries   |-> entries,
     resources |-> resources,
     replay    |-> replay]

Build(x) ==
    Statement(BuildEntries(x), BuildResources(x.resources), BuildReplay(x.replayed))

-----------------------------------------------------------------------------
(* buildEvidence in TypeScript.  The SDK speaks to readproofd: it gets headers *)
(* redacted, and contents as base64 that it decodes to text.               *)

buildReplay(replayed) ==
    IF replayed = Failed
    THEN [section |-> [allMatch |-> FALSE, entries |-> <<>>, error |-> TRUE],
          contentByPosition |-> <<>>]
    ELSE LET short == Len(replayed) # Len(manifest.entries) IN
         [section |->
             [allMatch |-> ~short /\ \A i \in DOMAIN replayed : replayed[i].match,
              entries  |-> [i \in DOMAIN replayed |->
                               [position |-> replayed[i].position,
                                match    |-> replayed[i].match,
                                expected |-> replayed[i].recorded,
                                actual   |-> replayed[i].replayed]],
              error    |-> short],
          contentByPosition |->
             [p \in {replayed[i].position : i \in DOMAIN replayed} |->
                 Decoded(replayed[CHOOSE i \in DOMAIN replayed :
                                     replayed[i].position = p].content)]]

\* Here a content that is there is written, the empty one too.
buildEntries(x, contentByPosition) ==
    [i \in DOMAIN manifest.entries |->
        LET e == manifest.entries[i] IN
        [position |-> e.position, uri |-> e.uri, ref |-> e.ref,
         snapshot |-> e.snapshot, materialization |-> e.materialization,
         hash |-> e.hash, provenance |-> x.snapshots[i],
         content |-> IF x.withContent /\ e.position \in DOMAIN contentByPosition
                     THEN contentByPosition[e.position] ELSE None]]

\* What GET /v1/resources/get answers, redacted once more.
buildResources(got) ==
    [u \in DOMAIN got |->
        IF got[u] = None THEN MissingResource(u)
        ELSE [got[u] EXCEPT !.header = Redact(Redact(@))]]

buildEvidence(x) ==
    LET replay  == buildReplay(x.replayed)
        entries == buildEntries(x, replay.contentByPosition)
    IN  Statement(entries, buildResources(x.resources), replay.section)

WriteBundle ==
    /\ export.pc = "write"
    /\ bundle' = IF export.by = "go" THEN Build(export) ELSE buildEvidence(export)
    /\ original' = bundle'
    /\ export' = [export EXCEPT !.pc = "written"]
    /\ UNCHANGED <<store, manifest, report, damage>>

-----------------------------------------------------------------------------
(* The file is damaged: one field, or one entry, of it changes.            *)

EntriesEdited(b) ==
    LET es == b.entries
        n  == Len(es)
    IN  IF n = 0 THEN {} ELSE
        {Front(es), Append(es, Last(es))}
        \cup {[es EXCEPT ![i] = es[i + 1], ![i + 1] = es[i]] : i \in 1 .. n - 1}
        \cup UNION {{[es EXCEPT ![i].position = @ + 1], [es EXCEPT ![i].uri = None],
                     [es EXCEPT ![i].hash = Torn], [es EXCEPT ![i].ref = Torn],
                     [es EXCEPT ![i].content = IF @ = None THEN None ELSE Torn],
                     [es EXCEPT ![i].content = None]} : i \in 1 .. n}

Edited(b) ==
    {[b EXCEPT !.entries = es] : es \in EntriesEdited(b)}
    \cup {[b EXCEPT !.type = None], [b EXCEPT !.predicateType = None],
          [b EXCEPT !.subject = <<>>], [b EXCEPT !.subject = @ \o @],
          [b EXCEPT !.subject[1].name = None],
          [b EXCEPT !.subject[1].digest = None],
          [b EXCEPT !.manifest = None], [b EXCEPT !.root = None],
          [b EXCEPT !.run = None], [b EXCEPT !.resources = <<>>],
          [b EXCEPT !.replay.allMatch = ~@]}

EditBundle ==
    /\ export.pc = "written" /\ report = NoFile
    /\ bundle' \in Edited(bundle)
    /\ export' = [export EXCEPT !.pc = "edited"]
    /\ UNCHANGED <<store, manifest, original, report, damage>>

-----------------------------------------------------------------------------
(* Verify *)

VerifyStatement(b) == b.type = "statement" /\ b.predicateType = "evidence"

VerifyMerkle(b) ==
    /\ Len(b.subject) = 1
    /\ b.subject[1].name = b.manifest
    /\ b.subject[1].digest = MerkleRoot(b.entries)
    /\ b.root = MerkleRoot(b.entries)

VerifyEntryOrder_ascending(b) ==
    \A i, j \in DOMAIN b.entries :
        i <= j => b.entries[i].position <= b.entries[j].position

VerifyEntryOrder(b) ==
    \A i \in DOMAIN b.entries : b.entries[i].position = i - 1

\* A content_b64 that is absent or empty is not looked at.
VerifyEmbeddedContent(b) ==
    \A i \in DOMAIN b.entries :
        b.entries[i].content \in {None, Empty, b.entries[i].hash}

\* The manifest that the bundle names is replayed again, now.
VerifyAgainstStore(b) ==
    LET target   == IF b.manifest # None THEN b.manifest ELSE b.run
        replayed == IF target \in {manifest.id, manifest.run}
                    THEN Replay(store, manifest.entries) ELSE Failed
    IN  /\ replayed # Failed
        /\ Len(replayed) = Len(b.entries)
        /\ \A i \in DOMAIN b.entries :
              \E j \in DOMAIN replayed :
                  /\ replayed[j].position = b.entries[i].position
                  /\ replayed[j].replayed = b.entries[i].hash

Verify(b, online) ==
    [ok |-> /\ VerifyStatement(b)
            /\ VerifyMerkle(b)
            /\ VerifyEntryOrder(b)
            /\ VerifyEmbeddedContent(b)
            /\ online => VerifyAgainstStore(b),
     online |-> online]

VerifyBundle(online) ==
    /\ export.pc \in {"written", "edited"} /\ report = NoFile
    /\ report' = Verify(bundle, online)
    /\ UNCHANGED <<store, manifest, export, bundle, original, damage>>

EvidenceNext ==
    \/ StoreChanges
    \/ AskReplay \/ AskSnapshots \/ AskResources \/ WriteBundle
    \/ EditBundle
    \/ \E online \in BOOLEAN : VerifyBundle(online)

EvidenceSpec == EvidenceInit /\ [][EvidenceNext]_evidenceVars

-----------------------------------------------------------------------------
(* Properties *)

Commitments(b) ==
    [type |-> b.type, predicateType |-> b.predicateType, subject |-> b.subject,
     manifest |-> b.manifest, root |-> b.root, reads |-> Committed(b.entries)]

\* Every byte that the manifest recorded is in the store.
StoreHolds(entries) ==
    \A i \in DOMAIN entries :
        /\ store.mats[entries[i].materialization] = entries[i].hash
        /\ store.blobs[entries[i].hash] = entries[i].hash

\* An entry whose bytes are in the bundle.
Embedded(b, i) == b.entries[i].content \notin {None, Empty}

\* Verify accepts exactly the bundles whose commitments are those of the export,
\* whose embedded contents are those of the export and were whole then (and
\* text, if TypeScript wrote them), and, unless it is offline, whose manifest the
\* store still holds byte for byte.  So one lost, doubled, swapped or changed
\* entry is noticed, as is a blob that was torn during the export or is torn
\* now, and nothing else is refused.
VerifyIsExact ==
    report # NoFile =>
        (report.ok <=>
            /\ Commitments(bundle) = Commitments(original)
            /\ \A i \in DOMAIN bundle.entries :
                  Embedded(bundle, i) =>
                     /\ bundle.entries[i].content = original.entries[i].content
                     /\ original.replay.entries[i].match
                     /\ ~(export.by = "ts" /\ bundle.entries[i].hash \in Binary)
            /\ report.online => StoreHolds(manifest.entries))

WithoutContent(b) ==
    [b EXCEPT !.entries =
        [i \in DOMAIN b.entries |-> [b.entries[i] EXCEPT !.content = None]]]

\* From the same answers the two exporters write the same bundle
\* (evidence.ts:5-8), whatever is missing or torn, up to the embedded bytes of
\* binary and of empty contents.
ExportersAgree ==
    export.pc = "write" =>
        LET go == Build(export)
            ts == buildEvidence(export)
        IN  /\ WithoutContent(go) = WithoutContent(ts)
            /\ \A i \in DOMAIN go.entries :
                  go.entries[i].content = ts.entries[i].content
                  \/ go.entries[i].content \in Binary
                  \/ ts.entries[i].content = Empty

-----------------------------------------------------------------------------
(* The inductive invariant of the proofs *)

\* A materialization is lost or of its bytes; it is never of other ones.
StoreIs ==
    /\ store = [snapshots |-> store.snapshots, mats |-> store.mats,
                blobs |-> store.blobs, resources |-> store.resources]
    /\ DOMAIN store.mats = {e.materialization : e \in Entries}
    /\ \A e \in Entries : store.mats[e.materialization] \in {None, e.hash}

ManifestIs ==
    \E s \in BoundedSeq(Entries, MaxEntries) :
        manifest = [id |-> "manifest", run |-> "run", entries |-> Numbered(s)]

\* The answer of a replay at some time: what was read of each entry is not known,
\* but it was compared with what the entry records.
IsReplay(r, entries) ==
    \/ r = Failed
    \/ r = [i \in DOMAIN entries |->
               [position |-> entries[i].position, uri |-> entries[i].uri,
                recorded |-> entries[i].hash, replayed |-> r[i].content,
                content |-> r[i].content, match |-> entries[i].hash = r[i].content]]

ExportIs ==
    /\ export = [pc |-> export.pc, by |-> export.by, withContent |-> export.withContent,
                 replayed |-> export.replayed, snapshots |-> export.snapshots,
                 resources |-> export.resources]
    /\ export.by \in {"go", "ts"}
    /\ export.pc # "replay" => IsReplay(export.replayed, manifest.entries)

\* The entries of a bundle are the manifest's, and of an embedded content it can be
\* told from the bundle whether it is the one recorded.
EntriesAreExported(b) ==
    /\ b.entries =
          [i \in DOMAIN manifest.entries |->
              [position |-> manifest.entries[i].position, uri |-> manifest.entries[i].uri,
               ref |-> manifest.entries[i].ref, snapshot |-> manifest.entries[i].snapshot,
               materialization |-> manifest.entries[i].materialization,
               hash |-> manifest.entries[i].hash,
               provenance |-> b.entries[i].provenance, content |-> b.entries[i].content]]
    /\ \A i \in DOMAIN b.entries :
          Embedded(b, i) =>
             (b.entries[i].content = b.entries[i].hash <=>
                 /\ b.replay.entries[i].match
                 /\ ~(export.by = "ts" /\ b.entries[i].hash \in Binary))

OriginalIs ==
    export.pc \in {"written", "edited"} =>
        /\ original = Statement(original.entries, original.resources, original.replay)
        /\ EntriesAreExported(original)

BundleIs ==
    /\ export.pc = "written" => bundle = original
    /\ export.pc = "edited" => bundle \in Edited(original)

\* Once there is a report, neither the file nor the store changes.
ReportIs ==
    report # NoFile =>
        /\ export.pc \in {"written", "edited"}
        /\ \E online \in BOOLEAN : report = Verify(bundle, online)

EvidenceIInv ==
    StoreIs /\ ManifestIs /\ ExportIs /\ OriginalIs /\ BundleIs /\ ReportIs
=============================================================================
