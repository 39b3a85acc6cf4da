---------------------------- MODULE MCProjections ----------------------------
(***************************************************************************)
(* Model checking of what is computed from what the store holds.  The      *)
(* functions are checked on inputs, enumerated as initial states, and      *)
(* Evidence is run.                                                        *)
(***************************************************************************)
EXTENDS Evidence, Surfaces, Inline

CONSTANTS
    MaxReads,   \* bound: entries of the manifests whose roots are compared
    MaxMounts,  \* bound: entries of the manifests whose difference is taken
    MaxBytes    \* bound: bytes of a content, and the largest cap is one less

VARIABLE input

Entry(uri, hash, ref) ==
    [uri |-> uri, ref |-> ref, snapshot |-> hash, materialization |-> hash,
     hash |-> hash]

\* Two contents of one URI, one of them read by a tag, and one of another.
MCEntries ==
    {Entry("u1", "text", None), Entry("u1", "bin", "prod"), Entry("u2", "empty", None)}

ReadInputs ==
    LET Lists == {Numbered(s) : s \in BoundedSeq(MCEntries, MaxReads)}
    IN  [part : {"reads"}, a : Lists, b : Lists]

Stores ==
    LET w == WholeStore IN
    {w} \cup {[w EXCEPT !.blobs[h] = x] : h \in Contents, x \in {None, Torn, Empty}}
        \cup {[w EXCEPT !.mats[m] = None] : m \in Contents}
        \cup {[w EXCEPT !.snapshots[i] = None] : i \in Contents}

DiffInputs ==
    LET Lists == {Numbered(s) : s \in BoundedSeq(MCEntries, MaxMounts)}
    IN  [part : {"diff"}, store : Stores, a : Lists, b : Lists]

ContentInputs ==
    [part : {"content"}, content : BoundedSeq(ByteClasses \ {"lead2"}, MaxBytes),
     contentType : {"text/plain", "image/png", ""}, cap : 0 .. MaxBytes - 1]

Policies ==
    {p \in [Strategy : {"allow_stale", "require_fresh", "pinned"},
            MaxAge : - Second .. Half - 1, Pinned : {None, "text"}] :
        (p.Strategy # "pinned" => p.Pinned = None)
            /\ (p.Strategy # "allow_stale" => p.MaxAge = 0)}

PolicyInputs == [part : {"policy"}, policy : Policies]

ReferenceInputs ==
    [part : {"reference"},
     raw : [scheme : BOOLEAN, name : {"name", "malformed"},
            tags : BoundedSeq({"", "prod"}, 2)]]

SourceConfigs ==
    {[Kind |-> k, Locator |-> "locator", Headers |-> None] : k \in {"filesystem", "github"}}
    \cup {[Kind |-> "http", Locator |-> "locator", Headers |-> h] :
             h \in {None, "plain", "secret"}}

Resources ==
    [URI : {"u1"}, SourceConfig : SourceConfigs,
     Policy : {StoredPolicy(p) : p \in Policies}, CurrentSnapshotID : {None, "text"}]

\* Instants of no fraction, of one whose text loses a zero, and of a whole one.
InstantOf(id) ==
    [second   |-> 7,
     fraction |-> [i \in 1 .. Digits |->
                      CASE id = "empty" -> 0
                        [] id = "bin"   -> IF i = 1 THEN 5 ELSE 0
                        [] OTHER        -> 3]]

ASnapshot(id) ==
    [SnapshotID |-> id, ResourceURI |-> "u1", ContentHash |-> id,
     Observation |-> <<"observed", id>>,
     ObservedAt |-> InstantOf(id), CreatedAt |-> InstantOf("bin")]

ATag(name, id) ==
    [ResourceURI |-> "u1", Name |-> name, SnapshotID |-> id, UpdatedAt |-> InstantOf(id)]

TagLists ==
    {<<>>, <<ATag("prod", "text")>>,
     <<ATag("old", "bin"), ATag("prod", "text"), ATag("stable", "text")>>}

Results ==
    {[Resource |-> r, Snapshot |-> ASnapshot(id), Materialization |-> id,
      Content |-> id, Decision |-> d.decision, Ref |-> d.ref] :
        r \in Resources, id \in {"text", "empty"},
        d \in {[decision |-> x, ref |-> None] : x \in {"fetch", "use_current", "use_pinned"}}
              \cup {[decision |-> "use_tag", ref |-> "prod"]}}

ManifestsOf(lists) ==
    {[ManifestID |-> "manifest", RunID |-> "run", Entries |-> Numbered(s),
      CreatedAt |-> InstantOf("text")] : s \in lists}

\* The whole store, with what a snapshot tells of its source.
DatedStore ==
    [WholeStore EXCEPT !.snapshots =
        [id \in {"text", "bin", "empty"} |->
            [Revision |-> <<"revision", id>>, ObservedAt |-> InstantOf(id)]]]

DiffsOf(manifests) ==
    {[ManifestA |-> a, ManifestB |-> b,
      Entries |-> Diff(DatedStore, a.Entries, b.Entries)] :
        a \in manifests, b \in manifests}

Values(m) ==
    LET Texts == {e \in MCEntries : e.hash \notin Binary}
        Ms    == ManifestsOf(BoundedSeq(MCEntries, 2))
        Rs    == ManifestsOf(BoundedSeq(Texts, 2))
    IN  CASE m = "ListResources" -> {<<r>> : r \in Resources} \cup {<<>>}
          [] m = "GetResource"   -> Resources
          [] m = "History" -> {<<>>, <<ASnapshot("text")>>,
                               <<ASnapshot("text"), ASnapshot("bin")>>}
          [] m = "GetSnapshot"   -> {ASnapshot("text")}
          [] m = "SetTag"        -> {ATag("prod", "text")}
          [] m = "ListTags"      -> TagLists
          [] m = "Resolve"       -> Results
          [] m = "RunMount"      -> [Position : {0, 1}, Result : Results]
          [] m \in {"RunCommit", "GetManifest"} -> Ms
          [] m = "Diff"  -> {d \in DiffsOf(Ms) : d.Entries # Failed}
          [] m = "Replay" -> {[Manifest |-> a, Entries |-> Replay(s, a.Entries)] :
                                a \in Rs,
                                s \in {WholeStore,
                                       [WholeStore EXCEPT !.blobs["text"] = Torn]}}
          [] OTHER        -> {None}

Failures(m) ==
    UNION {{[failed |-> call, error |-> err, value |-> None] : err \in CallErrors(call)} :
              call \in {HandlerOf(m)[i].call : i \in DOMAIN HandlerOf(m)}
                           \ {"ParseURI", "argument"}}

ClientInputs ==
    UNION {[part : {"client"}, method : {m},
            outcome : Failures(m) \cup {[failed |-> None, error |-> None, value |-> v] :
                                           v \in Values(m)},
            tags : IF m = "History" THEN TagLists ELSE {<<>>}] : m \in Methods}

\* Histories of up to three observations in two seconds.
Instants == [second : {0, 1}, fraction : [1 .. Digits -> {0, 1, 2}]]

HistoryInputs ==
    [part : {"history"}, instants : {{a, b, c} : a, b, c \in Instants}]

Init ==
    \/ EvidenceInit /\ input = [part |-> "evidence"]
    \/ /\ EvidenceOff
       /\ input \in ReadInputs \cup DiffInputs \cup ContentInputs \cup PolicyInputs
                       \cup ReferenceInputs \cup ClientInputs \cup HistoryInputs

Next == EvidenceNext /\ UNCHANGED input

Spec == Init /\ [][Next]_<<evidenceVars, input>>

\* Two manifests have one root exactly when they record the same reads in the
\* same order (internal/merkle).
RootBindsReads == input.part = "reads" => RootBinds(input.a, input.b)

\* A difference says what two manifests read differently (internal/diff).
DiffIsExact == input.part = "diff" => DiffIs(input.store, input.a, input.b)

\* Of a content, what fits the cap is shown (internal/mcp/content.go, content.ts).
ContentShown ==
    input.part = "content" =>
        ContentIsShown(input.content, input.contentType, input.cap)

\* An operation is the same through the local and the remote client
\* (internal/client, internal/api, internal/wire).
RemoteIsLocal ==
    /\ input.part = "client" => ClientsAgree(input.method, input.outcome)
    /\ input.part = "policy" => AgesAgree(input.policy)

\* A history is newest first but within a second (sqlite/snapshots.go).
HistoryNewestFirst ==
    input.part = "history" => HistoryIsOrdered(input.instants, Digits)

\* The plugin shows what the MCP server shows, and the fractions of times that the
\* server drops (payloads.ts, internal/mcp/types.go).
SurfacesAgree ==
    /\ input.part = "client" => ToolsAgree(input.method, input.outcome, input.tags)
    /\ input.part = "reference" => ReferencesAgree(input.raw)
=============================================================================
