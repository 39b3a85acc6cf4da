------------------------------ MODULE Clients -------------------------------
(***************************************************************************)
(* One operation seen from three clients: the local client, which calls    *)
(* the domain in process (internal/client/local), the remote one, which    *)
(* asks readproofd (internal/client/remote, internal/api, internal/wire),  *)
(* and the TypeScript SDK under the plugin; and what the MCP server        *)
(* (internal/mcp) and the plugin (payloads.ts) then show of its result.    *)
(*                                                                         *)
(* An outcome is what the domain does: the call of the operation that      *)
(* fails, if one does, with its error, and the value of the operation.     *)
(* Records of Go have capitalised fields and JSON has not.  Fields that    *)
(* all layers only copy are one field: Observation is a snapshot's         *)
(* revision, type, size and provenance.  A time is an instant in Go and    *)
(* its RFC3339Nano text in JSON, as in HistoryOrder; those of a resource   *)
(* and of a materialization nobody is shown, and they are left out.        *)
(*                                                                         *)
(* X_bug is X as a plausible mistake would have it, used by no             *)
(* specification; the README names the property it breaks.                 *)
(***************************************************************************)
EXTENDS Manifests, HistoryOrder

CONSTANTS
    Second,    \* in nanoseconds
    Half,      \* an int64 is in -Half .. Half - 1
    Binary,    \* contents that are not UTF-8
    Mojibake,  \* what a binary content decodes to
    Digits     \* of the fraction of an instant

ASSUME DurationsAreInt64 == Second \in Nat \ {0} /\ Half \in Nat \ {0}

ASSUME DigitsAreCounted == Digits \in Nat

Methods ==
    {"RegisterResource", "ListResources", "GetResource", "History", "GetSnapshot",
     "SetTag", "ListTags", "DeleteTag", "Resolve", "RunStart", "RunMount",
     "RunCommit", "GetManifest", "Diff", "Replay"}

Each(f(_), s) == [i \in DOMAIN s |-> f(s[i])]

-----------------------------------------------------------------------------
(* Errors, and what a call can answer besides "other"                      *)

NotFoundSentinels ==
    {"resource: not found", "snapshot: not found", "manifest: not found",
     "run: not found", "tag: not found"}

\* An error without a sentinel whose text says it all the same: go-github's.
NotFoundText == "404 Not Found"

ResolveErrors ==
    {"invalid uri", "resource: not found", "snapshot: not found",
     "tag: not found", "denied", NotFoundText}

CallErrors(call) ==
    {"other"} \cup
    CASE call \in {"Resources.Get"}           -> {"resource: not found"}
      [] call \in {"Snapshots.Get", "diff.Compute"} -> {"snapshot: not found"}
      [] call = "Sources.Validate"            -> {"denied"}
      [] call = "Tags.Set" -> {"invalid tag name", "snapshot: not found",
                               "snapshot mismatch"}
      [] call \in {"Tags.Get", "Tags.Delete"} -> {"tag: not found"}
      [] call = "Resolver.Resolve"            -> ResolveErrors
      [] call = "RunBuilder.Mount" ->
            ResolveErrors \cup {"run: not found", "already committed"}
      [] call = "RunBuilder.Commit"           -> {"run: not found", "already committed"}
      [] call \in {"Manifests.GetByIDOrRun a", "Manifests.GetByIDOrRun b",
                   "Replayer.Replay"}         -> {"manifest: not found"}
      [] OTHER                                -> {}

\* isNotFound, of an error of the domain or of one that a server told.
isNotFound(err) == err \in NotFoundSentinels \cup {NotFoundText}

-----------------------------------------------------------------------------
(* The local client: the calls of each method *)

LocalCalls(m) ==
    CASE m = "RegisterResource" -> <<"Sources.Validate", "Resources.Create">>
      [] m = "ListResources" -> <<"Resources.List">>
      [] m = "GetResource" -> <<"Resources.Get">>
      [] m = "History"     -> <<"Snapshots.ListByResource">>
      [] m = "GetSnapshot" -> <<"Snapshots.Get">>
      [] m = "SetTag"      -> <<"Tags.Set", "Tags.Get">>
      [] m = "ListTags"    -> <<"Tags.List">>
      [] m = "DeleteTag"   -> <<"Tags.Delete">>
      [] m = "Resolve"     -> <<"Resolver.Resolve">>
      [] m = "RunStart"    -> <<"RunBuilder.Start">>
      [] m = "RunMount"    -> <<"Runs.ListMounts", "RunBuilder.Mount">>
      [] m = "RunCommit"   -> <<"RunBuilder.Commit">>
      [] m = "GetManifest" -> <<"Manifests.GetByIDOrRun a">>
      [] m = "Diff"        -> <<"Manifests.GetByIDOrRun a",
                                "Manifests.GetByIDOrRun b", "diff.Compute">>
      [] m = "Replay"      -> <<"Replayer.Replay">>

Local(m, outcome) ==
    IF outcome.failed \in ToSet(LocalCalls(m))
    THEN [ok |-> FALSE, error |-> outcome.error]
    ELSE [ok |-> TRUE, value |-> outcome.value]

-----------------------------------------------------------------------------
(* The handlers: whether an empty argument is refused, the calls, and how  *)
(* the error of each is answered                                           *)

Bad(call)      == [call |-> call, as |-> "bad"]
Internal(call) == [call |-> call, as |-> "internal"]
Domain(call)   == [call |-> call, as |-> "domain"]

handleRegisterResource ==
    <<Bad("ParseURI"), Bad("Sources.Validate"), Internal("Resources.Create"),
      Internal("Resources.Get")>>
handleListResources == <<Internal("Resources.List")>>
handleGetResource   == <<Bad("argument"), Domain("Resources.Get")>>
handleHistory       == <<Bad("argument"), Domain("Snapshots.ListByResource")>>
handleGetSnapshot   == <<Bad("argument"), Domain("Snapshots.Get")>>
handleSetTag        == <<Bad("argument"), Domain("Tags.Set"), Domain("Tags.Get")>>
handleListTags      == <<Bad("argument"), Domain("Tags.List")>>
handleDeleteTag     == <<Bad("argument"), Domain("Tags.Delete")>>
handleResolve       == <<Domain("Resolver.Resolve")>>
handleRunStart      == <<Internal("RunBuilder.Start")>>
handleRunMount      == <<Internal("Runs.ListMounts"), Domain("RunBuilder.Mount")>>
handleRunCommit     == <<Domain("RunBuilder.Commit")>>
handleGetManifest   == <<Bad("argument"), Domain("Manifests.GetByIDOrRun a")>>
handleDiff ==
    <<Bad("argument"), Domain("Manifests.GetByIDOrRun a"),
      Domain("Manifests.GetByIDOrRun b"), Internal("diff.Compute")>>
handleReplay        == <<Bad("argument"), Domain("Replayer.Replay")>>

HandlerOf(m) ==
    CASE m = "RegisterResource" -> handleRegisterResource
      [] m = "ListResources" -> handleListResources
      [] m = "GetResource" -> handleGetResource
      [] m = "History"     -> handleHistory
      [] m = "GetSnapshot" -> handleGetSnapshot
      [] m = "SetTag"      -> handleSetTag
      [] m = "ListTags"    -> handleListTags
      [] m = "DeleteTag"   -> handleDeleteTag
      [] m = "Resolve"     -> handleResolve
      [] m = "RunStart"    -> handleRunStart
      [] m = "RunMount"    -> handleRunMount
      [] m = "RunCommit"   -> handleRunCommit
      [] m = "GetManifest" -> handleGetManifest
      [] m = "Diff"        -> handleDiff
      [] m = "Replay"      -> handleReplay

writeDomainError_noTag(err) ==
    CASE err \in NotFoundSentinels \ {"tag: not found"} -> 404
      [] err = "already committed"                      -> 409
      [] err \in {"denied", "invalid tag name", "snapshot mismatch"} -> 400
      [] OTHER                                          -> 500

writeDomainError(err) ==
    CASE err \in NotFoundSentinels -> 404
      [] err = "already committed" -> 409
      [] err \in {"denied", "invalid tag name", "snapshot mismatch"} -> 400
      [] OTHER                     -> 500

HttpStatus(as, err) ==
    CASE as = "bad" -> 400 [] as = "internal" -> 500
      [] OTHER -> writeDomainError(err)

\* The insides of the server are not told.
writeError(status, err) ==
    [status |-> status, error |-> IF status >= 500 THEN "internal server error"
                                  ELSE err]

ASSUME NoneIsNoCall ==
    \A m \in Methods : \A i \in DOMAIN HandlerOf(m) : HandlerOf(m)[i].call # None

-----------------------------------------------------------------------------
(* The conversions of internal/wire *)

\* What encoding/json does with a time.Time.
MarshalJSON(t) == Format(t)

UnmarshalJSON(text) == Parse(text, Digits)

\* Header values of sensitive names are replaced.
Redact(header) == IF header = "secret" THEN "[REDACTED]" ELSE header

SourceToWire(cfg) ==
    [kind |-> cfg.Kind, locator |-> cfg.Locator, headers |-> cfg.Headers]

SourceToWireRedacted(cfg) == [SourceToWire(cfg) EXCEPT !.headers = Redact(@)]

SourceFromWire(w) ==
    [Kind |-> w.kind, Locator |-> w.locator, Headers |-> w.headers]

Wrapped(n) == ((n + Half) % (2 * Half)) - Half

PolicyToWire(p) ==
    [strategy |-> p.Strategy, pinned |-> p.Pinned,
     seconds  |-> IF p.MaxAge > 0 THEN p.MaxAge \div Second ELSE 0]

PolicyFromWire(w) ==
    [Strategy |-> w.strategy, Pinned |-> w.pinned,
     MaxAge   |-> Wrapped(w.seconds * Second)]

\* What the store returns of a policy that was created.
StoredPolicy(p) ==
    [p EXCEPT !.MaxAge = IF @ > 0 THEN (@ \div Second) * Second ELSE 0]

ResourceToWireRedacted(r) ==
    [uri |-> r.URI, source |-> SourceToWireRedacted(r.SourceConfig),
     policy |-> PolicyToWire(r.Policy), current |-> r.CurrentSnapshotID]

ResourceFromWire(w) ==
    [URI |-> w.uri, SourceConfig |-> SourceFromWire(w.source),
     Policy |-> PolicyFromWire(w.policy), CurrentSnapshotID |-> w.current]

SnapshotToWire(s) ==
    [id |-> s.SnapshotID, resource_uri |-> s.ResourceURI,
     content_hash |-> s.ContentHash, observation |-> s.Observation,
     observed_at |-> MarshalJSON(s.ObservedAt), created_at |-> MarshalJSON(s.CreatedAt)]

SnapshotFromWire(w) ==
    [SnapshotID |-> w.id, ResourceURI |-> w.resource_uri,
     ContentHash |-> w.content_hash, Observation |-> w.observation,
     ObservedAt |-> UnmarshalJSON(w.observed_at),
     CreatedAt |-> UnmarshalJSON(w.created_at)]

\* Of the resource only the URI, the ref and the policy are sent.
ResolveResultToWire(r) ==
    [resource |-> [uri |-> r.Resource.URI, ref |-> r.Ref,
                   policy |-> PolicyToWire(r.Resource.Policy)],
     snapshot |-> SnapshotToWire(r.Snapshot), materialization |-> r.Materialization,
     status |-> r.Decision, content |-> r.Content]

ResolveResponseToResult(w) ==
    [Resource |-> [URI |-> w.resource.uri, Policy |-> PolicyFromWire(w.resource.policy)],
     Snapshot |-> SnapshotFromWire(w.snapshot), Materialization |-> w.materialization,
     Decision |-> IF w.status \in {"use_current", "use_pinned", "use_tag"} THEN w.status
                  ELSE "fetch",
     Ref |-> w.resource.ref, Content |-> w.content]

\* Entries of a manifest and of a replay are copied field by field.
ManifestToWire(m) ==
    [manifest_id |-> m.ManifestID, run_id |-> m.RunID, entries |-> m.Entries,
     created_at |-> MarshalJSON(m.CreatedAt)]

ManifestFromWire(w) ==
    [ManifestID |-> w.manifest_id, RunID |-> w.run_id, Entries |-> w.entries,
     CreatedAt |-> UnmarshalJSON(w.created_at)]

\* The entries of a difference, the provenance of each side as p(_) has it; of a
\* side that is absent the snapshot is empty, and the time is zero and omitted.
EntriesWith(p(_), entries) ==
    LET Side(s) == [snapshot |-> s.snapshot, ref |-> s.ref,
                    provenance |-> IF s.snapshot = None THEN None ELSE p(s.provenance)]
    IN  [u \in DOMAIN entries |->
            [status |-> entries[u].status, text |-> entries[u].text,
             a |-> Side(entries[u].a), b |-> Side(entries[u].b)]]

ProvenanceToWire(p) ==
    [revision |-> p.Revision, observed_at |-> MarshalJSON(p.ObservedAt)]

ProvenanceFromWire(w) ==
    [Revision |-> w.revision, ObservedAt |-> UnmarshalJSON(w.observed_at)]

DiffResultToWire(d) ==
    [manifest_a |-> ManifestToWire(d.ManifestA),
     manifest_b |-> ManifestToWire(d.ManifestB),
     entries    |-> EntriesWith(ProvenanceToWire, d.Entries)]

DiffResponseToResult(w) ==
    [ManifestA |-> ManifestFromWire(w.manifest_a),
     ManifestB |-> ManifestFromWire(w.manifest_b),
     Entries   |-> EntriesWith(ProvenanceFromWire, w.entries)]

ReplayResultToWire(r) ==
    [manifest |-> ManifestToWire(r.Manifest), entries |-> r.Entries]

ReplayResponseToResult(w) ==
    [Manifest |-> ManifestFromWire(w.manifest), Entries |-> w.entries]

TagToWire(t) ==
    [uri |-> t.ResourceURI, tag |-> t.Name, snapshot_id |-> t.SnapshotID,
     updated_at |-> MarshalJSON(t.UpdatedAt)]

TagFromWire(w) ==
    [ResourceURI |-> w.uri, Name |-> w.tag, SnapshotID |-> w.snapshot_id,
     UpdatedAt |-> UnmarshalJSON(w.updated_at)]

ToWire(m, v) ==
    CASE m = "ListResources" -> Each(ResourceToWireRedacted, v)
      [] m = "GetResource"   -> ResourceToWireRedacted(v)
      [] m = "History"       -> Each(SnapshotToWire, v)
      [] m = "GetSnapshot"   -> SnapshotToWire(v)
      [] m = "SetTag"        -> TagToWire(v)
      [] m = "ListTags"      -> Each(TagToWire, v)
      [] m = "Resolve"       -> ResolveResultToWire(v)
      [] m = "RunMount"      -> [position |-> v.Position,
                                 resolve |-> ResolveResultToWire(v.Result)]
      [] m \in {"RunCommit", "GetManifest"} -> ManifestToWire(v)
      [] m = "Diff"          -> DiffResultToWire(v)
      [] m = "Replay"        -> ReplayResultToWire(v)
      [] OTHER               -> None

FromWire(m, w) ==
    CASE m = "ListResources" -> Each(ResourceFromWire, w)
      [] m = "GetResource"   -> ResourceFromWire(w)
      [] m = "History"       -> Each(SnapshotFromWire, w)
      [] m = "GetSnapshot"   -> SnapshotFromWire(w)
      [] m = "SetTag"        -> TagFromWire(w)
      [] m = "ListTags"      -> Each(TagFromWire, w)
      [] m = "Resolve"       -> ResolveResponseToResult(w)
      [] m = "RunMount"      -> [Position |-> w.position,
                                 Result |-> ResolveResponseToResult(w.resolve)]
      [] m \in {"RunCommit", "GetManifest"} -> ManifestFromWire(w)
      [] m = "Diff"          -> DiffResponseToResult(w)
      [] m = "Replay"        -> ReplayResponseToResult(w)
      [] OTHER               -> None

-----------------------------------------------------------------------------
(* The server's answer, the remote client and the SDK *)

Respond(m, outcome) ==
    LET calls == HandlerOf(m)
        at    == {i \in DOMAIN calls : calls[i].call = outcome.failed}
    IN  IF at # {}
        THEN LET i == CHOOSE i \in at : TRUE
             IN  writeError(HttpStatus(calls[i].as, outcome.error), outcome.error)
        ELSE [status |-> 200, body |-> ToWire(m, outcome.value)]

\* doJSON: an error has no sentinel any more, only its text.
Remote(m, outcome) ==
    LET response == Respond(m, outcome) IN
    IF response.status >= 300 THEN [ok |-> FALSE, error |-> response.error]
    ELSE [ok |-> TRUE, value |-> FromWire(m, response.body)]

\* decodeBase64: the bytes as a text.
Decoded(content) == IF content \in Binary THEN Mojibake ELSE content

decodeResolveResponse(raw) == [raw EXCEPT !.content = Decoded(@)]

decodeReplayResult(raw) ==
    [raw EXCEPT !.entries =
        [i \in DOMAIN raw.entries |->
            [raw.entries[i] EXCEPT !.content = Decoded(@)]]]

SdkRequest(m, outcome) ==
    LET response == Respond(m, outcome) IN
    IF response.status >= 300
    THEN [ok |-> FALSE, status |-> response.status, error |-> response.error]
    ELSE [ok |-> TRUE,
          value |-> CASE m = "Resolve"  -> decodeResolveResponse(response.body)
                      [] m = "RunMount" ->
                            [response.body EXCEPT !.resolve = decodeResolveResponse(@)]
                      [] m = "Replay"   -> decodeReplayResult(response.body)
                      [] OTHER          -> response.body]
=============================================================================
