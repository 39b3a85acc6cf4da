------------------------------ MODULE Surfaces ------------------------------
(***************************************************************************)
(* What a model is shown of an operation: by the MCP server over a local   *)
(* or a remote client (internal/mcp/tools.go, types.go, resources.go), and *)
(* by the plugin's tools over the SDK (tools.ts, payloads.ts), which are   *)
(* to be the same, and are but for the fractions of times.  A field that   *)
(* is omitted when empty is None or 0.  How much of a content is shown is  *)
(* Inline's.                                                               *)
(*                                                                         *)
(* X_bug is X as a plausible mistake would have it, used by no             *)
(* specification; the README names the property it breaks.                 *)
(***************************************************************************)
EXTENDS Clients

\* The members of a list at some of its indices, in their order: SelectSeq, as a
\* function that can be reasoned about.
Chosen(s, at) ==
    LET upTo[n \in 0 .. Len(s)] ==
            IF n = 0 THEN <<>>
            ELSE IF n \in at THEN Append(upTo[n - 1], s[n]) ELSE upTo[n - 1]
    IN  upTo[Len(s)]

-----------------------------------------------------------------------------
(* References: [scheme, name, tags], tags what follows each "@"            *)

ParseURI(raw) == raw.scheme /\ raw.name # "malformed" /\ raw.tags = <<>>

\* The last tag is the ref; what precedes it must be a bare URI.
SplitRef(raw) ==
    LET uri == IF raw.tags = <<>> THEN raw ELSE [raw EXCEPT !.tags = Front(@)]
    IN  IF ~raw.scheme \/ (raw.tags # <<>> /\ Last(raw.tags) = "") \/ ~ParseURI(uri)
        THEN Failed
        ELSE [uri |-> uri, ref |-> IF raw.tags = <<>> THEN None ELSE Last(raw.tags)]

bareURI(raw) == IF SplitRef(raw) = Failed THEN Failed ELSE SplitRef(raw).uri

\* The plugin's, which does not look at what precedes the tag.
bareUri(raw) ==
    IF ~raw.scheme \/ (raw.tags # <<>> /\ Last(raw.tags) = "") THEN Failed
    ELSE IF raw.tags = <<>> THEN raw ELSE [raw EXCEPT !.tags = Front(@)]

-----------------------------------------------------------------------------
(* The MCP server *)

sourceInfo(cfg) ==
    [kind |-> cfg.Kind, locator |-> cfg.Locator, headers |-> Redact(cfg.Headers)]

policyInfo(p) ==
    [strategy |-> p.Strategy, seconds |-> p.MaxAge \div Second, pinned |-> p.Pinned]

policyLabel(p) ==
    <<p.Strategy,
      CASE p.Strategy = "allow_stale" /\ p.MaxAge > 0 -> p.MaxAge \div Second
        [] p.Strategy = "pinned"                      -> p.Pinned
        [] OTHER                                      -> None>>

describeResource(r) ==
    <<r.SourceConfig.Kind, policyLabel(r.Policy), r.SourceConfig.Locator>>

resourceInfo(r) ==
    [uri |-> r.URI, description |-> describeResource(r),
     source |-> sourceInfo(r.SourceConfig), policy |-> policyInfo(r.Policy),
     current |-> r.CurrentSnapshotID]

\* RFC3339: whole seconds.  A zero time, shown as "", is only that of an absent side
\* of a difference (EntriesWith).
formatTime(t) == <<t.second, UTC>>

snapshotInfo(s, tags) ==
    [snapshot_id |-> s.SnapshotID, resource_uri |-> s.ResourceURI,
     content_hash |-> s.ContentHash, observation |-> s.Observation,
     observed_at |-> formatTime(s.ObservedAt), created_at |-> formatTime(s.CreatedAt),
     tags |-> tags]

resolveOut(r) ==
    [uri |-> r.Snapshot.ResourceURI, ref |-> r.Ref, decision |-> r.Decision,
     snapshot_id |-> r.Snapshot.SnapshotID, content_hash |-> r.Snapshot.ContentHash,
     observation |-> r.Snapshot.Observation,
     observed_at |-> formatTime(r.Snapshot.ObservedAt),
     materialization |-> r.Materialization, content |-> r.Content]

manifestOut(m) ==
    [manifest_id |-> m.ManifestID, run_id |-> m.RunID, entries |-> m.Entries,
     created_at |-> formatTime(m.CreatedAt)]

provenanceOut(p) ==
    [revision |-> p.Revision, observed_at |-> formatTime(p.ObservedAt)]

diffOut(d) ==
    [manifest_a |-> d.ManifestA.ManifestID, manifest_b |-> d.ManifestB.ManifestID,
     counts  |-> [status \in {"changed", "added", "removed", "unchanged"} |->
                     Count(d.Entries, status)],
     entries |-> EntriesWith(provenanceOut, d.Entries)]

\* The contents are shown when they are asked for.
replayOut(r, includeContent) ==
    [manifest_id |-> r.Manifest.ManifestID, run_id |-> r.Manifest.RunID,
     all_match |-> AllMatch(r.Entries),
     entries   |-> [i \in DOMAIN r.Entries |->
                       IF includeContent THEN r.Entries[i]
                       ELSE [r.Entries[i] EXCEPT !.content = None]]]

tagInfo(t) ==
    [uri |-> t.ResourceURI, tag |-> t.Name, snapshot_id |-> t.SnapshotID,
     updated_at |-> formatTime(t.UpdatedAt), reference |-> <<t.ResourceURI, t.Name>>]

\* Names of the tags of each snapshot, in the order of the tags.
toolHistory(snapshots, tags) ==
    [i \in DOMAIN snapshots |->
        LET of      == {j \in DOMAIN tags : tags[j].SnapshotID = snapshots[i].SnapshotID}
            Name(t) == t.Name
        IN  snapshotInfo(snapshots[i], Chosen(Each(Name, tags), of))]

\* The metadata that travels with the bytes of a read.
readMeta(r) ==
    [f \in DOMAIN resolveOut(r) \ {"content"} |-> resolveOut(r)[f]]

\* A read that fails is "not found" or any other failure.
readResource(answer) ==
    IF answer.ok
    THEN [contents |-> answer.value.Content, meta |-> readMeta(answer.value)]
    ELSE [notFound |-> isNotFound(answer.error)]

Shown(m, v) ==
    CASE m = "ListResources" -> Each(resourceInfo, v)
      [] m = "GetResource"   -> resourceInfo(v)
      [] m = "History"       -> [i \in DOMAIN v |-> snapshotInfo(v[i], <<>>)]
      [] m = "GetSnapshot"   -> snapshotInfo(v, <<>>)
      [] m = "SetTag"        -> tagInfo(v)
      [] m = "ListTags"      -> Each(tagInfo, v)
      [] m = "Resolve"       -> resolveOut(v)
      [] m = "RunMount"      -> [position |-> v.Position, resolved |-> resolveOut(v.Result)]
      [] m \in {"RunCommit", "GetManifest"} -> manifestOut(v)
      [] m = "Diff"          -> diffOut(v)
      [] m = "Replay"        -> <<replayOut(v, FALSE), replayOut(v, TRUE)>>
      [] OTHER               -> None

-----------------------------------------------------------------------------
(* The plugin, which shows a time as the text it was sent *)

PluginSourceInfo(r) ==
    [kind |-> r.source.kind, locator |-> r.source.locator,
     headers |-> r.source.headers]

PluginPolicyInfo(r) ==
    [strategy |-> r.policy.strategy, seconds |-> r.policy.seconds,
     pinned |-> r.policy.pinned]

PluginPolicyLabel(r) ==
    <<r.policy.strategy,
      CASE r.policy.strategy = "allow_stale" /\ r.policy.seconds # 0 -> r.policy.seconds
        [] r.policy.strategy = "pinned"                              -> r.policy.pinned
        [] OTHER                                                     -> None>>

PluginDescribe(r) == <<r.source.kind, PluginPolicyLabel(r), r.source.locator>>

PluginResourceInfo(r) ==
    [uri |-> r.uri, description |-> PluginDescribe(r),
     source |-> PluginSourceInfo(r), policy |-> PluginPolicyInfo(r),
     current |-> r.current]

PluginSnapshotInfo(s, tags) ==
    [snapshot_id |-> s.id, resource_uri |-> s.resource_uri,
     content_hash |-> s.content_hash, observation |-> s.observation,
     observed_at |-> s.observed_at, created_at |-> s.created_at, tags |-> tags]

PluginResolveOut(r) ==
    [uri |-> r.snapshot.resource_uri, ref |-> r.resource.ref, decision |-> r.status,
     snapshot_id |-> r.snapshot.id, content_hash |-> r.snapshot.content_hash,
     observation |-> r.snapshot.observation, observed_at |-> r.snapshot.observed_at,
     materialization |-> r.materialization, content |-> r.content]

PluginManifestOut(m) ==
    [manifest_id |-> m.manifest_id, run_id |-> m.run_id, entries |-> m.entries,
     created_at |-> m.created_at]

PluginDiffOut(d) ==
    [manifest_a |-> d.manifest_a.manifest_id, manifest_b |-> d.manifest_b.manifest_id,
     counts  |-> [status \in {"changed", "added", "removed", "unchanged"} |->
                     Cardinality({u \in DOMAIN d.entries :
                                     d.entries[u].status = status})],
     entries |-> d.entries]

PluginReplayOut(r, includeContent) ==
    [manifest_id |-> r.manifest.manifest_id, run_id |-> r.manifest.run_id,
     all_match |-> \A i \in DOMAIN r.entries : r.entries[i].match,
     entries   |-> [i \in DOMAIN r.entries |->
                       IF includeContent THEN r.entries[i]
                       ELSE [r.entries[i] EXCEPT !.content = None]]]

PluginTagInfo(t) ==
    [uri |-> t.uri, tag |-> t.tag, snapshot_id |-> t.snapshot_id,
     updated_at |-> t.updated_at, reference |-> <<t.uri, t.tag>>]

\* One name kept for each snapshot.
PluginHistory_lastTag(snapshots, tags) ==
    [i \in DOMAIN snapshots |->
        LET at == {j \in DOMAIN tags : tags[j].snapshot_id = snapshots[i].id}
        IN  PluginSnapshotInfo(snapshots[i],
                               IF at = {} THEN <<>> ELSE <<tags[Max(at)].tag>>)]

PluginHistory(snapshots, tags) ==
    [i \in DOMAIN snapshots |->
        LET of      == {j \in DOMAIN tags : tags[j].snapshot_id = snapshots[i].id}
            Name(t) == t.tag
        IN  PluginSnapshotInfo(snapshots[i], Chosen(Each(Name, tags), of))]

PluginShown(m, w) ==
    CASE m = "ListResources" -> Each(PluginResourceInfo, w)
      [] m = "SetTag"        -> PluginTagInfo(w)
      [] m = "ListTags"      -> Each(PluginTagInfo, w)
      [] m = "Resolve"       -> PluginResolveOut(w)
      [] m = "RunMount"      -> [position |-> w.position,
                                 resolved |-> PluginResolveOut(w.resolve)]
      [] m \in {"RunCommit", "GetManifest"} -> PluginManifestOut(w)
      [] m = "Diff"          -> PluginDiffOut(w)
      [] m = "Replay"        -> <<PluginReplayOut(w, FALSE), PluginReplayOut(w, TRUE)>>
      [] OTHER               -> None

-----------------------------------------------------------------------------
(* Properties *)

\* Calls that only the server makes: it parses what the command line has parsed,
\* refuses an empty argument before it is looked up, and reads a registration
\* back.
OfTheServer(m) ==
    {"ParseURI", "argument"}
        \cup (IF m = "RegisterResource" THEN {"Resources.Get"} ELSE {})

\* An operation makes the same calls of the domain in the same order, ends alike
\* and shows the same whether the client is local or remote, although the remote
\* one gets no sentinel errors, headers redacted, ages in seconds and a part of
\* the resource; a read is "not found" for both or for neither, up to go-github's
\* 404, which only the local client recognises; and a policy registered through
\* any client is stored with the age asked for, if nanoseconds of it fit 64 bits.
ClientsAgree(m, outcome) ==
    LET local  == Local(m, outcome)
        remote == Remote(m, outcome)
        Named(c) == c.call
        called == Each(Named, HandlerOf(m))
        shared == {i \in DOMAIN called : called[i] \notin OfTheServer(m)}
    IN  /\ Chosen(called, shared) = LocalCalls(m)
        /\ outcome.failed \notin OfTheServer(m) => (local.ok <=> remote.ok)
        /\ local.ok /\ remote.ok => Shown(m, local.value) = Shown(m, remote.value)
        /\ m = "Resolve" /\ outcome.error # NotFoundText =>
              readResource(local) = readResource(remote)
        /\ m = "GetResource" /\ ~local.ok =>
              (isNotFound(local.error) <=> isNotFound(remote.error))

AgesAgree(p) ==
    /\ StoredPolicy(p) = StoredPolicy(PolicyFromWire(PolicyToWire(p)))
    /\ \A seconds \in 0 .. (Half - 1) \div Second :
          StoredPolicy(PolicyFromWire([PolicyToWire(p) EXCEPT !.seconds = seconds])).MaxAge
              = seconds * Second

\* A payload, the fractions of its times cut off: its own times, those of what a
\* mount resolved, and those of the sides of a difference.
TimeFields == {"observed_at", "created_at", "updated_at"}

ToSeconds(payload) ==
    [f \in DOMAIN payload |->
        IF f \in TimeFields THEN <<Head(payload[f]), UTC>> ELSE payload[f]]

InSeconds(m, payload) ==
    CASE m \in {"SetTag", "Resolve", "RunCommit", "GetManifest"} -> ToSeconds(payload)
      [] m \in {"ListTags", "History"} -> Each(ToSeconds, payload)
      [] m = "RunMount" -> [payload EXCEPT !.resolved = ToSeconds(@)]
      [] m = "Diff"     -> [payload EXCEPT !.entries = EntriesWith(ToSeconds, @)]
      [] OTHER          -> payload

\* The plugin shows what the MCP server shows, except that it shows times with the
\* fraction of a second, which the server drops; and it names the resource of a
\* reference alike, if the server accepts the reference; a content that is not
\* UTF-8 excepted, which the SDK has decoded.
ToolsAgree(m, outcome, tags) ==
    LET remote == Remote(m, outcome)
        sdk    == SdkRequest(m, outcome)
    IN  /\ remote.ok <=> sdk.ok
        /\ sdk.ok /\ PluginShown(m, sdk.value) # None =>
              InSeconds(m, PluginShown(m, sdk.value)) = Shown(m, remote.value)
        /\ sdk.ok /\ m = "History" =>
              InSeconds(m, PluginHistory(sdk.value, Each(TagToWire, tags)))
                  = toolHistory(remote.value, tags)

ReferencesAgree(raw) == bareURI(raw) # Failed => bareUri(raw) = bareURI(raw)
=============================================================================
