------------------------------ MODULE Resolver ------------------------------
(***************************************************************************)
(* internal/resolver.ResolveRef over its stores: how a request for a URI   *)
(* (or uri@tag) becomes a snapshot, a materialization and bytes, while     *)
(* other requests, the sources, the tags and the clock move.  As in        *)
(* RunBuilder, every SQL statement and every blob or source call is a step *)
(* of its own and a request may die between any two (Fail).                *)
(*                                                                         *)
(* Content stands for the bytes and for their SHA-256 at once; the only    *)
(* materializer is RawMaterializer, which passes the bytes through.  Time  *)
(* is a count of ticks, Second of them to a second.                        *)
(*                                                                         *)
(* X_bug is X as a plausible mistake would have it, used by no             *)
(* specification; the README names the property it breaks.                 *)
(***************************************************************************)
EXTENDS Integers

CONSTANTS
    Clients,   \* the requests that can be in flight at once
    Uris,      \* resources that can be registered
    Tags,      \* tag names
    Contents,  \* what a source may hold
    SnapIds,   \* the ids ids.New("snap") can mint
    Policies,  \* the policies a registration may ask for: AskedPolicy
    Second,    \* ticks to a second
    None,      \* SQL NULL and the empty Go string
    MaxTime    \* bound: the clock stops here

Strategies == {"require_fresh", "allow_stale", "pinned"}

AskedPolicy ==
    [strategy : Strategies, maxAge : Nat, pin : SnapIds \cup {None}]

ASSUME PoliciesAreAsked == Policies \subseteq AskedPolicy

ASSUME SecondIsPositive == Second \in Nat \ {0}

ResourceRows == [policy : AskedPolicy, current : SnapIds \cup {None}]

SnapshotRows == [uri : Uris, content : Contents, at : Nat]

ASSUME NoneIsNoValue ==
    None \notin SnapIds \cup Tags \cup Contents \cup ResourceRows \cup SnapshotRows

VARIABLES
    clock,
    source,     \* the world: uri -> what its source holds now
    resources,  \* uri -> None or [policy, current]
    snapshots,  \* id -> None or the row [uri, content, at]
    mats,       \* snapshot id -> None or the content of its materialization
    tags,       \* uri -> name -> None or a snapshot id
    blobs,      \* the content the blob store holds
    req,        \* the requests in flight, with their Go locals
    lastLive,   \* history: uri -> content -> last tick the source held it
    delivered   \* history: the [snap, content] of every answer

db == <<resources, snapshots, mats, tags>>
world == <<clock, source, lastLive>>
vars == <<world, db, blobs, req, delivered>>

(***************************************************************************)
(* A request slot.  A resolve carries the resource row it looked up (its   *)
(* policy and current snapshot), the instant `now` it decided at, the      *)
(* decision, the snapshot and the bytes it goes on with.                   *)
(***************************************************************************)
Free(answer) == [pc |-> "idle", answer |-> answer]

Resolving(pc, u, ref, policy, current) ==
    [pc |-> pc, uri |-> u, ref |-> ref, policy |-> policy, current |-> current,
     now |-> 0, decision |-> "none", snap |-> None, content |-> None]

Tagging(pc, u, name, s) == [pc |-> pc, uri |-> u, ref |-> name, snap |-> s]

Becomes(c, q) == req' = [req EXCEPT ![c] = q]

Answer(c, answer) == Becomes(c, Free(answer))

Idle(c) == req[c].pc = "idle"

Init ==
    /\ clock = 0
    /\ source \in [Uris -> Contents]
    /\ resources = [u \in Uris |-> None]
    /\ snapshots = [s \in SnapIds |-> None]
    /\ mats = [s \in SnapIds |-> None]
    /\ tags = [u \in Uris |-> [n \in Tags |-> None]]
    /\ blobs = {}
    /\ req = [c \in Clients |-> Free("none")]
    /\ lastLive = [u \in Uris |->
                      [x \in Contents |-> IF x = source[u] THEN 0 ELSE -1]]
    /\ delivered = {}

-----------------------------------------------------------------------------
(* The world *)

Tick ==
    /\ clock < MaxTime
    /\ clock' = clock + 1
    /\ lastLive' = [u \in Uris |->
                       [lastLive[u] EXCEPT ![source[u]] = clock + 1]]
    /\ UNCHANGED <<source, db, blobs, req, delivered>>

SourceChanges(u, x) ==
    /\ x # source[u]
    /\ source' = [source EXCEPT ![u] = x]
    /\ lastLive' = [lastLive EXCEPT ![u][x] = clock]
    /\ UNCHANGED <<clock, db, blobs, req, delivered>>

-----------------------------------------------------------------------------
(* POST /v1/resources: source, policy and resource in one transaction. *)

\* max_age_seconds is an INTEGER: a duration is cut to whole seconds.
StoredAge(age) == (age \div Second) * Second

\* Refused by PRIMARY KEY (uri): there is no update of a registration.
Register(u, p) ==
    /\ resources[u] = None
    /\ resources' = [resources EXCEPT ![u] =
                        [policy  |-> [p EXCEPT !.maxAge = StoredAge(@)],
                         current |-> None]]
    /\ UNCHANGED <<world, snapshots, mats, tags, blobs, req, delivered>>

-----------------------------------------------------------------------------
(* POST /v1/resolve *)

\* policy.Evaluate: what to do under policy p at now, when the current
\* snapshot was observed at `at` (NoCurrent: there is none).
NoCurrent == -1

Evaluate_reuseIfAny(p, at, now) ==
    IF p.strategy = "pinned" THEN "use_pinned"
    ELSE IF at # NoCurrent THEN "use_current" ELSE "fetch"

Evaluate(p, at, now) ==
    CASE p.strategy = "pinned" -> "use_pinned"
      [] p.strategy = "require_fresh" -> "fetch"
      [] p.strategy = "allow_stale" ->
            IF at = NoCurrent \/ (p.maxAge > 0 /\ now - at > p.maxAge)
            THEN "fetch" ELSE "use_current"

\* Resources.Get: the row is read once, at the beginning.
Lookup(c, u, ref) ==
    /\ Idle(c)
    /\ IF resources[u] = None
       THEN Answer(c, "not_found")
       ELSE Becomes(c, Resolving(IF ref = None THEN "evaluate" ELSE "tag", u,
                                 ref, resources[u].policy,
                                 resources[u].current))
    /\ UNCHANGED <<world, db, blobs, delivered>>

\* Serve the stored snapshot s: its row, then its blob (both are read here at
\* once: neither is ever changed or removed).
Serve(c, s, decision) ==
    IF s = None \/ snapshots[s] = None
    THEN Answer(c, "not_found")
    ELSE IF snapshots[s].content \notin blobs
    THEN Answer(c, "failed")
    ELSE Becomes(c, [req[c] EXCEPT !.pc = "find_mat", !.now = clock,
                                   !.decision = decision, !.snap = s,
                                   !.content = snapshots[s].content])

\* uri@tag: Tags.Get, and neither policy nor source.
UseTag_anyUri(c) ==
    /\ req[c].pc = "tag"
    /\ \E u \in Uris : Serve(c, tags[u][req[c].ref], "use_tag")
    /\ UNCHANGED <<world, db, blobs, delivered>>

UseTag(c) ==
    /\ req[c].pc = "tag"
    /\ Serve(c, tags[req[c].uri][req[c].ref], "use_tag")
    /\ UNCHANGED <<world, db, blobs, delivered>>

\* The clock and the current snapshot's row, then the decision.
Decide(c) ==
    LET q == req[c]
        stale == q.current # None /\ snapshots[q.current] = None
        at == IF q.current = None THEN NoCurrent ELSE snapshots[q.current].at
    IN
    /\ q.pc = "evaluate"
    /\ IF stale
       THEN Answer(c, "not_found")
       ELSE CASE Evaluate(q.policy, at, clock) = "use_pinned" ->
                    Serve(c, q.policy.pin, "use_pinned")
              [] Evaluate(q.policy, at, clock) = "use_current" ->
                    Serve(c, q.current, "use_current")
              [] Evaluate(q.policy, at, clock) = "fetch" ->
                    Becomes(c, [q EXCEPT !.pc = "fetch", !.now = clock,
                                         !.decision = "fetch"])
    /\ UNCHANGED <<world, db, blobs, delivered>>

\* Sources.Fetch: what the source holds at some instant, or an error.
Fetch(c) ==
    /\ req[c].pc = "fetch"
    /\ \/ Becomes(c, [req[c] EXCEPT !.pc = "put",
                                    !.content = source[req[c].uri]])
       \/ Answer(c, "failed")
    /\ UNCHANGED <<world, db, blobs, delivered>>

PutBlob_errorIgnored(c) ==
    /\ req[c].pc = "put"
    /\ Becomes(c, [req[c] EXCEPT !.pc = "insert"])
    /\ UNCHANGED <<world, db, blobs, delivered>>

PutBlob(c) ==
    /\ req[c].pc = "put"
    /\ blobs' = blobs \cup {req[c].content}
    /\ Becomes(c, [req[c] EXCEPT !.pc = "insert"])
    /\ UNCHANGED <<world, db, delivered>>

\* Snapshots.Create: always a new row, stamped with the instant of the
\* decision and not with that of the fetch.
ObservedAt_insertion(c) == clock

ObservedAt(c) == req[c].now

InsertSnapshot_overwrites(c) ==
    LET q == req[c] IN
    /\ q.pc = "insert"
    /\ \E s \in SnapIds :
         /\ s = q.current \/ (q.current = None /\ snapshots[s] = None)
         /\ snapshots' = [snapshots EXCEPT ![s] =
                             [uri |-> q.uri, content |-> q.content,
                              at |-> ObservedAt(c)]]
         /\ Becomes(c, [q EXCEPT !.pc = "point", !.snap = s])
    /\ UNCHANGED <<world, resources, mats, tags, blobs, delivered>>

InsertSnapshot(c) ==
    LET q == req[c] IN
    /\ q.pc = "insert"
    /\ \E s \in SnapIds :
         /\ snapshots[s] = None
         /\ snapshots' = [snapshots EXCEPT ![s] =
                             [uri |-> q.uri, content |-> q.content,
                              at |-> ObservedAt(c)]]
         /\ Becomes(c, [q EXCEPT !.pc = "point", !.snap = s])
    /\ UNCHANGED <<world, resources, mats, tags, blobs, delivered>>

\* UpdateCurrentSnapshot: whatever the row points to by now.
PointCurrent(c) ==
    LET q == req[c] IN
    /\ q.pc = "point"
    /\ resources' = [resources EXCEPT ![q.uri].current = q.snap]
    /\ Becomes(c, [q EXCEPT !.pc = "find_mat"])
    /\ UNCHANGED <<world, snapshots, mats, tags, blobs, delivered>>

\* Materializations.GetBySnapshot
FindMaterialization(c) ==
    LET q == req[c] IN
    /\ q.pc = "find_mat"
    /\ Becomes(c, [q EXCEPT !.pc = IF mats[q.snap] = None
                                   THEN "put_mat" ELSE "answer"])
    /\ UNCHANGED <<world, db, blobs, delivered>>

PutMaterialization(c) ==
    /\ req[c].pc = "put_mat"
    /\ blobs' = blobs \cup {req[c].content}
    /\ Becomes(c, [req[c] EXCEPT !.pc = "insert_mat"])
    /\ UNCHANGED <<world, db, delivered>>

\* Materializations.Create, refused by UNIQUE (snapshot_id, strategy).
InsertMaterialization_ofSource(c) ==
    LET q == req[c] IN
    /\ q.pc = "insert_mat"
    /\ IF mats[q.snap] # None
       THEN Answer(c, "failed") /\ UNCHANGED mats
       ELSE /\ mats' = [mats EXCEPT ![q.snap] = source[q.uri]]
            /\ Becomes(c, [q EXCEPT !.pc = "answer"])
    /\ UNCHANGED <<world, resources, snapshots, tags, blobs, delivered>>

InsertMaterialization(c) ==
    LET q == req[c] IN
    /\ q.pc = "insert_mat"
    /\ IF mats[q.snap] # None
       THEN Answer(c, "failed") /\ UNCHANGED mats
       ELSE /\ mats' = [mats EXCEPT ![q.snap] = q.content]
            /\ Becomes(c, [q EXCEPT !.pc = "answer"])
    /\ UNCHANGED <<world, resources, snapshots, tags, blobs, delivered>>

\* Replayer.Replay of an entry: the materialization, then its blob.
Replay(s) == IF mats[s] \in blobs THEN mats[s] ELSE None

Reply(c) ==
    /\ req[c].pc = "answer"
    /\ delivered' = delivered \cup {[snap |-> req[c].snap,
                                     content |-> req[c].content]}
    /\ Answer(c, "ok")
    /\ UNCHANGED <<world, db, blobs>>

-----------------------------------------------------------------------------
(* PUT and DELETE /v1/tags *)

\* TagStore.Set reads the snapshot's owner and refuses another resource's ...
SetTag_unchecked(c, u, name, s) ==
    /\ Idle(c)
    /\ IF snapshots[s] = None
       THEN Answer(c, "not_found")
       ELSE Becomes(c, Tagging("set_tag", u, name, s))
    /\ UNCHANGED <<world, db, blobs, delivered>>

SetTag(c, u, name, s) ==
    /\ Idle(c)
    /\ \/ snapshots[s] = None /\ Answer(c, "not_found")
       \/ /\ snapshots[s] # None
          /\ IF snapshots[s].uri # u
             THEN Answer(c, "mismatch")
             ELSE Becomes(c, Tagging("set_tag", u, name, s))
    /\ UNCHANGED <<world, db, blobs, delivered>>

\* ... then upserts the tag, and the handler reads it back for its answer.
UpsertTag(c) ==
    LET q == req[c] IN
    /\ q.pc = "set_tag"
    /\ tags' = [tags EXCEPT ![q.uri][q.ref] = q.snap]
    /\ Becomes(c, [q EXCEPT !.pc = "read_tag"])
    /\ UNCHANGED <<world, resources, snapshots, mats, blobs, delivered>>

ReadTag(c) ==
    /\ req[c].pc = "read_tag"
    /\ Answer(c, IF tags[req[c].uri][req[c].ref] = None THEN "not_found"
                 ELSE "ok")
    /\ UNCHANGED <<world, db, blobs, delivered>>

DeleteTag(u, name) ==
    /\ tags[u][name] # None
    /\ tags' = [tags EXCEPT ![u][name] = None]
    /\ UNCHANGED <<world, resources, snapshots, mats, blobs, req, delivered>>

-----------------------------------------------------------------------------
\* The request ends between two calls: the process dies, the peer hangs up and
\* cancels the request context, or a store refuses a call.
Fail(c) ==
    /\ ~Idle(c)
    /\ Answer(c, "gone")
    /\ UNCHANGED <<world, db, blobs, delivered>>

Step(c) ==
    \/ UseTag(c) \/ Decide(c)
    \/ Fetch(c) \/ PutBlob(c) \/ InsertSnapshot(c) \/ PointCurrent(c)
    \/ FindMaterialization(c) \/ PutMaterialization(c)
    \/ InsertMaterialization(c) \/ Reply(c)
    \/ UpsertTag(c) \/ ReadTag(c)

Ask(c) ==
    \E u \in Uris :
        \/ \E ref \in Tags \cup {None} : Lookup(c, u, ref)
        \/ \E name \in Tags, s \in SnapIds : SetTag(c, u, name, s)

Outside ==
    \/ Tick
    \/ \E u \in Uris : \/ \E x \in Contents : SourceChanges(u, x)
                       \/ \E p \in Policies : Register(u, p)
                       \/ \E name \in Tags : DeleteTag(u, name)

Next == Outside \/ \E c \in Clients : Ask(c) \/ Step(c) \/ Fail(c)

Spec == Init /\ [][Next]_vars
-----------------------------------------------------------------------------
(* Properties *)

Decisions == {"use_current", "use_pinned", "use_tag", "fetch"}

Fetched == {"put", "insert", "point"}

Delivering == {"find_mat", "put_mat", "insert_mat", "answer"}

FreeRequests ==
    [pc : {"idle"}, answer : {"none", "ok", "not_found", "mismatch", "failed", "gone"}]

TagRequests ==
    [pc : {"set_tag", "read_tag"}, uri : Uris, ref : Tags, snap : SnapIds]

Resolves ==
    [pc : {"evaluate", "tag", "fetch"} \cup Fetched \cup Delivering,
     uri : Uris, ref : Tags \cup {None}, policy : AskedPolicy,
     current : SnapIds \cup {None}, now : Nat, decision : Decisions \cup {"none"},
     snap : SnapIds \cup {None}, content : Contents \cup {None}]

IsRequest(q) ==
    \/ q \in FreeRequests \cup TagRequests
    \/ /\ q \in Resolves
       /\ q.pc \in Fetched \cup Delivering =>
             q.content \in Contents /\ q.decision \in Decisions
       /\ q.pc \in {"point"} \cup Delivering => q.snap \in SnapIds

\* Every variable has its type; a request past a step holds what that step
\* read.
TypeOK ==
    /\ clock \in Nat /\ source \in [Uris -> Contents]
    /\ resources \in [Uris -> ResourceRows \cup {None}]
    /\ snapshots \in [SnapIds -> SnapshotRows \cup {None}]
    /\ mats \in [SnapIds -> Contents \cup {None}]
    /\ tags \in [Uris -> [Tags -> SnapIds \cup {None}]]
    /\ blobs \subseteq Contents
    /\ req \in [Clients -> FreeRequests \cup TagRequests \cup Resolves]
    /\ \A c \in Clients : IsRequest(req[c])
    /\ lastLive \in [Uris -> [Contents -> Int]]
    /\ delivered \subseteq [snap : SnapIds, content : Contents]

Exists(s) == s # None /\ snapshots[s] # None

\* A row never names bytes that are not stored, whichever request died where:
\* the blob is written before the rows that name its hash.  What a snapshot
\* or a materialization records can always be read back.
RowsHaveTheirBytes ==
    /\ \A s \in SnapIds : snapshots[s] # None => snapshots[s].content \in blobs
    /\ \A s \in SnapIds : mats[s] # None => mats[s] \in blobs

\* The materialization of a snapshot is of that snapshot's bytes, although the
\* request that inserts it may not be the one that observed the snapshot and
\* the source may have changed since.
MaterializedIsObserved ==
    \A s \in SnapIds : mats[s] # None => Exists(s) /\ mats[s] = snapshots[s].content

\* The current pointer and every tag of a resource name an observation of that
\* very resource (no foreign key says so; tag.ErrSnapshotMismatch and the
\* resolver's order of statements do).
PointersAreOwn ==
    \A u \in Uris :
        /\ resources[u] # None /\ resources[u].current # None =>
              Exists(resources[u].current)
              /\ snapshots[resources[u].current].uri = u
        /\ \A n \in Tags :
              tags[u][n] # None =>
                  Exists(tags[u][n]) /\ snapshots[tags[u][n]].uri = u

\* observed_at never flatters: the source still held the snapshot's content at
\* that instant or later, however slow the fetch was.
ObservedAtIsHonest ==
    \A s \in SnapIds :
        snapshots[s] # None =>
            snapshots[s].at <= lastLive[snapshots[s].uri][snapshots[s].content]

\* What is answered is stored: the bytes are those of the snapshot and of the
\* materialization the answer names, so a replay will deliver them again, and
\* unless the policy pinned the snapshot it is one of the resource asked for.
AnswerIsRecorded ==
    \A c \in Clients : req[c].pc = "answer" =>
        LET q == req[c] IN
        /\ Exists(q.snap)
        /\ snapshots[q.snap].content = q.content
        /\ mats[q.snap] = q.content
        /\ q.content \in blobs
        /\ q.decision # "use_pinned" => snapshots[q.snap].uri = q.uri

\* An answer is as fresh as the policy demands: under require_fresh the source
\* held those bytes when the request was decided or later; under allow_stale
\* with a TTL it held them at most that long before.  Racing fetches may move
\* the current pointer back to an older observation: never past the TTL.
AnswerIsFresh ==
    \A c \in Clients :
        LET q == req[c] IN
        q.pc = "answer" /\ q.ref = None =>
            /\ q.policy.strategy = "require_fresh" =>
                  lastLive[q.uri][q.content] >= q.now
            /\ q.policy.strategy = "allow_stale" /\ q.policy.maxAge > 0 =>
                  lastLive[q.uri][q.content] >= q.now - q.policy.maxAge

\* Whatever was answered can be replayed for ever: Replay finds the snapshot's
\* materialization, and its bytes hash to what the answer delivered, whatever
\* the sources, the tags and other requests did since ("proving a manifest is
\* a durable, replayable record", internal/replay/replay.go:41-44).
DeliveredReplays == \A d \in delivered : Replay(d.snap) = d.content

\* What a request under way knows of the tables and of the world.
Knows(q) ==
    /\ q.pc = "set_tag" => Exists(q.snap) /\ snapshots[q.snap].uri = q.uri
    /\ q.pc \in {"evaluate", "tag", "fetch"} \cup Fetched \cup Delivering =>
          /\ resources[q.uri] # None
          /\ q.now <= clock
    /\ q.pc \in {"evaluate", "tag"} /\ q.current # None =>
          Exists(q.current) /\ snapshots[q.current].uri = q.uri
    /\ q.pc = "tag" => q.ref # None
    /\ q.pc \in {"evaluate", "fetch"} \cup Fetched => q.ref = None
    /\ q.pc \in {"fetch"} \cup Fetched => q.decision = "fetch"
    /\ q.pc \in Fetched => q.now <= lastLive[q.uri][q.content]
    /\ q.pc \in {"insert", "point"} \cup Delivering => q.content \in blobs
    /\ q.pc \in {"point"} \cup Delivering =>
          /\ Exists(q.snap)
          /\ snapshots[q.snap].content = q.content
          /\ q.decision # "use_pinned" => snapshots[q.snap].uri = q.uri
          /\ q.decision = "fetch" => snapshots[q.snap].at = q.now
          /\ q.decision = "use_pinned" => q.policy.strategy = "pinned"
          /\ q.decision = "use_current" =>
                /\ q.policy.strategy = "allow_stale"
                /\ q.policy.maxAge > 0 =>
                      q.now - snapshots[q.snap].at <= q.policy.maxAge
          /\ (q.decision = "use_tag") = (q.ref # None)
    /\ q.pc = "answer" => mats[q.snap] = q.content

\* A source holds what it was last seen to hold.
LiveNow ==
    \A u \in Uris :
        /\ lastLive[u][source[u]] = clock
        /\ \A x \in Contents : lastLive[u][x] <= clock

\* The inductive invariant: each property rests on what the requests that are
\* half-way through know to be true of the tables.
IInv ==
    /\ TypeOK
    /\ RowsHaveTheirBytes
    /\ MaterializedIsObserved
    /\ PointersAreOwn
    /\ ObservedAtIsHonest
    /\ DeliveredReplays
    /\ LiveNow
    /\ \A c \in Clients : Knows(req[c])
=============================================================================
