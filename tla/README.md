# Readproof: models and proofs

Readproof records what an agent read.  A *resource* (`readproof://ns/path`) is
registered with a source and a freshness policy.  A *resolve* turns it into a
*snapshot* (an observation: content hash and instant), a *materialization* (the
bytes as delivered) and the bytes.  A *run* collects resolves as *mounts*, and a
*commit* freezes them into a *manifest*, which can be replayed, diffed, rooted in
a Merkle tree and exported as evidence.  This directory holds TLA+ models of the
parts of that program that are hard to test, the TLC runs that check them, and
TLAPS proofs.  Paths below are relative to the repository; `DSH` stands for
`integrations/deepseek-harness/dsh-plugin-readproof`.

## 1. Inventory

| component | state | operations | hard behaviour | correct when |
|---|---|---|---|---|
| run builder: `internal/run`, `storage/*/runs.go`, `manifests.go` | tables `runs`, `run_mounts`, `manifests`, `manifest_entries` | Start, Mount, Commit | no transaction spans a request; requests interleave and die between statements | positions have no holes, one manifest per run, a manifest is what was mounted |
| resolver: `internal/resolver`, `policy`, the other stores | `sources`, `policies`, `resources`, `snapshots`, `materializations`, `tags`, blobs | Register, ResolveRef by policy or tag, SetTag, DeleteTag | the source changes during a fetch; blob, snapshot, pointer and materialization are four writes | as fresh as the policy says; what was answered replays for ever |
| local blob store: `internal/storage/blob` | files named by hash, temporary files | Put, Get | puts of one content overlap; a process dies while it writes | a file holds the bytes of its name |
| S3 blob store: `internal/storage/s3blob` | objects | Put, Get | none of its own: an object appears whole | the same |
| session runs: `DSH/src/session-runs.ts`, `index.ts` | sessions' current run, epoch and chain of promises | mount, commit, commitIfOwned, commitAll, forget | parallel tool calls, disposal events, unloading, lost requests | what a session read is committed in runs of its own |
| other plugin files: `DSH/src/tools.ts`, `payloads.ts`, `content.ts` | none | tools, payloads, cutting content | UTF-8 boundaries; a second implementation of what the MCP server shows | both show the same of one answer |
| spawned readproofd: `DSH/src/spawn.ts` | a child process | spawn, probe, kill | probe, deadline and exit race; another server may answer | it ends, and a failure leaves no child |
| replay, diff, merkle, evidence: `internal/replay`, `diff`, `merkle`, `evidence`, `sdk/typescript/src/evidence.ts` | none; a bundle is a file | functions of manifests and blobs; export and verify | two exporters that must agree; the store is damaged between their calls, the file edited | `verify` accepts what `build` writes and nothing altered |
| HTTP API and clients: `internal/api`, `wire`, `client/*`, SDK `client.ts`, `run.ts` | none (SDK `Run`: a cached start) | one call per operation | errors lose their type, durations their width, headers are redacted | the remote client is the local one |
| sources: `internal/source/*` | none | Fetch | the document changes, the peer stalls or breaks | returns one whole version, and ends |
| migration and wiring: `storage/*/sqlite.go`, `postgres.go`, `internal/app`, `cmd/readproofd` | `schema_migrations`, a listener | open, migrate, listen | processes open a new database at once and crash | every migration whole, in order, once |
| MCP server: `internal/mcp` | none | one client call per tool | errors told apart by their text | local or remote, the same is shown |
| CLI | none | one client call per command, printing | none | - |
| resource names, redaction: `internal/resource`, `redact` | none | parse, mask | two parsers | the plugin and the server name the same resource |
| ids, telemetry, version, examples, site, docs | none | - | none | - |

How they interact: the CLI uses `client/local` in its own process; readproofd
serves the same operations over HTTP, a goroutine for each request; SDK, MCP
server and plugin call readproofd.  All processes share the database and the blob
directory (or bucket), and nothing else: there is no lock and no cache.  `Mount`
calls the resolver; the resolver calls a source, the blob store and the stores,
each call a transaction of its own.

`PROJECT.json` lists the components, every modelled line (`map`) and the hazards,
each at the line where it bites, with the properties that would catch it.

## 2. Modules

| module | models | state |
|---|---|---|
| `RunBuilder` | run builder, statement by statement | the tables `runs`, `rows` (run_mounts), `manifests`; `req`, the handlers' locals; `acked`, the mounts answered 200 (history) |
| `ManifestLedger` | what the run builder promises, in whole steps | per run: `phase`, `staged` log, `sealed` prefix |
| `RunBuilder_proofs` | proofs about `RunBuilder`, and that it implements `ManifestLedger` | - |
| `Resolver` | `ResolveRef`, registration and tags, call by call | `clock`, `source`; the tables; `blobs`; `req`; histories `lastLive` (when a source last held a content) and `delivered` |
| `BlobStore` | `LocalStore.Put`, system call by system call | `path`, `tmp` (names to inodes), `data` (inodes to written chunks), `put`; histories `overlapped`, `cutShort` |
| `SessionRuns` | the plugin's `SessionRuns` and its callers | `server` (readproofd's runs), `objs` (SessionState), `states`, `tail` (the promise chains), `calls`, `unloading` |
| `Sources` | one fetch by each adapter, and the origin it reads | `fetch`, `origin` (the document and its changes) |
| `Startup` | readproofd starting over shared databases and addresses; the plugin that spawns one | `proc`, `database`, `listener`, `spawn` |
| `Evidence` | exporting a bundle (Go and TypeScript), its file, verifying it | `store`, `manifest`, `export`, `bundle`, `original` (history), `report`, `damage` |
| `Manifests` | Merkle root, replay and diff of manifests | none |
| `Clients` | the client interface: domain calls, HTTP handlers, wire forms, remote client, SDK | none |
| `Surfaces` | what the MCP server and the plugin show of an answer; reference parsers | none |
| `Inline` | cutting a content for a model, in Go and in TypeScript | none |
| `HistoryOrder` | the text a time is stored (SQLite) and sent as, and the order of a history | none |
| `Resolver_proofs`, `BlobStore_proofs`, `SessionRuns_proofs` | proofs about `Resolver`, `BlobStore` and `SessionRuns` | - |
| `Processes_proofs` | proofs about `Sources` and `Startup` | - |
| `Manifests_proofs` | proofs about the functions of `Manifests`: the Merkle root and the difference | - |
| `Views_proofs` | proofs about the functions of `HistoryOrder`, `Inline`, `Clients` and `Surfaces` | - |
| `Projections_proofs` | proofs about `Evidence`, and about the inputs of `MCProjections` | - |
| `MCRunBuilder`, `MCResolver`, `MCBlobStore`, `MCSessionRuns`, `MCProjections` (Evidence, Surfaces, Inline, HistoryOrder and what they extend), `MCProcesses` (Sources, Startup) | instances for TLC; the last two also gather parts that share no state, one part per behaviour | `input` (MCProjections) |

**One action per statement.**  In the Go modules an action is one SQL statement
(or one transaction: `ManifestStore.Create`, `ResourceStore.Create`), one blob
call or one fetch, with the Go code up to the next one.  `req[c]` is a request
slot: its `pc` names the call it is about to make, its other fields are the
locals of the handler.  `Fail` (`Die` in BlobStore) ends a request between two
calls: the process was killed, the client's context cancelled, or a call refused.
SQLite and PostgreSQL are alike at this level.

**Data.**  What a mount resolves to is one opaque entry in RunBuilder.  In
Resolver a `Content` is both the bytes and their SHA-256 (no collisions), and the
only materializer passes the bytes through.  Ids are fresh (ULIDs).  Replay of an
entry is the operator `Replay`.  The blob store of Resolver is atomic, which is
right for S3; what the local one does is BlobStore.

**SessionRuns.**  JavaScript runs one step at a time, so an action is what runs
between two awaits.  `tail[s]` is `queues.get(s)`; `calls[c].after` is the call it
is chained behind.  `Drained` keeps the order of the microtask queue: a disposer
whose commit has settled is resumed, and forgets, before any answer arrives, and
after the bodies chained behind the commit have begun.  Tools cite run ids that
some resolve reported.  Any of the
requests may be lost; it took effect before it was lost or never does.

**Evidence and the functions beside it.**  Manifests, Clients, Surfaces and Inline
are functions, and what they are applied to is enumerated: each input is an
initial state of MCProjections.  A hash is injective: a leaf is the tuple of what
is hashed, an inner node the pair of its children.  A content is a model value, in
`Inline` a sequence of byte classes (ASCII, NUL, lead and continuation bytes).
Evidence is a state machine, because an exporter makes several calls (`AskReplay`,
`AskSnapshots`, `AskResources`) while blobs are torn and rows lost, the file is
edited and `verify` runs later.  The calls that ask once for each entry are one
action: each of their answers depends on one row, and `MaxDamage` 1 lets at most
one row change, so asking one by one would observe nothing else.

**Clients.**  A method is the sequence of domain calls its handler makes
(`HandlerOf`) and the local client makes (`LocalCalls`); an outcome is the call
that failed with its error, or a value.  `Respond` is the server's answer to it,
with `writeDomainError`'s statuses; `FromWire` what the remote client makes of it;
`Shown`, `PluginShown` what is printed of that.  Durations are counted in units
with `Second` of them to a second and wrap at `Half`, as nanoseconds do at 2^63.  A
time is an instant of `HistoryOrder`, a second and a fraction of `Digits` digits:
`MarshalJSON` writes it to the wire as RFC3339Nano, where the plugin reads it, and
`formatTime` cuts what the remote client has parsed to the second.  The times of a
resource and of a materialization, which neither surface shows, are left out.

**Sources and Startup.**  A byte names its version and its index, so a mixture or
a prefix of versions is told from a version.  The origin replaces its document at
once or, a file, in place; a peer redirects, stalls, cuts the body short, or
sends no length.  In Startup a migration is its statements in a transaction that
only one process holds (`writer`); `CreateRecord` waits for it even where the table is
already there, which is stricter than the databases and changes nothing; `Healthy` is answered by whatever readproofd
listens at the address.

**Mutants.**  An operator called `X_bug` is `X` as a plausible mistake would have
it.  No specification uses one: TLC is run with `X` replaced by it to see that the
property it is meant to break is violated.

| operator | the mistake | breaks |
|---|---|---|
| `NextPosition_fromOne` | positions count from one | `PositionsContiguous`, `Implements` |
| `PositionTaken_upsert` | INSERT OR REPLACE | `AckedMountStaged` |
| `AskMount_countsItself` | the handler counts the mount it has not made | `ToldIsNotLater` |
| `HasManifest_notUnique` | no UNIQUE (run_id) | `OneManifestPerRun`, `SealedForever` |
| `ListMounts_dropsLast` | off-by-one in the listing | `CommitCoversAcked` |
| `ListMounts_noWhere` | the listing ignores its run | `ManifestIsStagedPrefix` |
| `CommitCreate_conflictIgnored` | ON CONFLICT DO NOTHING | `CommittedNamesItsManifest` |
| `CommitMark_notWhenEmpty` | an empty run is not marked | `CommitCompletes` |
| `Evaluate_reuseIfAny` | the age is not looked at | `AnswerIsFresh` |
| `ObservedAt_insertion` | stamped when inserted | `ObservedAtIsHonest` |
| `PutBlob_errorIgnored` | a failed put goes on | `RowsHaveTheirBytes` |
| `InsertMaterialization_ofSource` | materializes what the source holds now | `MaterializedIsObserved` |
| `InsertSnapshot_overwrites` | updates the current snapshot in place | `DeliveredReplays` |
| `SetTag_unchecked` | the owner is not compared | `PointersAreOwn` |
| `UseTag_anyUri` | looks a tag up by name only | `AnswerIsRecorded` |
| `OpenTmp_inPlace` | writes under the final name | `WholeUnlessOverlapped` |
| `AllWritten_short` | a short write taken for the whole | `AnsweredIsStored`, `TornOnlyWhileWritten`, `PublishedBecomesStored` |
| `Serialize_unchained` | the operation does not wait | `ReportedReadIsSo` |
| `NextEpoch_oneMore` | one probe too many | SessionRuns `TypeOK` |
| `Start_reusesExisting` | a run id in use is taken over | `OneSessionPerRun` |
| `AppendMount_uncounted` | `entries` is not updated | `EndedSessionIsCommitted`, `UnloadCommits` |
| `Settled_unlessThrown` | the chain stops at an error | `CallsFinish` |
| `Leaf_noPosition` | a leaf does not commit to its position | `RootBindsReads` |
| `UnionUris_ofFirst` | only the first manifest's URIs are compared | `DiffIsExact` |
| `VerifyEntryOrder_ascending` | positions need only ascend | `VerifyIsExact` |
| `BuildResources_raw` | the Go export writes headers as a local client answers them, unredacted | `ExportersAgree` |
| `encode_sniffsPrefix` | whether a content is text is decided after the cut | `ContentShown` |
| `writeDomainError_noTag` | a missing tag is answered 500 | `RemoteIsLocal` |
| `Format_seconds` | observed_at is written without its fraction | `HistoryNewestFirst` |
| `PluginHistory_lastTag` | one tag per snapshot is kept | `SurfacesAgree` |
| `ReadUpTo_cap` | reads up to the cap, not one byte past it | `FetchedIsWhole` |
| `Expire_headers` | the timeout covers the headers only | `FetchEnds` |
| `ApplyStatement_autocommit` | a migration is not a transaction | `SchemaWhole` |
| `KillChild_unawaited` | the child's exit is not awaited | `FailedSpawnLeavesNoChild` |
| `Lost_onExit` | the health check has no deadline | `SpawnEnds` |

## 3. Runs

| run | shows | instance |
|---|---|---|
| `run_races` | racing mounts lose no row, leave no hole and are never told a position past their own; racing commits leave one manifest; a commit has every mount answered before it | 3 requests, 1 run, 2 entries, 2 manifest ids, MaxRows 1, symmetry |
| `run_two_runs` | manifests are prefixes of their own run's log, sealed for ever; RunBuilder implements ManifestLedger; a commit completes unless a request dies | 2 requests, 2 runs, 1 entry, 2 ids, MaxRows 1, fairness |
| `run_late_mount` | finding 1 | 2 requests, 1 run |
| `resolve_fresh` | answers are as fresh as the policy demands, rows have their bytes, what was answered replays | 2 requests, 1 resource, 2 contents, 2 snapshots, clock 0..2, TTL 1, symmetry |
| `resolve_tags` | tags and pointers stay on their resource; an answer is what the tables record | 2 requests, 2 resources, 1 tag, 2 snapshots, pinned and stored policies, symmetry |
| `blob_puts` | no torn blob unless puts of one content overlap; when they do, torn only while being written, and whole in the end unless one dies | 3 writers, 1 hash, 2 chunks, fairness |
| `blob_torn` | finding 2 | 2 writers, 1 chunk |
| `session_calls` | a reported position is right and in the manifest; runs do not mix sessions; disposal and unloading commit | 5 calls of all kinds, 2 sessions with colliding ids, one disposal each, MaxProbe 2, symmetry of calls |
| `session_faults` | no call waits for ever behind a failed one | 3 calls, requests lost or refused, fairness |
| `session_both_events` | finding 3 | 4 calls, both disposal events |
| `projections` | the root, the difference, the inline text, the remote client, the plugin and the bundle say what the store holds; `verify` refuses exactly what was altered; a history is newest first but within a second | manifests of up to 4 (roots), 3 (differences, bundles) and 2 (answers) entries of 3 kinds; contents of up to 5 bytes; one damage; histories of 3 instants with fractions of 2 digits |
| `processes` | a fetch returns one whole version and ends; a database's schema is whole; a spawn ends, and leaves no child if it fails | versions below, at and above the cap of 2 bytes, 1 redirect, 2 changes; 2 processes, 2 databases, 2 addresses, migrations of 2 and 1 statements, 2 starts each; fairness |

**Why the bounds are enough.**  A race here is between two requests over one row;
a third lets another commit or mount come in between.  `MaxRows` bounds the rows a
run has when a mount *arrives*, so that three concurrent mounts still make three.  Rows of two runs,
or of two resources, meet only through the checks that compare ids, which two of
each exercise.  Three snapshots add nothing to two: the older and the newer.  The
clock needs a TTL and one tick more.  Two chunks distinguish an empty, a partial
and a whole file.  `Inodes` is larger than the files that can be in use at once
(the final name and three descriptors, or the temporary name and three).  Five
calls let a resolve, an event, another resolve, a commit and an unload overlap;
`CollidingIds` gives a's second epoch the id of b's first.  Three entries make an odd level with a
doubled last node and let an entry be lost, swapped or doubled in the middle; four
make a level that is even again.  Five bytes hold a rune of four bytes across every
cap.  `Half` 16 with `Second` 3 lets an age be a whole number of seconds or not,
fit or wrap.  One damage is every single fault; two that cancel out would have to
restore the bytes.  Two digits make a fraction empty, a
beginning of another or neither.  Two changes let a file be replaced, then rewritten, in one
fetch.  Two processes that share or do not share a database and an address are all
the conflicts two can have, a third could only wait longer; the spawned child's
database and address are fixed because the others' are not.  Liveness aside, every
property is also proved (section 5); the type invariants of RunBuilder, Resolver and
BlobStore are only proved.

**Symmetry** is used in safety runs only, over sets whose members are compared by
equality alone.

**Fairness.**  RunBuilder and BlobStore `FairSpec`: a goroutine that is not killed
runs on, so each request's steps are weakly fair; arrivals and failures are not.
Their liveness properties are under the condition that no request dies.
SessionRuns `FairSpec`: a settled promise runs its continuation, and a request is
answered or fails.  The SDK bounds the wait for the response's headers; that a
body which has begun arrives is assumed.  Sources: the local file system answers
(`ReadFile`) and the deadline passes (`Expire`); a peer never needs to do anything.
Startup: time passes (`Deadline`), the plugin's own steps are taken, a signal that
kills is delivered, and a probe that is not answered is given up (`Unhealthy`:
Node's fetch has timeouts of its own for the connection and for the headers); no
process needs to take a step.

**Deadlock** is checked except in SessionRuns, where a behaviour ends once every
call of `Calls` has been used, and in `projections` and `processes`, whose inputs
and fetches end.

## 4. Findings

1. `run_late_mount`: `Builder.Mount` looks at the status once, before it resolves.
   A commit that lists the rows before the mount inserts its own leaves it out,
   and the mount is answered 200.  What does hold is `CommitCoversAcked`.
2. `blob_torn`: the temporary name depends on the hash alone, so a put truncates
   the file that another put of the same content is about to rename.
3. `session_both_events`: the plugin hears both `agent/disposed` and
   `session/disposed`.  `forget` after the first drops the chain, so a resolve
   issued between the two and the second's commit overlap: the commit finds a
   run without entries, closes it, and what is mounted then is never committed.

Other behaviours of the models that a reader may not expect, each a consequence of
the code's actions and none ruled out by a checked property:

- The position a mount is answered with (`api.go:294`) is counted before the mount
  counts again (`run.go:156`): of two concurrent mounts the second is answered the
  first one's position.  What holds is `ToldIsNotLater`; a session of the plugin
  avoids it by its chain (`ReportedReadIsSo`).
- A commit that loses the race is refused by `UNIQUE (run_id)` and answered 500,
  not 409; and a commit that dies between its two statements leaves a run that is
  open, has a manifest and can never be committed.
- Two resolves of one snapshot may both miss its materialization; the second to
  insert it fails, although the row it wanted is there.
- A plugin tool that asks for the manifest of a run whose commit is on its way is
  answered "not found": `commit` clears `open` before the request.
- Two commits of one run with a resolve between them, all queued, end with the
  second committing, and answering with, the run that the resolve opened.
- A resolve queued behind a disposal is off its chain once `forget` has run, and
  the next operation of the session runs beside it (hence `~Ended` in the
  properties of SessionRuns).
- A TTL is stored in whole seconds (`StoredAge`): half a second, which only the
  local command line can ask for, becomes 0, and 0 means that the snapshot is never
  refreshed.  A TTL beyond 2^63 nanoseconds wraps.
- `GetManifest("")` and `GetResource("")` are "not found" locally and 400 remotely;
  a registration is created and answered 500 if reading it back fails; a malformed
  URI is refused 500 by `POST /v1/resolve`; starting a run that exists is answered
  500 (docs/api.md:10 speaks of 409).
- The text "404 Not Found" of a GitHub fetch is taken for a missing resource by the
  local client only.  The plugin's `bareUri` accepts names, and a second `@`, that
  `SplitRef` refuses.
- The TypeScript exporter writes `content_b64: ""` for an empty content, which Go
  omits, and replaces bytes that are not UTF-8.  Neither the run's id nor a bundle
  without contents is covered by offline verification, and the bytes of a blob
  torn to nothing are not embedded, so not checked either.
- A text that is not UTF-8 but is declared text may be shown invalid, and be cut by
  more than three bytes (`content.go:111-113`, `:151-152` say otherwise).
- An HTTP body without a length that the connection cuts is taken for the whole; a
  file above GitHub's contents limit is stored empty; a GitHub fetch has no timeout,
  nor has the SDK for a body that has begun.
- A history in SQLite is "newest first" (docs/api.md:109) by RFC3339Nano text,
  which drops trailing zeros: of two observations within one second, the older
  comes first when its fraction is the beginning of the newer's (`.5Z` sorts after
  `.51Z`, and `Z` after `.5Z`).  `HistoryNewestFirst` says that this is all that
  goes wrong.  PostgreSQL keeps the same text, ordered by the database's collation,
  which is not modelled.
- The plugin's payloads "mirror internal/mcp/types.go field for field"
  (`payloads.ts:4`) "so the two surfaces cannot drift" (`index.ts:7-8`), but not in
  their times.  The MCP server formats each observed_at, created_at and updated_at in
  whole seconds (`formatTime`, `resources.go:211`); the plugin copies the text of the
  wire, RFC3339 with the fraction.  Of almost every snapshot, manifest, difference
  and tag the two therefore show different texts.  What does hold is
  `SurfacesAgree`: the plugin's payload, its times cut to seconds, is the server's.
- A GitHub source without a ref has `"ref": ""` in the plugin's payload and no `ref`
  in the MCP server's: layout, which the models leave out.
- A process that loses the race for a migration exits; it can be started again.  A
  spawn is ready when anyone's readproofd answers at the address.

## 5. Proofs

`RunBuilder_proofs` proves, for all sets of clients, runs, entries and ids and any
`MaxRows`, from `NoneIsNoId` and `MaxRowsIsNat` only:

| theorem | of `Spec` |
|---|---|
| `Invariance`, `TypeCorrect` | `[]IInv`, `[]TypeOK` |
| `Positions` | `[]PositionsContiguous` |
| `Staged` | `[]AckedMountStaged` |
| `OneManifest`, `Named` | `[]OneManifestPerRun`, `[]CommittedNamesItsManifest` |
| `StagedPrefix` | `[]ManifestIsStagedPrefix` |
| `Covered` | `[]CommitCoversAcked` |
| `Sealed` | `SealedForever` |

None of the properties is inductive alone: a request uses in one statement what it
read in an earlier one.  `IInv` adds, for each request under way, what remains true
of what it read (`MountInv`, `CommitInv`): the position a mount counted is at most
the number of rows; the rows a commit listed are contiguous, a prefix of the
run's rows, and cover the mounts answered before it.  These survive the other
requests' steps because rows are only added, at the end, and never changed: an
insertion at a counted position either meets a taken one and is refused by the
primary key, or is exactly at the end.  `RequestKept` is that argument, `NextIInv`
applies it action by action, `CountInterval` and `ContiguousAppend` are the
arithmetic of contiguous tables.  `Sealed` follows because a commit marks its run
with the one manifest the run has.

On the same invariant:

| theorem | of `Spec` |
|---|---|
| `Refinement` | `Implements` (`Ledger!Spec` under the mapping of RunBuilder) |
| `ToldFirst` | `[]ToldIsNotLater` |

An inserted row is a `Stage` because the free position at most the length is the
end; a created manifest is a `Seal` because a run without one is still open, and
what was listed is a prefix of the rows; a marked run is a `Publish`.  Every other
step is a stutter.  `Told` says that no handler counted more rows than there are.

`Resolver_proofs` proves, for all sets of clients, resources, tags, contents, ids
and policies, any clock bound and length of a second, from `PoliciesAreAsked`,
`SecondIsPositive` and `NoneIsNoValue`:

| theorem | of `Spec` |
|---|---|
| `Invariance`, `TypeCorrect` | `[]IInv`, `[]TypeOK` |
| `Stored`, `Materialized` | `[]RowsHaveTheirBytes`, `[]MaterializedIsObserved` |
| `Pointers` | `[]PointersAreOwn` |
| `Honest`, `Fresh` | `[]ObservedAtIsHonest`, `[]AnswerIsFresh` |
| `Recorded`, `Replayable` | `[]AnswerIsRecorded`, `[]DeliveredReplays` |

Here `IInv` adds what a request knows (`Knows`): that the bytes it goes on with are
stored, which row they are of, that the source held them at `now` or later, and
what its decision says of that row's age.  `Grows` is why it goes on knowing it
while others move: rows, blobs and the last instant a source held a content are
never taken back (`Kept`).  `Quiet` covers the steps that only read, `StoreKeeps`
the writes of bytes, and each write of a row has a lemma of its own.  `Fresh` joins
the decision's bound on a row's age with `ObservedAtIsHonest` of that row: the
current pointer, which may go back, does not occur in it.

`BlobStore_proofs` proves, for all sets of writers, hashes and inodes and any number
of chunks, from `ChunksArePositive` and `NoneIsNoInode`:

| theorem | of `Spec` |
|---|---|
| `Invariance`, `TypeCorrect` | `[]IInv`, `[]TypeOK` |
| `FilesAreWhole` | `[]WholeUnlessOverlapped` |
| `Answered` | `[]AnsweredIsStored` |
| `TornWhileWritten` | `[]TornOnlyWhileWritten` |

`IInv` says that a file is of one hash, that a put which is alone with its hash has
written what it has counted to the file under the temporary name, and that a torn
file is open in a put that fills it to the end (`Fills`), unless one was cut short:
the last to open the file truncated it, and writes all of it.

`SessionRuns_proofs` proves, for any sessions, ids of runs (equal ones included),
finite set of calls, kinds of calls and `MaxProbe`, from the module's assumptions:

| theorem | of `Spec` |
|---|---|
| `SessionsInvariance`, `SessionTypes` | `[]SessionsIInv`, `[]TypeOK` |
| `RunsAreOfOneSession` | `[]OneSessionPerRun` |
| `ReportedReadsAreSo` | `[]ReportedReadIsSo` |
| `EndedSessionsAreCommitted`, if `~Faults` and `MaxEnds = 1` | `[]EndedSessionIsCommitted` |
| `UnloadingCommits`, if `~Faults` | `[]UnloadCommits` |

The two conditions are those under which the properties are claimed and checked: a
commit that fails is not tried again, and with two disposal events finding 3
shows the first one violated.  `EpochsHaveIds` is no restriction: an id is a text
made for every epoch.

The heart of `SessionsIInv` is `Chained`: the calls of a session that are not
settled form one line in which each waits for the one before and `tail` is the last,
as long as the session has not been forgotten.  Hence at most one call of a session
has begun (`OneAtATime`), and whoever is at the head may conclude from `objs` and
`states` what the code concludes: that the open run is its session's
(`OpenRunsAreCurrent`), that the position it was told is the next one
(`PositionsAreSo`), that a closed run it had read is committed or being committed
(`ClosedRunsAreCommitted`, `DisposalCommits`).  A disposal drops its session's chain,
so all of this is said of sessions that have not been forgotten; `OwnersAgree`
holds of all, because a commit and its run stay of one session after that.
`ChainStays`, `ChainGrows` and `ChainMoves` are the three ways a step can touch a
line; `EpochsAreBounded` counts the probes made, so that a fresh epoch has an id.

`Processes_proofs` proves, for any processes, databases, addresses, migrations of at
least one statement each, documents and limits, from the modules' assumptions:

| theorem | |
|---|---|
| `StartupInvariance` | `StartupSpec => []StartupIInv` |
| `SchemasWhole`, `NoChildLeft` | `StartupSpec => []SchemaWhole`, `[]FailedSpawnLeavesNoChild` |
| `FetchInvariance` | `FetchSpec => []FetchIInv` |
| `FetchesAreWhole` | `FetchSpec => []FetchedIsWhole` |

`StartupIInv` says that a database holds a beginning of the migrations (`Migrated`),
that a process has passed only what its database records (`Progress`: it skips what
others recorded, and is behind the only writer), that who does not run holds neither
a transaction nor a listener, and that a spawn that is over has seen its child exit
(`ChildIsWatched`).  `FetchIInv` says that what a fetch has read is a beginning of
one version: of the file it opened, which a replacement leaves to it, or of the
response, whose version was current when it was sent.  A rewrite in place breaks
it, and is the first of the three cases `FetchedIsWhole` excepts.

`Manifests_proofs` is about functions, of manifests of any length over any type of
entries:

| theorem | |
|---|---|
| `RootsBind` | `RootBinds(a, b)`, if the positions of `a` and `b` are 0, 1, ... |
| `DifferencesAreExact` | `DiffIs(store, a, b)`, if the store's materializations are missing or as recorded |

Two trees with one root are compared from the root down (`TreesOfOneRoot`): the
levels above are equal, hence so are the pairs below, as `NextLevelIs` says of a level
what its next one is.  Doubling an odd level's last node, which merkle.go:58-62 calls
a source of collisions, could only let a list and the list with its last leaf
repeated have one root; `Leaf` commits to the position, so the leaves of a manifest
differ (`LeavesAre`, `NextLevelDistinct`) and no list here is of that form.  That a
leaf, an inner node and the root of nothing are never alike is an assumption the
model shares with the code: what is hashed has at least 77 bytes in the one (a
position in 4, two separators, `sha256:` and 64 digits), 64 in the other and none in
the third.  So is that positions are below 2^32.  That levels shrink to one is an induction;
it is made with the least number at which it fails (`LeastNumber`).
The counts of a difference are cardinalities of disjoint sets (`CountsAre`), and the
URIs of a manifest that mounts each once are as many as its entries (`EachOnceIs`).

`Views_proofs` is about functions too, of what is listed and shown:

| theorem | |
|---|---|
| `HistoriesAreOrdered` | `HistoryIsOrdered(instants, width)`, for any finite set of instants and number of digits |
| `ContentsAreShown` | `ContentIsShown(content, contentType, maxBytes)`, for any bytes, type and cap |
| `AgesAgreeOfPolicies` | `AgesAgree(p)`, if the age is below `Half` |
| `ClientsAgreeOnOutcomes` | `ClientsAgree(m, outcome)`, for every method, and every outcome that is an `OutcomeTyped` |
| `ToolsAgreeOnOutcomes` | `ToolsAgree(m, outcome, tags)`, if also the contents shown are texts (`ShownAsText`): cut to seconds, the plugin's payload is the server's |
| `ReferencesAgreeOnAll` | `ReferencesAgree(raw)` |

`OutcomeTyped` asks little: that the error of a call is one of that call
(`CallErrors`), that a resource read from the store has an age of whole seconds that
fits (`Stored`, which `AgesAgreeOfPolicies` says the store makes of every policy), that
a decision is one of the four the resolver makes, and that the times it shows are
instants (`Instant`).  The rest of a value may be
anything.  The one fact about `None` is `NoneIsNoCall`: an outcome in which no call
failed names none.

Two formatted instants are compared where they differ first (`AfterAt`): in the
second, in a digit, or where one fraction has ended and its "Z" meets the other's
point or digit, the case that is misread (`MisreadAs`).  A list that no text
contradicts exists because a finite set has a latest row (`LatestRow`).  In a valid
text every byte belongs to one rune of at most four bytes (`EveryByteIsCovered`),
hence a cut that falls inside a rune is moved back by at most three, to its
beginning, and the loops of content.go and content.ts find the same place
(`ServerTrims`, `PluginTrims`).  The client theorems rest on the handlers' calls being
those of the local client with the server's own taken out (`EveryOperationMatches`),
on every error being answered with a status that both the remote client and the SDK
take for an error (`HttpStatusIs`, `AnswersAre`), on "not found" being recognised by
its text once the sentinel is lost (`NotFoundAlike`), and on each value being shown
the same after its conversions (`ResourceIsShown`: redacting twice is redacting once,
and whole seconds survive the wire; `SnapshotIsShown`, `ResolveIsShown`,
`ReplayIsShown` and so on).  `TimesAreCarried` says that the wire's text of an instant is
parsed to that instant, and that what `formatTime` makes of it is the text cut to its
second; the theorem about the two surfaces rests on it, and the surfaces differ in
nothing else that is modelled.  What a list selects is the function `Chosen` rather than
`SelectSeq`, which is recursive.

`Projections_proofs` proves, for entries and contents of any number, manifests of any
length and any number of damages, from `ContentsAreTyped` and `EntriesAreTyped` (a
materialization is of one content, `MaterializedIsObserved` of Resolver):

| theorem | |
|---|---|
| `ReadsAreBound` | `Spec => []RootBindsReads` |
| `DifferencesChecked`, if `Entries = MCEntries` | `Spec => []DiffIsExact` |
| `ContentIsChecked`, `HistoryIsChecked` | `Spec => []ContentShown`, `Spec => []HistoryNewestFirst` |
| `RemoteIsChecked` | `Spec => []RemoteIsLocal` |
| `SurfacesChecked`, if `Entries = MCEntries`, `Torn # None` and "text" and "empty" are texts | `Spec => []SurfacesAgree` |
| `EvidenceInvariance` | `EvidenceSpec => []EvidenceIInv` |
| `ExportersWriteOneBundle` | `EvidenceSpec => []ExportersAgree` |
| `VerifyAcceptsExactly` | `EvidenceSpec => []VerifyIsExact` |

Those about `Spec` apply the theorems above to the inputs of the instance, whatever
`MaxReads`, `MaxMounts`, `MaxBytes`, `Second` and `Half` are; their hypotheses are
values of the configuration.  `EvidenceIInv` is what is left to know while the
store is damaged between the calls of an export: a replay compared what it read with
what the manifest records (`IsReplay`), the entries of the file are the manifest's,
and of each embedded content it can be told from the file whether it is the recorded
one (`EntriesAreExported`); a file that was edited is one edit from the original, and
a report is of the file as it is.  `CheckedAreCommitments`: what Verify recomputes is
right exactly when the commitments are the original's, for an edit of the
entries either leaves them and their root as they were, or breaks the order, or moves
the root (`RootsBind`).  `ContentsAreChecked` compares the embedded bytes with the
hashes, `StoreIsChecked` the replay that Verify makes with what the store holds.

`DifferencesAreExact`, `DifferencesChecked` and `VerifyAcceptsExactly` have the
hypothesis `~IsFunctionValue(Failed)`: the answer that stands for an error is no
function, so it is not the empty difference.  In Go an error is no value of the
result's type; for TLC it is a model value, which differs from every function.  (It is
not an ASSUME of `Manifests`, as TLC does not evaluate `DOMAIN` of a model value.)

Each of the inductive invariants was model-checked on its run's instance before it
was proved (for `Chained`, whose line TLC cannot choose from `Seq(Calls)`, over the
sequences no longer than the number of calls).

Only model-checked: liveness (`CommitCompletes`, `PublishedBecomesStored`,
`CallsFinish`, `FetchEnds`, `SpawnEnds`), which is beyond the prover.

## 6. Not modelled

The API key, the size limit and the JSON of requests, flags and printing of the
command line, telemetry, and the JSON-RPC transport of the MCP server (a library)
keep no state that the properties distinguish.  Which paths, addresses and headers
a source adapter refuses is checking of configuration and left to the unit tests.
Power loss (what the disk keeps of an unsynced file) is left out.  Deleting runs,
snapshots and blobs is no operation of the program.  Planned, in this order:

1. `SdkRun`: the TypeScript `Run` with its cached start, which keeps a failure.
2. `Delivery`: RunBuilder and Resolver composed, so that a mount is a resolve.  Each
   half is modelled: a committed manifest is a prefix of what was mounted
   (RunBuilder), and what a mount was answered replays (Resolver).
