----------------------------- MODULE RunBuilder -----------------------------
(***************************************************************************)
(* internal/run.Builder over its two SQL stores, as readproofd's handler   *)
(* goroutines and the CLI's processes drive it concurrently.  A request is *)
(* a sequence of separate SQL statements (one action each); no transaction *)
(* spans them, so the statements of different requests interleave, and a   *)
(* request may die between any two (Fail).                                 *)
(*                                                                         *)
(* What a mount resolves to (uri, ref, snapshot, materialization and hash) *)
(* is one opaque member of Entries: module Resolver says how it is found.  *)
(***************************************************************************)
EXTENDS Naturals, FiniteSets

CONSTANTS
    Clients,      \* the requests that can be in flight at once
    Runs,         \* run ids
    Entries,      \* what a mount may resolve to
    ManifestIds,  \* the ids ids.New("manifest") can mint
    None,         \* SQL NULL
    MaxRows       \* bound: no mount is asked for a run with this many rows

ASSUME NoneIsNoId == None \notin ManifestIds /\ None \notin Entries

ASSUME MaxRowsIsNat == MaxRows \in Nat

VARIABLES
    runs,       \* table runs: [status, manifest], status "none" = no such row
    rows,       \* table run_mounts: run -> (position -> entry)
    manifests,  \* tables manifests and manifest_entries: {[id, run, entries]}
    req,        \* the requests in flight, with their Go locals
    acked       \* history: every mount that was answered with success

vars == <<runs, rows, manifests, req, acked>>

NoRows == [p \in {} |-> None]

\* len(mounts) of a ListMounts result.
Count(table) == Cardinality(DOMAIN table)

(***************************************************************************)
(* What the stores decide.  An operator named X_bug is X as a plausible    *)
(* mistake would have it; no specification uses one, and the README names  *)
(* the property each breaks.                                               *)
(***************************************************************************)

\* SELECT ... FROM run_mounts WHERE run_id = r ORDER BY position.
ListMounts_noWhere(r) == rows[CHOOSE x \in Runs : Count(rows[x]) > 0 \/ x = r]

ListMounts_dropsLast(r) ==
    [p \in {x \in DOMAIN rows[r] : x + 1 \in DOMAIN rows[r]} |-> rows[r][p]]

ListMounts(r) == rows[r]

\* Position: len(mounts), counted from zero.
NextPosition_fromOne(r) == Count(rows[r]) + 1

NextPosition(r) == Count(rows[r])

\* PRIMARY KEY (run_id, position) of run_mounts.
PositionTaken_upsert(r, p) == FALSE

PositionTaken(r, p) == p \in DOMAIN rows[r]

\* UNIQUE (run_id) of manifests.
HasManifest_notUnique(r) == FALSE

HasManifest(r) == \E m \in manifests : m.run = r

(***************************************************************************)
(* A request slot: free, with the status the last request was answered     *)
(* with, or in use, with the Go locals of its handler.                     *)
(*   told      position the mount handler will answer with                 *)
(*   entry, at what Builder.Mount resolved, and the position it inserts at *)
(*   listed    Commit's copy of the rows                                   *)
(*   id        the manifest id Commit minted                               *)
(*   seen      history: the mounts answered before this commit began       *)
(***************************************************************************)
Free(answer) == [pc |-> "idle", answer |-> answer]

Mounting(pc, r, told, e, at) ==
    [pc |-> pc, run |-> r, told |-> told, entry |-> e, at |-> at]

Committing(pc, r, listed, id, seen) ==
    [pc |-> pc, run |-> r, listed |-> listed, id |-> id, seen |-> seen]

Becomes(c, q) == req' = [req EXCEPT ![c] = q]

Answer(c, answer) == Becomes(c, Free(answer))

Idle(c) == req[c].pc = "idle"

Init ==
    /\ runs = [r \in Runs |-> [status |-> "none", manifest |-> None]]
    /\ rows = [r \in Runs |-> NoRows]
    /\ manifests = {}
    /\ req = [c \in Clients |-> Free("none")]
    /\ acked = {}

-----------------------------------------------------------------------------
(* POST /v1/runs: one INSERT, refused by the primary key on run_id. *)

StartRun(c, r) ==
    /\ Idle(c)
    /\ runs[r].status = "none"
    /\ runs' = [runs EXCEPT ![r].status = "open"]
    /\ Answer(c, "ok")
    /\ UNCHANGED <<rows, manifests, acked>>

StartRunTwice(c, r) ==
    /\ Idle(c)
    /\ runs[r].status # "none"
    /\ Answer(c, "failed")
    /\ UNCHANGED <<runs, rows, manifests, acked>>

-----------------------------------------------------------------------------
(* POST /v1/runs/mount *)

\* The handler counts the rows for the position it will answer with, before
\* Builder.Mount runs.
AskMount_countsItself(c, r) ==
    /\ Idle(c)
    /\ Count(rows[r]) < MaxRows
    /\ Becomes(c, Mounting("mount_check", r, NextPosition(r) + 1, None, 0))
    /\ UNCHANGED <<runs, rows, manifests, acked>>

AskMount(c, r) ==
    /\ Idle(c)
    /\ Count(rows[r]) < MaxRows
    /\ Becomes(c, Mounting("mount_check", r, NextPosition(r), None, 0))
    /\ UNCHANGED <<runs, rows, manifests, acked>>

\* Builder.Mount reads the run row and refuses an unknown or committed run.
MountCheck(c) ==
    /\ req[c].pc = "mount_check"
    /\ \/ /\ runs[req[c].run].status = "none"
          /\ Answer(c, "not_found")
       \/ /\ runs[req[c].run].status = "committed"
          /\ Answer(c, "conflict")
       \/ /\ runs[req[c].run].status = "open"
          /\ Becomes(c, Mounting("mount_resolve", req[c].run, req[c].told,
                                 None, 0))
    /\ UNCHANGED <<runs, rows, manifests, acked>>

\* Resolver.ResolveRef: whatever it finds, or an error.
MountResolve(c) ==
    /\ req[c].pc = "mount_resolve"
    /\ \/ \E e \in Entries :
             Becomes(c, Mounting("mount_list", req[c].run, req[c].told, e, 0))
       \/ Answer(c, "failed")
    /\ UNCHANGED <<runs, rows, manifests, acked>>

\* The position to insert is the number of rows now.
MountList(c) ==
    /\ req[c].pc = "mount_list"
    /\ Becomes(c, Mounting("mount_append", req[c].run, req[c].told,
                           req[c].entry, NextPosition(req[c].run)))
    /\ UNCHANGED <<runs, rows, manifests, acked>>

\* INSERT INTO run_mounts, refused by PRIMARY KEY (run_id, position).
MountAppend(c) ==
    LET q == req[c] IN
    /\ q.pc = "mount_append"
    /\ IF PositionTaken(q.run, q.at)
       THEN /\ Answer(c, "failed")
            /\ UNCHANGED rows
       ELSE /\ rows' = [rows EXCEPT ![q.run] =
                           [p \in DOMAIN @ \cup {q.at} |->
                               IF p = q.at THEN q.entry ELSE @[p]]]
            /\ Becomes(c, Mounting("mount_answer", q.run, q.told, q.entry,
                                   q.at))
    /\ UNCHANGED <<runs, manifests, acked>>

\* 200, with the position the handler counted.
MountAnswer(c) ==
    LET q == req[c] IN
    /\ q.pc = "mount_answer"
    /\ acked' = acked \cup {[run |-> q.run, at |-> q.at, told |-> q.told,
                             entry |-> q.entry]}
    /\ Answer(c, "ok")
    /\ UNCHANGED <<runs, rows, manifests>>

-----------------------------------------------------------------------------
(* POST /v1/runs/commit *)

\* Builder.Commit reads the run row and refuses an unknown or committed run.
CommitCheck(c, r) ==
    /\ Idle(c)
    /\ \/ /\ runs[r].status = "none"
          /\ Answer(c, "not_found")
       \/ /\ runs[r].status = "committed"
          /\ Answer(c, "conflict")
       \/ /\ runs[r].status = "open"
          /\ Becomes(c, Committing("commit_list", r, NoRows, None,
                                   {a \in acked : a.run = r}))
    /\ UNCHANGED <<runs, rows, manifests, acked>>

CommitList(c) ==
    /\ req[c].pc = "commit_list"
    /\ Becomes(c, Committing("commit_create", req[c].run,
                             ListMounts(req[c].run), None, req[c].seen))
    /\ UNCHANGED <<runs, rows, manifests, acked>>

\* ManifestStore.Create: the manifest and its entries in one transaction,
\* refused by UNIQUE (run_id).  The id is minted just before.
CommitCreate_conflictIgnored(c) ==
    LET q == req[c] IN
    /\ q.pc = "commit_create"
    /\ \E id \in ManifestIds :
         /\ \A m \in manifests : m.id # id
         /\ manifests' = IF HasManifest(q.run) THEN manifests
                         ELSE manifests \cup
                             {[id |-> id, run |-> q.run, entries |-> q.listed]}
         /\ Becomes(c, Committing("commit_mark", q.run, q.listed, id, q.seen))
    /\ UNCHANGED <<runs, rows, acked>>

CommitCreate(c) ==
    LET q == req[c] IN
    /\ q.pc = "commit_create"
    /\ IF HasManifest(q.run)
       THEN /\ Answer(c, "failed")
            /\ UNCHANGED manifests
       ELSE \E id \in ManifestIds :
              /\ \A m \in manifests : m.id # id
              /\ manifests' = manifests \cup
                    {[id |-> id, run |-> q.run, entries |-> q.listed]}
              /\ Becomes(c, Committing("commit_mark", q.run, q.listed, id,
                                       q.seen))
    /\ UNCHANGED <<runs, rows, acked>>

\* RunStore.MarkCommitted: an UPDATE with no condition on the status.
CommitMark_notWhenEmpty(c) ==
    LET q == req[c] IN
    /\ q.pc = "commit_mark"
    /\ runs' = IF Count(q.listed) = 0 THEN runs
               ELSE [runs EXCEPT ![q.run] =
                       [status |-> "committed", manifest |-> q.id]]
    /\ Answer(c, "ok")
    /\ UNCHANGED <<rows, manifests, acked>>

CommitMark(c) ==
    LET q == req[c] IN
    /\ q.pc = "commit_mark"
    /\ runs' = [runs EXCEPT ![q.run] =
                   [status |-> "committed", manifest |-> q.id]]
    /\ Answer(c, "ok")
    /\ UNCHANGED <<rows, manifests, acked>>

-----------------------------------------------------------------------------
\* The request ends between two statements: the process dies, the peer hangs
\* up and cancels the request context, or the database refuses a statement.
Fail(c) ==
    /\ ~Idle(c)
    /\ Answer(c, "gone")
    /\ UNCHANGED <<runs, rows, manifests, acked>>

Step(c) ==
    \/ MountCheck(c) \/ MountResolve(c) \/ MountList(c) \/ MountAppend(c)
    \/ MountAnswer(c)
    \/ CommitList(c) \/ CommitCreate(c) \/ CommitMark(c)

Ask(c) ==
    \E r \in Runs : \/ StartRun(c, r) \/ StartRunTwice(c, r)
                    \/ AskMount(c, r) \/ CommitCheck(c, r)

Next == \E c \in Clients : Ask(c) \/ Step(c) \/ Fail(c)

Spec == Init /\ [][Next]_vars

\* A goroutine that is not killed runs on: weak fairness of its steps, which
\* Fail may always end.  Nothing obliges a client to ask.
FairSpec == Spec /\ \A c \in Clients : WF_vars(Step(c))
-----------------------------------------------------------------------------
(* Properties *)

Statuses == {"none", "open", "committed"}

MountSteps == {"mount_check", "mount_resolve", "mount_list", "mount_append",
               "mount_answer"}

CommitSteps == {"commit_list", "commit_create", "commit_mark"}

Answers == {"none", "ok", "failed", "not_found", "conflict", "gone"}

IsTable(t) ==
    /\ DOMAIN t \subseteq Nat
    /\ t = [p \in DOMAIN t |-> t[p]]
    /\ \A p \in DOMAIN t : t[p] \in Entries

IsAck(a) ==
    a.run \in Runs /\ a.at \in Nat /\ a.told \in Nat /\ a.entry \in Entries

FreeRequests == [pc : {"idle"}, answer : Answers]

MountRequests ==
    [pc : MountSteps, run : Runs, told : Nat, entry : Entries \cup {None},
     at : Nat]

IsRequest(q) ==
    \/ q \in FreeRequests
    \/ /\ q \in MountRequests
       /\ q.pc \in MountSteps \ {"mount_check", "mount_resolve"} =>
             q.entry \in Entries
    \/ /\ q.pc \in CommitSteps
       /\ q = Committing(q.pc, q.run, q.listed, q.id, q.seen)
       /\ q.run \in Runs /\ IsTable(q.listed) /\ q.seen \subseteq acked
       /\ q.pc = "commit_mark" => q.id \in ManifestIds

\* Every variable has its type, and a request past a step holds what that
\* step read (the Go locals of Builder.Mount and Builder.Commit).
TypeOK ==
    /\ runs \in [Runs -> [status : Statuses, manifest : ManifestIds \cup {None}]]
    /\ rows = [r \in Runs |-> rows[r]] /\ \A r \in Runs : IsTable(rows[r])
    /\ \A m \in manifests :
          m.id \in ManifestIds /\ m.run \in Runs /\ IsTable(m.entries)
    /\ \A a \in acked : IsAck(a)
    /\ req = [c \in Clients |-> req[c]] /\ \A c \in Clients : IsRequest(req[c])

Contiguous(t) == Count(t) \in Nat /\ DOMAIN t = 0 .. Count(t) - 1

IsPrefixOf(t, log) == \A p \in DOMAIN t : p \in DOMAIN log /\ t[p] = log[p]

Covers(t, acks) == \A a \in acks : a.at \in DOMAIN t /\ t[a.at] = a.entry

\* However mounts race, the rows of a run and the entries of a manifest are
\* numbered 0 .. n-1: the entry order `evidence verify` insists on
\* (internal/evidence/verify.go) and the leaves of the Merkle root number.
PositionsContiguous ==
    /\ \A r \in Runs : Contiguous(rows[r])
    /\ \A m \in manifests : Contiguous(m.entries)

\* A mount that was answered with success is a row, with what it resolved to,
\* at the position it was inserted at: no racing mount overwrites it.
AckedMountStaged ==
    \A a \in acked : a.at \in DOMAIN rows[a.run] /\ rows[a.run][a.at] = a.entry

\* The position a mount is answered with is counted before the mount resolves:
\* under concurrent mounts it may be another mount's, but never one after its
\* own row ("the position this mount was assigned within the run",
\* internal/client/client.go:43-44, holds of mounts made one by one).
ToldIsNotLater == \A a \in acked : a.told <= a.at

\* A run has at most one manifest, whatever commits race or die half-way
\* (ErrAlreadyCommitted's comment, run.go:25-29).
OneManifestPerRun ==
    \A m1, m2 \in manifests :
        (m1.run = m2.run \/ m1.id = m2.id) => m1 = m2

\* A committed run names a manifest that exists and is its own, whichever
\* commit marked it and whatever died between the two statements.
CommittedNamesItsManifest ==
    \A r \in Runs : runs[r].status = "committed" =>
        \E m \in manifests : m.run = r /\ m.id = runs[r].manifest

\* A manifest is a prefix of what the run staged: it omits nothing in the
\* middle, invents nothing and never mixes two runs, though its rows were
\* read in another statement than the one that stores them.
ManifestIsStagedPrefix ==
    \A m \in manifests : IsPrefixOf(m.entries, rows[m.run])

\* A mount answered before the commit that created the manifest was asked is
\* in that manifest ("Commit every mounted resource", docs/api.md:237).
CommitCoversAcked ==
    \A c \in Clients : \A m \in manifests :
        (req[c].pc = "commit_mark" /\ m.id = req[c].id) =>
            Covers(m.entries, req[c].seen)

\* What a request that is under way knows of the tables.
MountInv(q) ==
    /\ q.pc # "mount_check" => runs[q.run].status # "none"
    /\ q.pc = "mount_append" => q.at <= Count(rows[q.run])
    /\ q.pc = "mount_answer" =>
          q.at \in DOMAIN rows[q.run] /\ rows[q.run][q.at] = q.entry

CommitInv(q) ==
    /\ runs[q.run].status # "none"
    /\ \A a \in q.seen : a.run = q.run
    /\ q.pc = "commit_create" =>
          /\ Contiguous(q.listed)
          /\ IsPrefixOf(q.listed, rows[q.run])
          /\ Covers(q.listed, q.seen)
    /\ q.pc = "commit_mark" =>
          \E m \in manifests :
              m.id = q.id /\ m.run = q.run /\ Covers(m.entries, q.seen)

RequestInv(c) ==
    /\ req[c].pc \in MountSteps => MountInv(req[c])
    /\ req[c].pc \in CommitSteps => CommitInv(req[c])

\* The inductive invariant: a position read in one statement is still at most
\* the length in a later one, and the rows a commit read are still a prefix
\* that covers what it must when it stores them (read-then-write is safe here
\* because rows are only ever added, at the end).
IInv ==
    /\ TypeOK
    /\ PositionsContiguous
    /\ AckedMountStaged
    /\ OneManifestPerRun
    /\ CommittedNamesItsManifest
    /\ ManifestIsStagedPrefix
    /\ \A c \in Clients : RequestInv(c)

\* A manifest is never altered or removed, and a committed run is never
\* reopened or pointed at another manifest.
SealedForever ==
    [][ /\ manifests \subseteq manifests'
        /\ \A r \in Runs :
              runs[r].status = "committed" => runs'[r] = runs[r] ]_vars

NoneDies == \A c \in Clients : req[c] # Free("gone")

\* If no request dies, a commit that found the run open ends with the run
\* committed, by itself or by the commit that won the race against it.
CommitCompletes ==
    []NoneDies =>
        \A r \in Runs :
            (\E c \in Clients : req[c].pc \in CommitSteps /\ req[c].run = r)
            ~> runs[r].status = "committed"

\* The builder's statements implement the ledger of whole steps.
Ledger == INSTANCE ManifestLedger WITH
    phase  <- [r \in Runs |-> runs[r].status],
    staged <- rows,
    sealed <- [r \in Runs |->
                  {m.entries : m \in {x \in manifests : x.run = r}}]

Implements == Ledger!Spec

-----------------------------------------------------------------------------
(* What the documentation says and the code does not do *)

\* "Commit every mounted resource into an immutable manifest"
\* (docs/api.md:237): every mount answered with success is in the manifest of
\* its committed run.
AckedMountCommitted ==
    \A a \in acked : \A m \in manifests :
        (m.run = a.run /\ runs[a.run].manifest = m.id) =>
            a.at \in DOMAIN m.entries
=============================================================================
