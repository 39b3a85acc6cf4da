---------------------------- MODULE SessionRuns ----------------------------
(***************************************************************************)
(* SessionRuns of the DSH plugin: every resolve a model makes is mounted   *)
(* into a run kept for its session, and the run is committed when the      *)
(* session ends, when a tool asks for its manifest, or when the plugin     *)
(* unloads.  Tool calls and events run concurrently; the bodies of one     *)
(* session's operations are chained by promises.                           *)
(*                                                                         *)
(* JavaScript runs one step at a time and calls interleave where they      *)
(* await: the chain, and each request to readproofd.  A mount is two steps *)
(* of the server, as in RunBuilder: handleRunMount counts the rows for its *)
(* answer, then the row is inserted.                                       *)
(*                                                                         *)
(* X_bug is X as a plausible mistake would have it, used by no             *)
(* specification; the README names the property it breaks.                 *)
(***************************************************************************)
EXTENDS Naturals, Sequences, FiniteSets

CONSTANTS
    Sessions,
    RunIds,
    RunId,     \* session -> epoch -> the run id `base` or `base-epoch`; ids of
               \* two sessions may be equal (runIdBase cuts and replaces)
    MaxProbe,  \* MAX_EPOCH_PROBE
    Calls,     \* bound: the tool calls and events of a behaviour
    Kinds,     \* bound: what calls may be; a subset of AllKinds
    MaxEnds,   \* bound: disposal events for one session
    Faults,    \* whether requests may be lost and answered 500
    None

AllKinds == {"resolve", "end", "commit", "manifest", "unload"}

ASSUME KindsAreKinds == Kinds \subseteq AllKinds

ASSUME ProbesArePositive == MaxProbe \in Nat \ {0}

ASSUME CallsAreFinite == IsFiniteSet(Calls)

\* Each resolve probes MaxProbe epochs at most.
ASSUME EpochsHaveIds ==
    \A s \in Sessions : \A e \in 1 .. MaxProbe * Cardinality(Calls) :
        RunId[s][e] \in RunIds

ServerRuns == [mounts : Seq(Calls), manifest : Nat \cup {None}]

SessionStates == [epoch : Nat, entries : Nat, open : BOOLEAN]

Unloadings == [left : SUBSET Sessions, open : SUBSET RunIds]

ASSUME NoneIsNothing ==
    None \notin Sessions \cup RunIds \cup Calls \cup ServerRuns \cup SessionStates
                \cup Unloadings \cup Nat \cup {"ok"}

VARIABLES
    server,    \* readproofd's runs: None or [mounts, manifest]
    objs,      \* the SessionState objects, by the run id they were made for
    states,    \* session -> the run of the object in `states`, or None
    tail,      \* session -> the last call of the chain in `queues`, or None
    calls,     \* the calls, with their locals
    unloading  \* commitAll: None, or the [left, open] of its loop

vars == <<server, objs, states, tail, calls, unloading>>

Unused == [kind |-> "none", pc |-> "unused"]

\* session is the one whose chain the call is on, target the run id asked for,
\* after the call it is chained behind, before the resolves made before it.
Call(kind, s, target, pc, after) ==
    [kind |-> kind, session |-> s, target |-> target, pc |-> pc,
     after |-> after, run |-> None, epoch |-> 0, left |-> 0, told |-> 0,
     answer |-> None,
     before |-> {c \in Calls : calls[c].kind = "resolve" /\ kind = "end"}]

Becomes(c, q) == calls' = [calls EXCEPT ![c] = q]

Done(c, answer) ==
    Becomes(c, [calls[c] EXCEPT !.pc = "done", !.answer = answer])

Init ==
    /\ server = [r \in RunIds |-> None]
    /\ objs = [r \in RunIds |-> None]
    /\ states = [s \in Sessions |-> None]
    /\ tail = [s \in Sessions |-> None]
    /\ calls = [c \in Calls |-> Unused]
    /\ unloading = None

-----------------------------------------------------------------------------
(* serialize: the body runs after every earlier one of the session *)

Serialize_unchained(c, kind, s, target) ==
    /\ calls[c] = Unused
    /\ Becomes(c, Call(kind, s, target, "queued", None))
    /\ tail' = [tail EXCEPT ![s] = c]

Serialize(c, kind, s, target) ==
    /\ calls[c] = Unused
    /\ Becomes(c, Call(kind, s, target, "queued", tail[s]))
    /\ tail' = [tail EXCEPT ![s] = c]

\* The call's body has returned or thrown: then(body, body) goes on.
Settled_unlessThrown(c) ==
    calls[c].pc \in {"forget", "direct", "get", "done"}
      /\ calls[c].answer # "failed"

Settled(c) == calls[c].pc \in {"forget", "direct", "get", "done"}

Begins(c) ==
    /\ calls[c].pc = "queued"
    /\ calls[c].after # None => Settled(calls[c].after)

-----------------------------------------------------------------------------
(* mount: the resolve tool, called on behalf of a session *)

Resolve(c, s) ==
    /\ Serialize(c, "resolve", s, None)
    /\ UNCHANGED <<server, objs, states, unloading>>

IsOpen(r) == r # None /\ objs[r].open

\* open(): go on with the session's run, or look for an unused run id.
Open(c) ==
    LET q == calls[c]
        r == states[q.session]
    IN
    /\ Begins(c) /\ q.kind = "resolve"
    /\ Becomes(c, IF IsOpen(r)
                  THEN [q EXCEPT !.pc = "mount", !.run = r]
                  ELSE [q EXCEPT !.pc = "start", !.left = MaxProbe,
                                 !.epoch = IF r = None THEN 1
                                           ELSE objs[r].epoch + 1])
    /\ UNCHANGED <<server, objs, states, tail, unloading>>

NewRun == [mounts |-> <<>>, manifest |-> None]

Opened(c, r) ==
    /\ objs' = [objs EXCEPT ![r] = [epoch |-> calls[c].epoch, entries |-> 0,
                                    open |-> TRUE]]
    /\ states' = [states EXCEPT ![calls[c].session] = r]
    /\ Becomes(c, [calls[c] EXCEPT !.pc = "mount", !.run = r])

NextEpoch_oneMore(c) ==
    LET q == calls[c] IN
    IF q.left = 0 THEN Done(c, "failed")
    ELSE Becomes(c, [q EXCEPT !.epoch = @ + 1, !.left = @ - 1])

\* A 500 is taken for a run id in use: try the next one, MaxProbe in all.
NextEpoch(c) ==
    LET q == calls[c] IN
    IF q.left = 1 THEN Done(c, "failed")
    ELSE Becomes(c, [q EXCEPT !.epoch = @ + 1, !.left = @ - 1])

\* startRun, refused by PRIMARY KEY (run_id).
Start_reusesExisting(c) ==
    LET q == calls[c]
        r == RunId[q.session][q.epoch]
    IN
    /\ q.pc = "start"
    /\ server' = [server EXCEPT ![r] = IF @ = None THEN NewRun ELSE @]
    /\ Opened(c, r)
    /\ UNCHANGED <<tail, unloading>>

Start(c) ==
    LET q == calls[c]
        r == RunId[q.session][q.epoch]
    IN
    /\ q.pc = "start"
    /\ \/ /\ server[r] = None
          /\ server' = [server EXCEPT ![r] = NewRun]
          /\ Opened(c, r)
       \/ /\ server[r] # None \/ Faults
          /\ NextEpoch(c)
          /\ UNCHANGED <<server, objs, states>>
    /\ UNCHANGED <<tail, unloading>>

\* mountRun: the server refuses a committed run, counts its rows ...
Mount(c) ==
    LET q == calls[c] IN
    /\ q.pc = "mount"
    /\ IF server[q.run].manifest # None
       THEN Done(c, "failed")
       ELSE Becomes(c, [q EXCEPT !.pc = "append",
                                 !.told = Len(server[q.run].mounts)])
    /\ UNCHANGED <<server, objs, states, tail, unloading>>

\* ... and inserts one; the answer updates the object, in `states` or not.
AppendMount_uncounted(c) ==
    LET q == calls[c] IN
    /\ q.pc = "append"
    /\ server' = [server EXCEPT ![q.run].mounts = Append(@, c)]
    /\ Done(c, "ok")
    /\ UNCHANGED <<objs, states, tail, unloading>>

AppendMount(c) ==
    LET q == calls[c] IN
    /\ q.pc = "append"
    /\ server' = [server EXCEPT ![q.run].mounts = Append(@, c)]
    /\ objs' = [objs EXCEPT ![q.run].entries = q.told + 1]
    /\ Done(c, "ok")
    /\ UNCHANGED <<states, tail, unloading>>

-----------------------------------------------------------------------------
(* commit: disposal events, tools that need a manifest, and unloading *)

\* agent/disposed or session/disposed.
End(c, s) ==
    /\ Cardinality({x \in Calls : calls[x].kind = "end"
                                    /\ calls[x].session = s}) < MaxEnds
    /\ Serialize(c, "end", s, None)
    /\ UNCHANGED <<server, objs, states, unloading>>

\* A tool cites a run some resolve has reported: commitIfOwned looks for it in
\* `states` at once, and commits its session's run or nothing.
Ask(c, kind, r) ==
    /\ calls[c] = Unused
    /\ kind \in {"commit", "manifest"}
    /\ \E x \in Calls : calls[x].kind = "resolve" /\ calls[x].answer = "ok"
                          /\ calls[x].run = r
    /\ \/ \E s \in Sessions : /\ states[s] = r /\ IsOpen(r)
                              /\ Serialize(c, kind, s, r)
       \/ /\ ~\E s \in Sessions : states[s] = r /\ IsOpen(r)
          /\ Becomes(c, Call(kind, None, r,
                             IF kind = "commit" THEN "direct" ELSE "get", None))
          /\ UNCHANGED tail
    /\ UNCHANGED <<server, objs, states, unloading>>

\* commitAll: one session after the other, of those in `states` at its start.
Unload ==
    /\ "unload" \in Kinds /\ unloading = None
    /\ unloading' = [left |-> {s \in Sessions : states[s] # None},
                     open |-> {r \in RunIds :
                                  \E s \in Sessions : states[s] = r /\ IsOpen(r)}]
    /\ UNCHANGED <<server, objs, states, tail, calls>>

UnloadNext(c) ==
    /\ unloading # None
    /\ \A x \in Calls : calls[x].kind = "unload" => Settled(x)
    /\ \E s \in unloading.left :
          /\ Serialize(c, "unload", s, None)
          /\ unloading' = [unloading EXCEPT !.left = @ \ {s}]
    /\ UNCHANGED <<server, objs, states>>

\* The body of commit has returned a manifest or undefined (None).
Committed(c, manifest) ==
    LET q == calls[c] IN
    Becomes(c,
        CASE q.kind = "end" -> [q EXCEPT !.pc = "forget"]
          [] q.kind = "unload" -> [q EXCEPT !.pc = "done"]
          [] q.kind = "manifest" -> [q EXCEPT !.pc = "get"]
          [] q.kind = "commit" ->
                IF manifest = None THEN [q EXCEPT !.pc = "direct"]
                ELSE [q EXCEPT !.pc = "done", !.answer = manifest])

\* It has thrown: the disposer forgets the session all the same.
Thrown(c) ==
    IF calls[c].kind = "end"
    THEN Becomes(c, [calls[c] EXCEPT !.pc = "forget"])
    ELSE Done(c, "failed")

\* The session's run, whichever it is by now, is closed; if it has entries it
\* is committed.
Close(c) ==
    LET q == calls[c]
        r == states[q.session]
    IN
    /\ Begins(c) /\ q.kind # "resolve"
    /\ IF ~IsOpen(r)
       THEN Committed(c, None) /\ UNCHANGED objs
       ELSE /\ objs' = [objs EXCEPT ![r].open = FALSE]
            /\ IF objs[r].entries = 0
               THEN Committed(c, None)
               ELSE Becomes(c, [q EXCEPT !.pc = "commit", !.run = r])
    /\ UNCHANGED <<server, states, tail, unloading>>

Manifested(r) ==
    server' = [server EXCEPT ![r].manifest = Len(server[r].mounts)]

\* commitRun, refused with 409 once the run has a manifest.
Commit(c) ==
    LET r == calls[c].run IN
    /\ calls[c].pc = "commit"
    /\ IF server[r].manifest # None
       THEN Thrown(c) /\ UNCHANGED server
       ELSE Committed(c, r) /\ Manifested(r)
    /\ UNCHANGED <<objs, states, tail, unloading>>

\* readproof_run_commit of a run that is not ours, or was nothing to commit.
Direct(c) ==
    LET r == calls[c].target IN
    /\ calls[c].pc = "direct"
    /\ IF server[r] = None \/ server[r].manifest # None
       THEN Done(c, "failed") /\ UNCHANGED server
       ELSE Done(c, r) /\ Manifested(r)
    /\ UNCHANGED <<objs, states, tail, unloading>>

\* getManifest, for readproof_manifest, _diff, _replay and _evidence_export.
GetManifest(c) ==
    LET r == calls[c].target IN
    /\ calls[c].pc = "get"
    /\ Done(c, IF server[r].manifest # None THEN r ELSE "not_found")
    /\ UNCHANGED <<server, objs, states, tail, unloading>>

\* The disposer forgets the session.  The microtasks that start the bodies
\* chained behind its commit were queued before the one that resumes it.
Forget(c) ==
    LET q == calls[c] IN
    /\ q.pc = "forget"
    /\ \A x \in Calls : calls[x].pc = "queued" => calls[x].after # c
    /\ states' = [states EXCEPT ![q.session] = None]
    /\ tail' = [tail EXCEPT ![q.session] = None]
    /\ Done(c, None)
    /\ UNCHANGED <<server, objs, unloading>>

-----------------------------------------------------------------------------
\* A request is lost, before or after the server has done what it asks.
Lose(c) ==
    LET q == calls[c] IN
    /\ Faults
    /\ q.pc \in {"start", "mount", "append", "commit", "direct", "get"}
    /\ \/ UNCHANGED server
       \/ /\ q.pc = "start" /\ server[RunId[q.session][q.epoch]] = None
          /\ server' = [server EXCEPT ![RunId[q.session][q.epoch]] = NewRun]
       \/ /\ q.pc = "append"
          /\ server' = [server EXCEPT ![q.run].mounts = Append(@, c)]
       \/ /\ q.pc = "commit" /\ server[q.run].manifest = None
          /\ Manifested(q.run)
       \/ /\ q.pc = "direct" /\ server[q.target] # None
          /\ server[q.target].manifest = None
          /\ Manifested(q.target)
    /\ IF q.pc = "commit" THEN Thrown(c) ELSE Done(c, "failed")
    /\ UNCHANGED <<objs, states, tail, unloading>>

Arrive(c) ==
    \/ \E s \in Sessions : \/ "resolve" \in Kinds /\ Resolve(c, s)
                           \/ "end" \in Kinds /\ End(c, s)
    \/ \E kind \in Kinds, r \in RunIds : Ask(c, kind, r)

Answered(c) ==
    Start(c) \/ Mount(c) \/ AppendMount(c) \/ Commit(c) \/ Direct(c) \/ GetManifest(c)

Microtask(c) == Open(c) \/ Close(c) \/ Forget(c)

\* A disposer is resumed within the turn that settles its commit: neither an
\* answer of the server nor a call comes in between.
Drained == \A c \in Calls : calls[c].pc # "forget"

Step(c) == Microtask(c) \/ (Drained /\ Answered(c))

Next ==
    \/ Drained /\ Unload
    \/ \E c \in Calls :
          Step(c) \/ (Drained /\ (Arrive(c) \/ UnloadNext(c) \/ Lose(c)))

Spec == Init /\ [][Next]_vars

\* A request is answered or fails in the end (the SDK times the wait for the
\* headers; that the body then arrives is assumed), and a ready promise goes on.
FairSpec == Spec /\ \A c \in Calls : WF_vars(Step(c))
-----------------------------------------------------------------------------
(* Properties *)

Pcs == {"queued", "start", "mount", "append", "commit", "direct", "get",
        "forget", "done"}

IsCall(q) ==
    \/ q = Unused
    \/ /\ q.kind \in AllKinds /\ q.pc \in Pcs
       /\ q.session \in Sessions \cup {None} /\ q.target \in RunIds \cup {None}
       /\ q.after \in Calls \cup {None} /\ q.run \in RunIds \cup {None}
       /\ q.pc \in {"mount", "append", "commit"} => objs[q.run] # None
       /\ q.pc = "start" => q.left \in 1 .. MaxProbe

\* Every variable has its type; a call that uses a run holds its object.
TypeOK ==
    /\ \A r \in RunIds :
          /\ server[r] = None \/ (/\ server[r].mounts \in Seq(Calls)
                                  /\ server[r].manifest \in Nat \cup {None})
          /\ objs[r] = None \/ (/\ objs[r].open \in BOOLEAN
                                /\ objs[r].entries \in Nat /\ objs[r].epoch \in Nat
                                /\ server[r] # None)
    /\ states \in [Sessions -> {r \in RunIds : objs[r] # None} \cup {None}]
    /\ tail \in [Sessions -> Calls \cup {None}]
    /\ \A c \in Calls : IsCall(calls[c])

Read(c) == calls[c].kind = "resolve" /\ calls[c].answer = "ok"

\* A run holds what one session read, although the ids of two sessions may be
\* equal and an id is probed by starting it (runIdBase cuts and replaces).
OneSessionPerRun ==
    \A r \in RunIds : server[r] # None =>
        \A i, j \in DOMAIN server[r].mounts :
            calls[server[r].mounts[i]].session = calls[server[r].mounts[j]].session

Ended(s) == \E e \in Calls : calls[e].kind = "end" /\ calls[e].session = s

\* What a resolve reports is so: its mount has the position it names, though
\* the server counts before it inserts, and it is in the manifest of the run,
\* if there is one, whoever committed it and however the commit overlapped
\* (session-runs.ts:40, "parallel tool calls must not both open a run").  Not
\* once a disposal event has made the session forgotten, see README.
ReportedReadIsSo ==
    \A c \in Calls : Read(c) /\ ~Ended(calls[c].session) =>
        LET run == server[calls[c].run] IN
        /\ run.mounts[calls[c].told + 1] = c
        /\ run.manifest # None => calls[c].told < run.manifest

\* "The run is committed when the session ends" (README.md:223): once a
\* disposal has been handled, what the session had read before it is
\* committed.  So it is with one disposal event (MaxEnds = 1), and not when
\* both events come (MaxEnds = 2, see README).
EndedSessionIsCommitted ==
    \A e \in Calls : calls[e].kind = "end" /\ calls[e].pc = "done" =>
        \A c \in calls[e].before :
            Read(c) /\ calls[c].session = calls[e].session =>
                server[calls[c].run].manifest # None

UnloadIsOver ==
    /\ unloading # None /\ unloading.left = {}
    /\ \A c \in Calls : calls[c].pc \in {"unused", "done"}

\* "Unloading the plugin commits every open run" (README.md:233): of those it
\* had opened when it began, each that somebody read from (and whose session
\* is not being forgotten: a resolve behind a disposal is off the chain).
UnloadCommits ==
    UnloadIsOver =>
        \A c \in Calls :
            /\ Read(c) /\ ~Ended(calls[c].session)
            /\ calls[c].run \in unloading.open
            => server[calls[c].run].manifest # None

-----------------------------------------------------------------------------
(* The inductive invariant of these properties *)

CallRecords ==
    [kind : AllKinds, session : Sessions \cup {None}, target : RunIds \cup {None},
     pc : Pcs, after : Calls \cup {None}, run : RunIds \cup {None}, epoch : Nat,
     left : Nat, told : Nat, answer : {None, "ok", "failed", "not_found"} \cup RunIds,
     before : SUBSET Calls]

Typed ==
    /\ server \in [RunIds -> {None} \cup ServerRuns]
    /\ objs \in [RunIds -> {None} \cup SessionStates]
    /\ states \in [Sessions -> {None} \cup RunIds]
    /\ tail \in [Sessions -> {None} \cup Calls]
    /\ calls \in [Calls -> {Unused} \cup CallRecords]
    /\ unloading \in {None} \cup Unloadings

\* Where a call of each kind may be, and what it holds there.
IsPlaced(q) ==
    /\ q.pc \in {"start", "mount", "append"} => q.kind = "resolve"
    /\ q.pc = "commit" => q.kind # "resolve" /\ q.run # None
    /\ q.pc = "direct" => q.kind = "commit"
    /\ q.pc = "get" => q.kind = "manifest"
    /\ q.pc = "forget" => q.kind = "end"
    /\ q.session = None =>
          q.kind \in {"commit", "manifest"} /\ q.pc \in {"direct", "get", "done"}
    /\ q.kind = "resolve" =>
          /\ q.pc \in {"queued", "start"} => q.run = None
          /\ q.pc \in {"mount", "append"} => q.run # None
          /\ q.answer = "ok" => q.pc = "done" /\ q.run # None
    /\ q.kind \in {"commit", "manifest"} => q.target # None

Placed == \A c \in Calls : calls[c] # Unused => IsPlaced(calls[c])

\* What is named is there.
Refers ==
    /\ \A r \in RunIds : objs[r] # None => server[r] # None
    /\ \A s \in Sessions : states[s] # None => objs[states[s]] # None
    /\ \A c \in Calls : calls[c] # Unused =>
          /\ calls[c].run # None => objs[calls[c].run] # None
          /\ calls[c].target # None => objs[calls[c].target] # None
          /\ \A d \in calls[c].before : calls[d].kind = "resolve"
    /\ unloading # None => \A r \in unloading.open : objs[r] # None

\* A resolve probes at most MaxProbe epochs, counting from a session's last one.
HasProbed(c) == calls[c].kind = "resolve" /\ calls[c].pc # "queued"

EpochsProbed == MaxProbe * Cardinality({c \in Calls : HasProbed(c)})

EpochsAreBounded ==
    /\ \A r \in RunIds : objs[r] # None => objs[r].epoch \in 1 .. EpochsProbed
    /\ \A c \in Calls : calls[c].pc = "start" =>
          /\ calls[c].left \in 1 .. MaxProbe /\ calls[c].epoch # 0
          /\ calls[c].epoch + calls[c].left <= EpochsProbed + 1

IsUser(c, r) == calls[c].kind = "resolve" /\ calls[c].run = r

\* The resolves that use a run are of one session, the one it is a run of.
OwnersAgree ==
    /\ \A r \in RunIds : \A c, d \in Calls :
          IsUser(c, r) /\ IsUser(d, r) => calls[c].session = calls[d].session
    /\ \A s \in Sessions : states[s] # None =>
          /\ \A c \in Calls : IsUser(c, states[s]) => calls[c].session = s
          /\ \A t \in Sessions : states[t] = states[s] => t = s
    /\ \A r \in RunIds : server[r] # None =>
          \A i \in DOMAIN server[r].mounts : IsUser(server[r].mounts[i], r)
    /\ \A q \in Calls : calls[q].pc = "commit" =>
          /\ ~objs[calls[q].run].open
          /\ \A c \in Calls : IsUser(c, calls[q].run) => calls[c].session = calls[q].session
    /\ \A q \in Calls : calls[q].kind \in {"commit", "manifest"} =>
          \E c \in Calls : /\ IsUser(c, calls[q].target)
                           /\ calls[q].pc = "queued" => calls[c].session = calls[q].session

Of(c, s) == calls[c].kind # "none" /\ calls[c].session = s

HasBegun(c) == calls[c].pc \in {"start", "mount", "append", "commit"}

Waits(c) == calls[c].pc = "queued" \/ HasBegun(c)

Forgotten(s) ==
    \E e \in Calls : calls[e].kind = "end" /\ calls[e].session = s /\ calls[e].pc = "done"

\* The calls of a session that are not settled, as they are chained: all but the
\* first are queued behind the one before.
IsChain(line, s) ==
    /\ \A i, j \in DOMAIN line : line[i] = line[j] => i = j
    /\ \A c \in Calls : (\E i \in DOMAIN line : line[i] = c) <=> Of(c, s) /\ Waits(c)
    /\ \A i \in DOMAIN line : i # 1 =>
          calls[line[i]].pc = "queued" /\ calls[line[i]].after = line[i - 1]
    /\ IF line = <<>> THEN tail[s] = None \/ Settled(tail[s])
       ELSE tail[s] = line[Len(line)]
    /\ \A i, j \in DOMAIN line : calls[line[j]].kind = "end" /\ j <= i =>
          line[i] \notin calls[line[j]].before

Chained == \A s \in Sessions : ~Forgotten(s) => \E line \in Seq(Calls) : IsChain(line, s)

\* A run is mounted into while it is open, and is its session's run while it is.
OpenRunsAreCurrent ==
    \A c \in Calls : calls[c].kind = "resolve" /\ ~Forgotten(calls[c].session) =>
        /\ calls[c].pc = "start" => ~IsOpen(states[calls[c].session])
        /\ calls[c].pc \in {"mount", "append"} => objs[calls[c].run].open
        /\ IsOpen(calls[c].run) => states[calls[c].session] = calls[c].run
        /\ \A q \in Calls : calls[q].pc = "direct" /\ calls[q].target = calls[c].run =>
              ~IsOpen(calls[c].run)

PositionsAreSo ==
    \A c \in Calls : calls[c].kind = "resolve" /\ ~Forgotten(calls[c].session) =>
        LET run == server[calls[c].run] IN
        /\ calls[c].pc = "append" =>
              calls[c].told = Len(run.mounts) /\ run.manifest = None
        /\ Read(c) => /\ calls[c].told < Len(run.mounts)
                      /\ run.mounts[calls[c].told + 1] = c
                      /\ run.manifest # None => calls[c].told < run.manifest

\* A run that was read from is committed once it is closed.
ClosedRunsAreCommitted ==
    \A c \in Calls : Read(c) /\ ~Forgotten(calls[c].session) =>
        IF objs[calls[c].run].open THEN objs[calls[c].run].entries # 0
        ELSE \/ server[calls[c].run].manifest # None
             \/ \E q \in Calls : calls[q].pc = "commit" /\ calls[q].run = calls[c].run

\* What a disposal has still to do, of what was read before it.
DisposalCommits ==
    /\ \A e, f \in Calls :
          calls[e].kind = "end" /\ calls[f].kind = "end"
            /\ calls[e].session = calls[f].session => e = f
    /\ \A e \in Calls : calls[e].kind = "end" /\ calls[e].pc # "queued" =>
          \A c \in calls[e].before : Of(c, calls[e].session) =>
              /\ ~Waits(c)
              /\ Read(c) => \/ server[calls[c].run].manifest # None
                            \/ calls[e].pc = "commit" /\ calls[e].run = calls[c].run

\* What unloading has still to do, of what was open when it began.
UnloadIsOnItsWay ==
    unloading # None =>
        \A s \in Sessions :
            ~Forgotten(s) /\ IsOpen(states[s]) /\ states[s] \in unloading.open =>
                \/ s \in unloading.left
                \/ \E u \in Calls : /\ calls[u].kind = "unload" /\ calls[u].session = s
                                    /\ calls[u].pc = "queued"

SessionsIInv ==
    /\ Typed /\ Placed /\ Refers /\ EpochsAreBounded /\ OwnersAgree /\ Chained
    /\ OpenRunsAreCurrent /\ PositionsAreSo /\ UnloadIsOnItsWay
    /\ ~Faults => ClosedRunsAreCommitted
    /\ ~Faults /\ MaxEnds = 1 => DisposalCommits

\* No call waits for ever, although others of its session fail: "a single
\* failed mount does not poison the session" (session-runs.ts:145-146).
CallsFinish ==
    \A c \in Calls : calls[c].pc = "queued" ~> calls[c].pc = "done"
=============================================================================
