------------------------------- MODULE Startup -------------------------------
(***************************************************************************)
(* Processes of readproofd starting over shared databases and addresses:   *)
(* the migrations (internal/storage/sqlite/sqlite.go, and postgres.go),    *)
(* then the listener (cmd/readproofd/main.go); and the plugin that spawns  *)
(* one of them, waits for its health, and stops it (spawn.ts).  Any        *)
(* process may crash, and the others may be started again.                 *)
(*                                                                         *)
(* A migration is a number of statements in one transaction.  Of the locks *)
(* of the database one matters: who writes.  SQLite answers "busy" to a    *)
(* second writer or lets it wait, PostgreSQL lets it wait.                 *)
(*                                                                         *)
(* X_bug is X as a plausible mistake would have it, used by no             *)
(* specification; the README names the property it breaks.                 *)
(***************************************************************************)
EXTENDS Naturals, Sequences

CONSTANTS
    Child,       \* the process that the plugin spawns
    Others,      \* processes that others start
    Databases,   \* data directories, or PostgreSQL databases
    Addresses,   \* to listen on
    Migrations,  \* the statements of each migration, in their order
    MaxStarts,   \* bound: starts of each process
    Nobody,      \* no writer, no listener
    Foreign      \* the listener that is not a readproofd

ASSUME StartupConstants ==
    /\ Child \notin Others
    /\ {Nobody, Foreign} \cap ({Child} \cup Others) = {} /\ Nobody # Foreign
    /\ Migrations \in Seq(Nat \ {0}) /\ MaxStarts \in Nat

Procs == {Child} \cup Others

VARIABLES
    proc,      \* of each process: [pc, database, address, at, done, starts];
               \*   at, the migration, and done, its statements so far
    database,  \* of each: [created, recorded, writer]; created, the statements
               \*   whose tables exist, recorded, the migrations
    listener,  \* on each address
    spawn      \* the plugin: [pc, asked, expired, then, deaf, signal]

startupVars == <<proc, database, listener, spawn>>

Off(d, a) == [pc |-> "off", database |-> d, address |-> a, at |-> 0, done |-> 0,
              starts |-> 0]

NoSpawn == [pc |-> "none", asked |-> FALSE, expired |-> FALSE, then |-> "none",
            deaf |-> FALSE, signal |-> "none"]

StartupInit ==
    /\ proc \in [Procs -> {Off(d, a) : d \in Databases, a \in Addresses}]
    /\ database = [d \in Databases |-> [created |-> {}, recorded |-> {},
                                        writer |-> Nobody]]
    /\ listener \in [Addresses -> {Nobody, Foreign}]
    /\ \E deaf \in BOOLEAN : spawn = [NoSpawn EXCEPT !.deaf = deaf]

StartupOff ==
    /\ proc = [p \in Procs |-> [Off(Nobody, Nobody) EXCEPT !.pc = "never"]]
    /\ database = [d \in Databases |-> [created |-> {}, recorded |-> {},
                                        writer |-> Nobody]]
    /\ listener = [a \in Addresses |-> Nobody]
    /\ spawn = [NoSpawn EXCEPT !.pc = "never"]

-----------------------------------------------------------------------------
(* A process *)

Database(p) == database[proc[p].database]
Writable(p) == Database(p).writer \in {Nobody, p}

At(p, pc) == proc[p].pc = pc
Goes(p, pc) == proc' = [proc EXCEPT ![p].pc = pc]

\* Its transaction is rolled back, and its listener closed.
Exit(p) ==
    /\ proc' = [proc EXCEPT ![p].pc = "exited"]
    /\ database' = [d \in Databases |->
                       IF database[d].writer = p
                       THEN [database[d] EXCEPT !.writer = Nobody] ELSE database[d]]
    /\ listener' = [a \in Addresses |-> IF listener[a] = p THEN Nobody ELSE listener[a]]

Started(p) ==
    [proc EXCEPT ![p].pc = "open", ![p].at = 1, ![p].done = 0, ![p].starts = @ + 1]

Launch(p) ==
    /\ p \in Others /\ proc[p].pc \in {"off", "exited"} /\ proc[p].starts < MaxStarts
    /\ proc' = Started(p)
    /\ UNCHANGED <<database, listener, spawn>>

\* CREATE TABLE IF NOT EXISTS schema_migrations
CreateRecord(p) ==
    /\ At(p, "open") /\ Writable(p)
    /\ Goes(p, "check")
    /\ UNCHANGED <<database, listener, spawn>>

\* The next migration: none left, recorded already, or to be applied.
CheckMigration(p) ==
    /\ At(p, "check")
    /\ IF proc[p].at > Len(Migrations) THEN Goes(p, "bind")
       ELSE IF proc[p].at \in Database(p).recorded
       THEN proc' = [proc EXCEPT ![p].at = @ + 1]
       ELSE proc' = [proc EXCEPT ![p].pc = "apply", ![p].done = 0]
    /\ UNCHANGED <<database, listener, spawn>>

\* A table that exists already fails the migration, and the process with it.
ApplyStatement_autocommit(p) ==
    LET s == <<proc[p].at, proc[p].done + 1>> IN
    /\ At(p, "apply") /\ Writable(p) /\ proc[p].done < Migrations[proc[p].at]
    /\ IF s \in Database(p).created THEN Exit(p)
       ELSE /\ proc' = [proc EXCEPT ![p].done = @ + 1]
            /\ database' = [database EXCEPT ![proc[p].database].created = @ \cup {s}]
            /\ UNCHANGED listener
    /\ UNCHANGED spawn

ApplyStatement(p) ==
    LET s == <<proc[p].at, proc[p].done + 1>> IN
    /\ At(p, "apply") /\ Writable(p) /\ proc[p].done < Migrations[proc[p].at]
    /\ IF s \in Database(p).created THEN Exit(p)
       ELSE /\ proc' = [proc EXCEPT ![p].done = @ + 1]
            /\ database' = [database EXCEPT ![proc[p].database].writer = p]
            /\ UNCHANGED listener
    /\ UNCHANGED spawn

\* The migration is recorded in the transaction that applied it.
CommitMigration(p) ==
    LET m == proc[p].at IN
    /\ At(p, "apply") /\ proc[p].done = Migrations[m]
    /\ proc' = [proc EXCEPT ![p].pc = "check", ![p].at = @ + 1]
    /\ database' = [database EXCEPT
                       ![proc[p].database] =
                          [created  |-> @.created \cup {<<m, s>> : s \in 1 .. Migrations[m]},
                           recorded |-> @.recorded \cup {m},
                           writer   |-> Nobody]]
    /\ UNCHANGED <<listener, spawn>>

\* "database is locked"
LockedOut(p) ==
    /\ proc[p].pc \in {"open", "apply"} /\ ~Writable(p)
    /\ Exit(p)
    /\ UNCHANGED spawn

\* ListenAndServe: an address in use ends the process.
Listen(p) ==
    /\ At(p, "bind")
    /\ IF listener[proc[p].address] = Nobody
       THEN /\ Goes(p, "serve")
            /\ listener' = [listener EXCEPT ![proc[p].address] = p]
            /\ UNCHANGED database
       ELSE Exit(p)
    /\ UNCHANGED spawn

Running(p) == proc[p].pc \in {"open", "check", "apply", "bind", "serve"}

Crash(p) ==
    /\ Running(p)
    /\ Exit(p)
    /\ UNCHANGED spawn

-----------------------------------------------------------------------------
(* The plugin: spawnReadproofd *)

Endpoint == proc[Child].address

\* An executable that is not there exits at once.
Spawn ==
    /\ spawn.pc = "none"
    /\ spawn' = [spawn EXCEPT !.pc = "waiting"]
    /\ \/ proc' = Started(Child)
       \/ proc' = [proc EXCEPT ![Child].pc = "exited"]
    /\ UNCHANGED <<database, listener>>

Plugin(pc) == spawn.pc = pc /\ UNCHANGED <<proc, database, listener>>

\* waitForHealth: the deadline is looked at between two attempts.
Ask ==
    /\ Plugin("waiting") /\ ~spawn.asked /\ ~spawn.expired
    /\ spawn' = [spawn EXCEPT !.asked = TRUE]

\* Whoever listens there answers for the child, the health route needing no key.
Healthy ==
    /\ Plugin("waiting") /\ spawn.asked
    /\ listener[Endpoint] \in Procs
    /\ spawn' = [spawn EXCEPT !.pc = "ready", !.asked = FALSE]

\* Refused, reset, answered with another status, or given up by fetch itself.
Unhealthy ==
    /\ Plugin("waiting") /\ spawn.asked
    /\ spawn' = [spawn EXCEPT !.asked = FALSE]

Deadline ==
    /\ Plugin("waiting") /\ ~spawn.expired
    /\ spawn' = [spawn EXCEPT !.expired = TRUE]

Lost_onExit ==
    /\ Plugin("waiting")
    /\ proc[Child].pc = "exited"
    /\ spawn' = [spawn EXCEPT !.pc = "kill", !.then = "thrown", !.asked = FALSE]

\* The race of the health check with the child's exit is lost.
Lost ==
    /\ Plugin("waiting")
    /\ \/ spawn.expired /\ ~spawn.asked
       \/ proc[Child].pc = "exited"
    /\ spawn' = [spawn EXCEPT !.pc = "kill", !.then = "thrown", !.asked = FALSE]

\* The plugin is unloaded: its disposer stops the child.
UnloadPlugin ==
    /\ Plugin("ready")
    /\ spawn' = [spawn EXCEPT !.pc = "kill", !.then = "stopped"]

\* killChild: SIGTERM, SIGKILL two seconds later, and the exit is awaited.
KillChild_unawaited ==
    /\ Plugin("kill")
    /\ spawn' = [spawn EXCEPT !.pc = spawn.then, !.signal = "SIGTERM"]

KillChild ==
    /\ Plugin("kill")
    /\ spawn' = IF proc[Child].pc = "exited"
                THEN [spawn EXCEPT !.pc = spawn.then]
                ELSE [spawn EXCEPT !.pc = "exiting", !.signal = "SIGTERM"]

Escalate ==
    /\ Plugin("exiting") /\ spawn.signal = "SIGTERM"
    /\ spawn' = [spawn EXCEPT !.signal = "SIGKILL"]

\* readproofd does not handle SIGTERM; what is spawned may be deaf to it.
Die ==
    /\ Running(Child)
    /\ spawn.signal \in {"SIGTERM", "SIGKILL"}
    /\ spawn.deaf => spawn.signal = "SIGKILL"
    /\ Exit(Child)
    /\ UNCHANGED spawn

Exited ==
    /\ Plugin("exiting") /\ proc[Child].pc = "exited"
    /\ spawn' = [spawn EXCEPT !.pc = spawn.then]

-----------------------------------------------------------------------------

StartupNext ==
    \/ \E p \in Procs :
          \/ Launch(p) \/ CreateRecord(p) \/ CheckMigration(p) \/ ApplyStatement(p)
          \/ CommitMigration(p) \/ LockedOut(p) \/ Listen(p) \/ Crash(p)
    \/ Spawn \/ Ask \/ Healthy \/ Unhealthy \/ Deadline \/ Lost \/ UnloadPlugin
    \/ KillChild \/ Escalate \/ Die \/ Exited

StartupSpec == StartupInit /\ [][StartupNext]_startupVars

\* The plugin's own steps, time, and signals; no step of a process.
StartupFairness ==
    /\ WF_startupVars(Unhealthy) /\ WF_startupVars(Deadline) /\ WF_startupVars(Lost)
    /\ WF_startupVars(KillChild) /\ WF_startupVars(Escalate)
    /\ WF_startupVars(Die) /\ WF_startupVars(Exited)

-----------------------------------------------------------------------------
(* Properties *)

StatementsOf(m) == {<<m, s>> : s \in 1 .. Migrations[m]}

\* Whatever processes migrate one database together, and wherever they crash,
\* it has the tables of exactly the migrations it records, these are the first
\* ones, and of whoever serves from it, all.
SchemaWhole ==
    /\ \A d \in Databases :
          /\ database[d].created = UNION {StatementsOf(m) : m \in database[d].recorded}
          /\ database[d].recorded = 1 .. Len(Migrations)
                \/ \E m \in DOMAIN Migrations : database[d].recorded = 1 .. m - 1
    /\ \A p \in Procs : At(p, "serve") => Database(p).recorded = DOMAIN Migrations

\* A spawn that failed, and a plugin that was unloaded, leave no child behind,
\* nor its listener or its transaction, whichever of the health check, the
\* deadline and the exit came first.
FailedSpawnLeavesNoChild ==
    spawn.pc \in {"thrown", "stopped"} =>
        /\ ~Running(Child)
        /\ Child \notin {listener[a] : a \in Addresses}
        /\ Child \notin {database[d].writer : d \in Databases}

\* The inductive invariant of SchemaWhole and FailedSpawnLeavesNoChild.
ProcRecords ==
    [pc : {"off", "open", "check", "apply", "bind", "serve", "exited"},
     database : Databases, address : Addresses, at : Nat, done : Nat, starts : Nat]

DatabaseRecords ==
    [created : SUBSET (Nat \X Nat), recorded : SUBSET Nat,
     writer : Procs \cup {Nobody}]

SpawnRecords ==
    [pc : {"none", "waiting", "ready", "kill", "exiting", "thrown", "stopped"},
     asked : BOOLEAN, expired : BOOLEAN, then : {"none", "thrown", "stopped"},
     deaf : BOOLEAN, signal : {"none", "SIGTERM", "SIGKILL"}]

StartupTypeOK ==
    /\ proc \in [Procs -> ProcRecords]
    /\ database \in [Databases -> DatabaseRecords]
    /\ listener \in [Addresses -> Procs \cup {Nobody, Foreign}]
    /\ spawn \in SpawnRecords

\* A database records the first migrations and has their tables.
Migrated(d) ==
    \E k \in 0 .. Len(Migrations) :
        /\ database[d].recorded = 1 .. k
        /\ database[d].created = UNION {StatementsOf(m) : m \in 1 .. k}

\* A process has passed only migrations that its database records, and listens
\* when it has passed them all.
Progress(p) ==
    Running(p) =>
        /\ proc[p].at \in 1 .. Len(Migrations) + 1
        /\ 1 .. proc[p].at - 1 \subseteq Database(p).recorded
        /\ At(p, "apply") => /\ proc[p].at \in DOMAIN Migrations
                             /\ proc[p].done \in 0 .. Migrations[proc[p].at]
        /\ proc[p].pc \in {"bind", "serve"} => proc[p].at = Len(Migrations) + 1

\* Who does not run holds nothing.
HoldsNothing(p) ==
    /\ \A a \in Addresses : listener[a] # p
    /\ \A d \in Databases : database[d].writer # p

\* The plugin knows when the child is gone, and the child does not come back.
ChildIsWatched ==
    /\ spawn.pc = "none" => At(Child, "off")
    /\ spawn.pc \in {"kill", "exiting"} => spawn.then \in {"thrown", "stopped"}
    /\ spawn.pc \in {"thrown", "stopped"} => At(Child, "exited")

StartupIInv ==
    /\ StartupTypeOK
    /\ \A d \in Databases : Migrated(d)
    /\ \A p \in Procs : Progress(p) /\ (~Running(p) => HoldsNothing(p))
    /\ ChildIsWatched

\* Loading and unloading the plugin end, though whoever listens at the endpoint
\* does not answer, and though the child is deaf to SIGTERM.
SpawnEnds ==
    /\ spawn.pc = "waiting" ~> spawn.pc \in {"ready", "thrown"}
    /\ spawn.pc = "kill" ~> spawn.pc \in {"thrown", "stopped"}
=============================================================================
