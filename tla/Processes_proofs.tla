-------------------------- MODULE Processes_proofs --------------------------
(***************************************************************************)
(* TLAPS proofs about Startup and Sources: whatever processes migrate a    *)
(* database together and wherever they crash, and whatever an origin does  *)
(* during a fetch, for any sets of processes, databases, addresses,        *)
(* migrations and versions, and any lengths and limits.                    *)
(***************************************************************************)
EXTENDS Sources, Startup, TLAPS

-----------------------------------------------------------------------------
(* Startup *)

LEMMA StartupTypes ==
    ASSUME StartupIInv
    PROVE  /\ StartupTypeOK /\ ChildIsWatched
           /\ \A d \in Databases : Migrated(d)
           /\ \A p \in Procs : Progress(p) /\ (~Running(p) => HoldsNothing(p))
           /\ Len(Migrations) \in Nat /\ DOMAIN Migrations = 1 .. Len(Migrations)
           /\ \A m \in DOMAIN Migrations : Migrations[m] \in Nat \ {0}
           /\ Child \in Procs /\ Child \notin Others /\ Nobody \notin Procs
           /\ Foreign \notin Procs
BY StartupConstants DEF StartupIInv, Procs

LEMMA StartupBegins == StartupInit => StartupIInv
<1> SUFFICES ASSUME StartupInit PROVE StartupIInv
    OBVIOUS
<1>1. PICK deaf \in BOOLEAN : spawn = [NoSpawn EXCEPT !.deaf = deaf]
    BY DEF StartupInit
<1>2. spawn = [pc |-> "none", asked |-> FALSE, expired |-> FALSE, then |-> "none",
               deaf |-> deaf, signal |-> "none"]
    BY <1>1 DEF NoSpawn
<1>3. /\ \A p \in Procs : \E d \in Databases, a \in Addresses : proc[p] = Off(d, a)
      /\ proc \in [Procs -> {Off(d, a) : d \in Databases, a \in Addresses}]
    BY DEF StartupInit
<1>4. \A d \in Databases, a \in Addresses :
         Off(d, a) \in ProcRecords
    BY DEF Off, ProcRecords
<1>5. StartupTypeOK
    <2>1. proc \in [Procs -> ProcRecords]
        BY <1>3, <1>4
    <2>2. database \in [Databases -> DatabaseRecords]
        BY DEF StartupInit, DatabaseRecords
    <2>3. listener \in [Addresses -> Procs \cup {Nobody, Foreign}]
        BY DEF StartupInit
    <2> QED
        BY <1>2, <2>1, <2>2, <2>3 DEF StartupTypeOK, SpawnRecords
<1>6. \A p \in Procs : At(p, "off") /\ ~Running(p)
    BY <1>3 DEF Off, At, Running
<1>7. \A d \in Databases : Migrated(d)
    <2>1. 1 .. 0 = {} /\ 0 \in 0 .. Len(Migrations)
        BY StartupConstants
    <2> QED
        BY <2>1 DEF Migrated, StartupInit
<1>8. \A p \in Procs : HoldsNothing(p)
    BY StartupConstants DEF HoldsNothing, StartupInit, Procs
<1> QED
    BY <1>2, <1>5, <1>6, <1>7, <1>8 DEF StartupIInv, ChildIsWatched, Progress, Procs

\* A step that moves one process on, and nothing else.
Record(p, pc, at, done, starts) ==
    [pc |-> pc, database |-> proc[p].database, address |-> proc[p].address,
     at |-> at, done |-> done, starts |-> starts]

LEMMA RecordSteps ==
    ASSUME StartupTypeOK, NEW p \in Procs
    PROVE  /\ \A pc : [proc EXCEPT ![p].pc = pc]
                        = [proc EXCEPT ![p] = Record(p, pc, proc[p].at, proc[p].done,
                                                     proc[p].starts)]
           /\ [proc EXCEPT ![p].at = @ + 1]
                 = [proc EXCEPT ![p] = Record(p, proc[p].pc, proc[p].at + 1, proc[p].done,
                                              proc[p].starts)]
           /\ [proc EXCEPT ![p].done = @ + 1]
                 = [proc EXCEPT ![p] = Record(p, proc[p].pc, proc[p].at, proc[p].done + 1,
                                              proc[p].starts)]
           /\ [proc EXCEPT ![p].pc = "apply", ![p].done = 0]
                 = [proc EXCEPT ![p] = Record(p, "apply", proc[p].at, 0, proc[p].starts)]
           /\ [proc EXCEPT ![p].pc = "check", ![p].at = @ + 1]
                 = [proc EXCEPT ![p] = Record(p, "check", proc[p].at + 1, proc[p].done,
                                              proc[p].starts)]
           /\ Started(p) = [proc EXCEPT ![p] = Record(p, "open", 1, 0, proc[p].starts + 1)]
<1> DEFINE r == proc[p]
<1>1. r \in ProcRecords /\ p \in DOMAIN proc
    BY DEF StartupTypeOK
<1>2. /\ \A pc : [r EXCEPT !.pc = pc] = Record(p, pc, r.at, r.done, r.starts)
      /\ [r EXCEPT !.at = @ + 1] = Record(p, r.pc, r.at + 1, r.done, r.starts)
      /\ [r EXCEPT !.done = @ + 1] = Record(p, r.pc, r.at, r.done + 1, r.starts)
    BY <1>1 DEF Record, ProcRecords
<1>3. /\ [r EXCEPT !.pc = "apply", !.done = 0] = Record(p, "apply", r.at, 0, r.starts)
      /\ [r EXCEPT !.pc = "check", !.at = @ + 1]
            = Record(p, "check", r.at + 1, r.done, r.starts)
      /\ [r EXCEPT !.pc = "open", !.at = 1, !.done = 0, !.starts = @ + 1]
            = Record(p, "open", 1, 0, r.starts + 1)
    <2>1. /\ [r EXCEPT !.pc = "apply", !.done = 0] = [[r EXCEPT !.pc = "apply"] EXCEPT !.done = 0]
          /\ [r EXCEPT !.pc = "check", !.at = @ + 1]
                = [[r EXCEPT !.pc = "check"] EXCEPT !.at = r.at + 1]
        BY <1>1 DEF ProcRecords
    <2>2. [r EXCEPT !.pc = "open", !.at = 1, !.done = 0, !.starts = @ + 1]
            = [[[[r EXCEPT !.pc = "open"] EXCEPT !.at = 1] EXCEPT !.done = 0]
                  EXCEPT !.starts = r.starts + 1]
        BY <1>1 DEF ProcRecords
    <2>3. /\ [Record(p, "apply", r.at, r.done, r.starts) EXCEPT !.done = 0]
                = Record(p, "apply", r.at, 0, r.starts)
          /\ [Record(p, "check", r.at, r.done, r.starts) EXCEPT !.at = r.at + 1]
                = Record(p, "check", r.at + 1, r.done, r.starts)
          /\ [Record(p, "open", r.at, r.done, r.starts) EXCEPT !.at = 1]
                = Record(p, "open", 1, r.done, r.starts)
          /\ [Record(p, "open", 1, r.done, r.starts) EXCEPT !.done = 0]
                = Record(p, "open", 1, 0, r.starts)
          /\ [Record(p, "open", 1, 0, r.starts) EXCEPT !.starts = r.starts + 1]
                = Record(p, "open", 1, 0, r.starts + 1)
        BY DEF Record
    <2> QED
        BY <1>2, <2>1, <2>2, <2>3
<1>4. /\ \A pc : [proc EXCEPT ![p].pc = pc]
                   = [proc EXCEPT ![p] = [r EXCEPT !.pc = pc]]
      /\ [proc EXCEPT ![p].at = @ + 1] = [proc EXCEPT ![p] = [r EXCEPT !.at = @ + 1]]
      /\ [proc EXCEPT ![p].done = @ + 1] = [proc EXCEPT ![p] = [r EXCEPT !.done = @ + 1]]
    BY <1>1 DEF r
<1>5. [proc EXCEPT ![p].pc = "apply", ![p].done = 0]
        = [proc EXCEPT ![p] = [r EXCEPT !.pc = "apply", !.done = 0]]
    BY <1>1 DEF r
<1>6. [proc EXCEPT ![p].pc = "check", ![p].at = @ + 1]
        = [proc EXCEPT ![p] = [r EXCEPT !.pc = "check", !.at = @ + 1]]
    BY <1>1 DEF r
<1>7. Started(p)
        = [proc EXCEPT ![p] = [r EXCEPT !.pc = "open", !.at = 1, !.done = 0, !.starts = @ + 1]]
    BY <1>1 DEF r, Started
<1> QED
    BY <1>2, <1>3, <1>4, <1>5, <1>6, <1>7 DEF r

LEMMA MovesOn ==
    ASSUME StartupIInv, NEW p \in Procs,
           NEW pc \in {"open", "check", "apply", "bind"},
           NEW at \in 1 .. Len(Migrations) + 1, NEW done \in Nat, NEW starts \in Nat,
           proc' = [proc EXCEPT ![p] = Record(p, pc, at, done, starts)],
           p # Child \/ Running(p),
           1 .. at - 1 \subseteq Database(p).recorded,
           pc = "apply" => at \in DOMAIN Migrations /\ done \in 0 .. Migrations[at],
           pc = "bind" => at = Len(Migrations) + 1,
           listener' = listener, spawn' = spawn, database' = database
    PROVE  StartupIInv'
<1> USE StartupTypes
<1>1. /\ StartupTypeOK'
      /\ proc'[p] = Record(p, pc, at, done, starts)
      /\ \A q \in Procs \ {p} : proc'[q] = proc[q]
    BY DEF StartupTypeOK, ProcRecords, Record
<1>2. \A d \in Databases : Migrated(d)'
    BY DEF Migrated
<1>3. ASSUME NEW q \in Procs PROVE (Progress(q) /\ (~Running(q) => HoldsNothing(q)))'
    <2>1. CASE q = p
        BY <1>1, <2>1 DEF Progress, Running, Record, Database, At,
               StartupTypeOK, ProcRecords
    <2>2. CASE q # p
        BY <1>1, <2>2 DEF Progress, Running, Database, At, HoldsNothing
    <2> QED
        BY <2>1, <2>2
<1>4. ChildIsWatched'
    BY <1>1 DEF ChildIsWatched, At, Running, Record
<1> QED
    BY <1>1, <1>2, <1>3, <1>4 DEF StartupIInv

LEMMA Exits ==
    ASSUME StartupIInv, NEW p \in Procs, Running(p), Exit(p), spawn' = spawn
    PROVE  StartupIInv'
<1> USE StartupTypes
<1>1. /\ proc'[p].pc = "exited" /\ \A q \in Procs \ {p} : proc'[q] = proc[q]
      /\ \A q \in Procs : proc'[q].database = proc[q].database
    BY DEF Exit, StartupTypeOK, ProcRecords
<1>2. /\ \A d \in Databases : /\ database'[d].recorded = database[d].recorded
                              /\ database'[d].created = database[d].created
                              /\ database'[d].writer = IF database[d].writer = p THEN Nobody
                                                       ELSE database[d].writer
      /\ \A a \in Addresses : listener'[a] = IF listener[a] = p THEN Nobody ELSE listener[a]
    BY DEF Exit, StartupTypeOK, DatabaseRecords
<1>3. StartupTypeOK'
    <2>1. proc' \in [Procs -> ProcRecords]
        <3>1. \A r \in ProcRecords : [r EXCEPT !.pc = "exited"] \in ProcRecords
            BY DEF ProcRecords
        <3> QED
            BY <3>1 DEF Exit, StartupTypeOK
    <2>2. database' \in [Databases -> DatabaseRecords]
        <3>1. \A d \in Databases : [database[d] EXCEPT !.writer = Nobody] \in DatabaseRecords
            BY DEF StartupTypeOK, DatabaseRecords
        <3> QED
            BY <3>1 DEF Exit, StartupTypeOK
    <2>3. listener' \in [Addresses -> Procs \cup {Nobody, Foreign}]
        BY DEF Exit, StartupTypeOK
    <2> QED
        BY <2>1, <2>2, <2>3 DEF StartupTypeOK
<1>4. \A d \in Databases : Migrated(d)'
    BY <1>2 DEF Migrated
<1>5. ASSUME NEW q \in Procs PROVE (Progress(q) /\ (~Running(q) => HoldsNothing(q)))'
    <2>1. CASE q = p
        BY <1>1, <1>2, <2>1 DEF Progress, Running, HoldsNothing
    <2>2. CASE q # p
        <3>1. proc[q].database \in Databases
            BY DEF StartupTypeOK, ProcRecords
        <3> QED
            BY <1>1, <1>2, <2>2, <3>1 DEF Progress, Running, HoldsNothing, Database, At
    <2> QED
        BY <2>1, <2>2
<1>6. ChildIsWatched'
    BY <1>1 DEF ChildIsWatched, At, Running
<1> QED
    BY <1>3, <1>4, <1>5, <1>6 DEF StartupIInv

\* A process writes to the database it has opened, and goes on to p's next pc.
LEMMA Writes ==
    ASSUME StartupIInv, NEW p \in Procs, Running(p),
           NEW pc \in {"check", "apply"},
           NEW at \in 1 .. Len(Migrations) + 1, NEW done \in Nat,
           NEW k \in 0 .. Len(Migrations), NEW writer \in {p, Nobody},
           proc' = [proc EXCEPT ![p] = Record(p, pc, at, done, proc[p].starts)],
           database' = [database EXCEPT
                           ![proc[p].database] =
                              [created  |-> UNION {StatementsOf(m) : m \in 1 .. k},
                               recorded |-> 1 .. k, writer |-> writer]],
           Database(p).recorded \subseteq 1 .. k, 1 .. at - 1 \subseteq 1 .. k,
           pc = "apply" => at \in DOMAIN Migrations /\ done \in 0 .. Migrations[at],
           listener' = listener, spawn' = spawn
    PROVE  StartupIInv'
<1> USE StartupTypes
<1> DEFINE written == [created  |-> UNION {StatementsOf(m) : m \in 1 .. k},
                       recorded |-> 1 .. k, writer |-> writer]
<1>1. /\ proc[p] \in ProcRecords /\ proc[p].database \in Databases
      /\ proc'[p] = Record(p, pc, at, done, proc[p].starts)
      /\ Record(p, pc, at, done, proc[p].starts) \in ProcRecords
      /\ \A q \in Procs \ {p} : proc'[q] = proc[q]
    BY DEF StartupTypeOK, ProcRecords, Record
<1>2. written \in DatabaseRecords
    <2>1. \A m \in 1 .. k : StatementsOf(m) \in SUBSET (Nat \X Nat)
        BY DEF StatementsOf
    <2>2. UNION {StatementsOf(m) : m \in 1 .. k} \in SUBSET (Nat \X Nat)
        BY <2>1
    <2> QED
        BY <2>2 DEF DatabaseRecords
<1>3. /\ database'[proc[p].database] = written
      /\ \A d \in Databases \ {proc[p].database} : database'[d] = database[d]
    BY <1>1 DEF StartupTypeOK
<1>4. StartupTypeOK'
    <2>1. proc' \in [Procs -> ProcRecords]
        BY <1>1 DEF StartupTypeOK
    <2>2. database' \in [Databases -> DatabaseRecords]
        BY <1>1, <1>2 DEF StartupTypeOK
    <2> QED
        BY <2>1, <2>2 DEF StartupTypeOK
<1>5. ASSUME NEW d \in Databases PROVE Migrated(d)'
    <2>1. CASE d = proc[p].database
        BY <1>3, <2>1 DEF Migrated
    <2>2. CASE d # proc[p].database
        BY <1>3, <2>2 DEF Migrated
    <2> QED
        BY <2>1, <2>2
<1>6. ASSUME NEW q \in Procs PROVE (Progress(q) /\ (~Running(q) => HoldsNothing(q)))'
    <2>1. CASE q = p
        BY <1>1, <1>3, <2>1 DEF Progress, Running, Record, Database, At
    <2>2. CASE q # p
        <3>1. proc[q].database \in Databases /\ proc'[q] = proc[q]
            BY <1>1, <2>2 DEF StartupTypeOK, ProcRecords
        <3>2. Database(q).recorded \subseteq Database(q)'.recorded
            BY <1>3, <3>1 DEF Database
        <3>3. Progress(q)'
            BY <3>1, <3>2 DEF Progress, Running, At
        <3>4. HoldsNothing(q) => HoldsNothing(q)'
            BY <1>3, <2>2 DEF HoldsNothing
        <3> QED
            BY <3>1, <3>3, <3>4 DEF Running
    <2> QED
        BY <2>1, <2>2
<1>7. ChildIsWatched'
    BY <1>1 DEF ChildIsWatched, At, Running, Record
<1> QED
    BY <1>4, <1>5, <1>6, <1>7 DEF StartupIInv

LEMMA ProcessIInv ==
    ASSUME StartupIInv, NEW p \in Procs,
           \/ Launch(p) \/ CreateRecord(p) \/ CheckMigration(p) \/ ApplyStatement(p)
           \/ CommitMigration(p) \/ LockedOut(p) \/ Listen(p) \/ Crash(p)
    PROVE  StartupIInv'
<1> USE StartupTypes
<1> DEFINE q == proc[p]
<1>0. q \in ProcRecords /\ q.database \in Databases
    BY DEF StartupTypeOK, ProcRecords
<1>1. CASE Launch(p)
    <2>1. proc' = [proc EXCEPT ![p] = Record(p, "open", 1, 0, q.starts + 1)]
        BY <1>1, RecordSteps DEF Launch
    <2>2. q.starts + 1 \in Nat /\ p # Child
        BY <1>0, <1>1 DEF ProcRecords, Launch
    <2>3. 1 \in 1 .. Len(Migrations) + 1 /\ 1 .. 1 - 1 \subseteq Database(p).recorded
        OBVIOUS
    <2> QED
        BY <1>1, <2>1, <2>2, <2>3, MovesOn DEF Launch
<1>2. CASE CreateRecord(p)
    <2>1. proc' = [proc EXCEPT ![p] = Record(p, "check", q.at, q.done, q.starts)]
        BY <1>2, RecordSteps DEF CreateRecord, Goes
    <2>2. Running(p)
        BY <1>2 DEF CreateRecord, At, Running
    <2> QED
        BY <1>0, <1>2, <2>1, <2>2, MovesOn DEF CreateRecord, Progress, ProcRecords
<1>3. CASE CheckMigration(p)
    <2>1. Running(p) /\ listener' = listener /\ spawn' = spawn /\ database' = database
        BY <1>3 DEF CheckMigration, At, Running
    <2>5. /\ q.at \in 1 .. Len(Migrations) + 1 /\ q.done \in Nat /\ q.starts \in Nat
          /\ 1 .. q.at - 1 \subseteq Database(p).recorded
        BY <1>0, <2>1 DEF Progress, ProcRecords
    <2>2. CASE q.at = Len(Migrations) + 1
        <3>1. proc' = [proc EXCEPT ![p].pc = "bind"]
            BY <1>3, <2>2, <2>5 DEF CheckMigration, Goes
        <3>2. proc' = [proc EXCEPT ![p] = Record(p, "bind", q.at, q.done, q.starts)]
            BY <3>1, RecordSteps
        <3> QED
            BY <2>1, <2>2, <2>5, <3>2, MovesOn
    <2>3. CASE q.at <= Len(Migrations) /\ q.at \in Database(p).recorded
        <3>1. proc' = [proc EXCEPT ![p].at = @ + 1] /\ q.pc = "check"
            BY <1>3, <2>3, <2>5 DEF CheckMigration, At
        <3>2. proc' = [proc EXCEPT ![p] = Record(p, "check", q.at + 1, q.done, q.starts)]
            BY <3>1, RecordSteps
        <3>3. /\ 1 .. (q.at + 1) - 1 \subseteq Database(p).recorded
              /\ q.at + 1 \in 1 .. Len(Migrations) + 1
            BY <2>3, <2>5
        <3> QED
            BY <2>1, <2>5, <3>2, <3>3, MovesOn
    <2>4. CASE q.at <= Len(Migrations) /\ q.at \notin Database(p).recorded
        <3>1. proc' = [proc EXCEPT ![p].pc = "apply", ![p].done = 0]
            BY <1>3, <2>4, <2>5 DEF CheckMigration
        <3>2. proc' = [proc EXCEPT ![p] = Record(p, "apply", q.at, 0, q.starts)]
            BY <3>1, RecordSteps
        <3>3. q.at \in DOMAIN Migrations /\ 0 \in 0 .. Migrations[q.at] /\ 0 \in Nat
            BY <2>4, <2>5
        <3> QED
            BY <2>1, <2>5, <3>2, <3>3, MovesOn
    <2> QED
        BY <2>2, <2>3, <2>4, <2>5
<1>4. CASE ApplyStatement(p)
    <2>1. Running(p) /\ q.at \in DOMAIN Migrations /\ q.done \in 0 .. Migrations[q.at]
        BY <1>4 DEF ApplyStatement, At, Running, Progress
    <2>2. CASE <<q.at, q.done + 1>> \in Database(p).created
        BY <1>4, <2>1, <2>2, Exits DEF ApplyStatement
    <2>3. CASE <<q.at, q.done + 1>> \notin Database(p).created
        <3>1. proc' = [proc EXCEPT ![p] = Record(p, "apply", q.at, q.done + 1, q.starts)]
            BY <1>4, <2>3, RecordSteps DEF ApplyStatement, At
        <3>2. PICK k \in 0 .. Len(Migrations) :
                 /\ Database(p).recorded = 1 .. k
                 /\ Database(p).created = UNION {StatementsOf(m) : m \in 1 .. k}
            BY <1>0 DEF Migrated, Database
        <3>3. database' = [database EXCEPT
                              ![q.database] =
                                 [created  |-> UNION {StatementsOf(m) : m \in 1 .. k},
                                  recorded |-> 1 .. k, writer |-> p]]
            <4>1. database' = [database EXCEPT ![q.database].writer = p]
                BY <1>4, <2>3 DEF ApplyStatement
            <4>2. Database(p) \in DatabaseRecords /\ q.database \in DOMAIN database
                BY <1>0 DEF StartupTypeOK, Database
            <4>3. [Database(p) EXCEPT !.writer = p]
                    = [created |-> Database(p).created, recorded |-> Database(p).recorded,
                       writer |-> p]
                BY <4>2 DEF DatabaseRecords
            <4>4. database' = [database EXCEPT ![q.database] = [Database(p) EXCEPT !.writer = p]]
                BY <4>1, <4>2 DEF Database
            <4> QED
                BY <3>2, <4>3, <4>4
        <3>4. q.at \in 1 .. Len(Migrations) + 1 /\ q.done + 1 \in 0 .. Migrations[q.at]
              /\ q.done + 1 \in Nat
            BY <1>0, <1>4, <2>1 DEF ApplyStatement, ProcRecords
        <3>5. 1 .. q.at - 1 \subseteq 1 .. k
            BY <2>1, <3>2 DEF Progress
        <3> QED
            BY <1>4, <2>1, <2>3, <3>1, <3>2, <3>3, <3>4, <3>5, Writes DEF ApplyStatement
    <2> QED
        BY <2>2, <2>3
<1>5. CASE CommitMigration(p)
    <2>1. Running(p) /\ q.at \in DOMAIN Migrations
        BY <1>5 DEF CommitMigration, At, Running, Progress
    <2>2. PICK k \in 0 .. Len(Migrations) :
             /\ Database(p).recorded = 1 .. k
             /\ Database(p).created = UNION {StatementsOf(m) : m \in 1 .. k}
        BY <1>0 DEF Migrated, Database
    <2>3. 1 .. q.at - 1 \subseteq 1 .. k /\ q.at \in 1 .. Len(Migrations)
        BY <2>1, <2>2 DEF Progress
    <2> DEFINE n == IF k < q.at THEN q.at ELSE k
    <2>4. n \in 0 .. Len(Migrations) /\ 1 .. n = (1 .. k) \cup {q.at}
        BY <2>3
    <2> DEFINE tables(j) == UNION {StatementsOf(m) : m \in 1 .. j}
    <2>5. tables(n) = tables(k) \cup StatementsOf(q.at)
        <3> HIDE DEF n
        <3>1. ASSUME NEW x
              PROVE  x \in tables(n)
                       <=> \E m \in (1 .. k) \cup {q.at} : x \in StatementsOf(m)
            BY <2>4, Zenon
        <3>2. ASSUME NEW x
              PROVE  (\E m \in (1 .. k) \cup {q.at} : x \in StatementsOf(m))
                       <=> (\E m \in 1 .. k : x \in StatementsOf(m)) \/ x \in StatementsOf(q.at)
            OBVIOUS
        <3>3. ASSUME NEW x
              PROVE  x \in tables(k) <=> \E m \in 1 .. k : x \in StatementsOf(m)
            BY Zenon
        <3> HIDE DEF tables
        <3> QED
            BY <3>1, <3>2, <3>3
    <2>6. database' = [database EXCEPT
                          ![q.database] =
                             [created  |-> UNION {StatementsOf(m) : m \in 1 .. n},
                              recorded |-> 1 .. n, writer |-> Nobody]]
        <3> HIDE DEF n
        <3>1. database' = [database EXCEPT
                              ![q.database] =
                                 [created  |-> Database(p).created \cup StatementsOf(q.at),
                                  recorded |-> Database(p).recorded \cup {q.at},
                                  writer   |-> Nobody]]
            BY <1>5 DEF CommitMigration, StatementsOf, Database
        <3>2. Database(p).recorded \cup {q.at} = 1 .. n
            BY <2>2, <2>4
        <3>3. Database(p).created \cup StatementsOf(q.at) = tables(n)
            <4>1. Database(p).created = tables(k)
                BY <2>2
            <4> HIDE DEF tables
            <4> QED
                BY <2>5, <4>1
        <3> QED
            BY <3>1, <3>2, <3>3, Zenon
    <2>7. proc' = [proc EXCEPT ![p] = Record(p, "check", q.at + 1, q.done, q.starts)]
        BY <1>5, RecordSteps DEF CommitMigration
    <2>8. /\ q.at + 1 \in 1 .. Len(Migrations) + 1 /\ q.done \in Nat
          /\ 1 .. k \subseteq 1 .. n /\ 1 .. (q.at + 1) - 1 \subseteq 1 .. n
        BY <1>0, <2>3 DEF ProcRecords
    <2> HIDE DEF n
    <2> QED
        BY <1>5, <2>1, <2>2, <2>4, <2>6, <2>7, <2>8, Writes DEF CommitMigration
<1>6. CASE LockedOut(p)
    BY <1>6, Exits DEF LockedOut, Running
<1>7. CASE Crash(p)
    BY <1>7, Exits DEF Crash
<1>8. CASE Listen(p)
    <2>1. Running(p) /\ q.address \in Addresses
        BY <1>0, <1>8 DEF Listen, At, Running, ProcRecords
    <2>2. CASE listener[q.address] # Nobody
        BY <1>8, <2>1, <2>2, Exits DEF Listen
    <2>3. CASE listener[q.address] = Nobody
        <3>1. /\ proc' = [proc EXCEPT ![p].pc = "serve"] /\ database' = database
              /\ listener' = [listener EXCEPT ![q.address] = p] /\ spawn' = spawn
            BY <1>8, <2>3 DEF Listen, Goes
        <3>2. /\ [q EXCEPT !.pc = "serve"] \in ProcRecords
              /\ proc'[p] = [q EXCEPT !.pc = "serve"]
              /\ \A x \in Procs \ {p} : proc'[x] = proc[x]
            BY <1>0, <3>1 DEF StartupTypeOK, ProcRecords
        <3>3. StartupTypeOK'
            BY <1>0, <2>1, <3>1, <3>2 DEF StartupTypeOK
        <3>4. \A d \in Databases : Migrated(d)'
            BY <3>1 DEF Migrated
        <3>5. ASSUME NEW x \in Procs
              PROVE  (Progress(x) /\ (~Running(x) => HoldsNothing(x)))'
            <4>1. CASE x = p
                BY <1>0, <1>8, <3>1, <3>2, <4>1
                DEF Listen, Progress, Running, Database, At, ProcRecords
            <4>2. CASE x # p
                BY <2>1, <3>1, <3>2, <4>2
                DEF Progress, Running, Database, At, HoldsNothing, StartupTypeOK
            <4> QED
                BY <4>1, <4>2
        <3>6. ChildIsWatched'
            BY <1>0, <2>1, <3>1, <3>2 DEF ChildIsWatched, At, Running, ProcRecords
        <3> QED
            BY <3>3, <3>4, <3>5, <3>6 DEF StartupIInv
    <2> QED
        BY <2>2, <2>3
<1> QED
    BY <1>1, <1>2, <1>3, <1>4, <1>5, <1>6, <1>7, <1>8

\* A step of the plugin, which only looks at the others.
LEMMA PluginIInv ==
    ASSUME StartupIInv, UNCHANGED <<proc, database, listener>>,
           spawn' \in SpawnRecords, ChildIsWatched'
    PROVE  StartupIInv'
<1> USE StartupTypes
<1>1. StartupTypeOK'
    BY DEF StartupTypeOK
<1>2. \A d \in Databases : Migrated(d)'
    BY DEF Migrated
<1>3. \A p \in Procs : (Progress(p) /\ (~Running(p) => HoldsNothing(p)))'
    BY DEF Progress, Running, At, Database, HoldsNothing
<1> QED
    BY <1>1, <1>2, <1>3 DEF StartupIInv

LEMMA SpawnIInv ==
    ASSUME StartupIInv, Spawn
    PROVE  StartupIInv'
<1> USE StartupTypes
<1>1. /\ spawn.pc = "none" /\ spawn' = [spawn EXCEPT !.pc = "waiting"]
      /\ database' = database /\ listener' = listener
    BY DEF Spawn
<1>2. spawn' \in SpawnRecords /\ spawn'.pc = "waiting"
    BY <1>1 DEF StartupTypeOK, SpawnRecords
<1>3. proc[Child] \in ProcRecords /\ ~Running(Child)
    BY <1>1 DEF StartupTypeOK, ChildIsWatched, At, Running
<1>4. /\ proc' \in [Procs -> ProcRecords]
      /\ \A p \in Procs \ {Child} : proc'[p] = proc[p]
      /\ \/ proc'[Child].pc = "open" /\ proc'[Child].at = 1
         \/ proc'[Child].pc = "exited"
    <2>1. CASE proc' = Started(Child)
        <3>1. /\ proc' = [proc EXCEPT ![Child] = Record(Child, "open", 1, 0,
                                                      proc[Child].starts + 1)]
            BY <2>1, RecordSteps
        <3>2. Record(Child, "open", 1, 0, proc[Child].starts + 1) \in ProcRecords
            BY <1>3 DEF Record, ProcRecords
        <3> QED
            BY <1>3, <3>1, <3>2 DEF StartupTypeOK, Record
    <2>2. CASE proc' = [proc EXCEPT ![Child].pc = "exited"]
        <3>1. [proc[Child] EXCEPT !.pc = "exited"] \in ProcRecords
            BY <1>3 DEF ProcRecords
        <3> QED
            BY <1>3, <2>2, <3>1 DEF StartupTypeOK, ProcRecords
    <2> QED
        BY <2>1, <2>2 DEF Spawn
<1>5. StartupTypeOK'
    BY <1>1, <1>2, <1>4 DEF StartupTypeOK
<1>6. \A d \in Databases : Migrated(d)'
    BY <1>1 DEF Migrated
<1>7. ASSUME NEW p \in Procs PROVE (Progress(p) /\ (~Running(p) => HoldsNothing(p)))'
    <2>1. CASE p = Child
        BY <1>1, <1>3, <1>4, <2>1 DEF Progress, Running, At, HoldsNothing
    <2>2. CASE p # Child
        BY <1>1, <1>4, <2>2 DEF Progress, Running, At, Database, HoldsNothing
    <2> QED
        BY <2>1, <2>2
<1>8. ChildIsWatched'
    BY <1>2 DEF ChildIsWatched
<1> QED
    BY <1>5, <1>6, <1>7, <1>8 DEF StartupIInv

LEMMA StartupStep ==
    ASSUME StartupIInv, [StartupNext]_startupVars
    PROVE  StartupIInv'
<1> USE StartupTypes
<1>0. spawn \in SpawnRecords
    BY DEF StartupTypeOK
<1>1. CASE UNCHANGED startupVars
    BY <1>0, <1>1, PluginIInv DEF startupVars, ChildIsWatched, At
<1>2. ASSUME NEW p \in Procs,
             \/ Launch(p) \/ CreateRecord(p) \/ CheckMigration(p) \/ ApplyStatement(p)
             \/ CommitMigration(p) \/ LockedOut(p) \/ Listen(p) \/ Crash(p)
      PROVE  StartupIInv'
    BY <1>2, ProcessIInv
<1>3. CASE Spawn
    BY <1>3, SpawnIInv
<1>4. CASE Ask \/ Healthy \/ Unhealthy \/ Deadline
    <2>1. UNCHANGED <<proc, database, listener>> /\ spawn.pc = "waiting"
        BY <1>4 DEF Ask, Healthy, Unhealthy, Deadline, Plugin
    <2>2. spawn' \in SpawnRecords /\ spawn'.pc \in {"waiting", "ready"}
        BY <1>0, <1>4, <2>1 DEF Ask, Healthy, Unhealthy, Deadline, SpawnRecords
    <2> QED
        BY <2>1, <2>2, PluginIInv DEF ChildIsWatched
<1>5. CASE Lost \/ UnloadPlugin
    <2>1. UNCHANGED <<proc, database, listener>>
        BY <1>5 DEF Lost, UnloadPlugin, Plugin
    <2>2. /\ spawn' \in SpawnRecords /\ spawn'.pc = "kill"
          /\ spawn'.then \in {"thrown", "stopped"}
        BY <1>0, <1>5 DEF Lost, UnloadPlugin, SpawnRecords
    <2> QED
        BY <2>1, <2>2, PluginIInv DEF ChildIsWatched
<1>6. CASE KillChild
    <2>1. /\ UNCHANGED <<proc, database, listener>> /\ spawn.pc = "kill"
          /\ spawn.then \in {"thrown", "stopped"}
        BY <1>6 DEF KillChild, Plugin, ChildIsWatched
    <2>2. /\ spawn' \in SpawnRecords /\ spawn'.then = spawn.then
          /\ spawn'.pc = "exiting" \/ (spawn'.pc = spawn.then /\ At(Child, "exited"))
        BY <1>0, <1>6, <2>1 DEF KillChild, SpawnRecords, At
    <2> QED
        BY <2>1, <2>2, PluginIInv DEF ChildIsWatched, At
<1>7. CASE Escalate
    <2>1. UNCHANGED <<proc, database, listener>> /\ spawn.pc = "exiting"
        BY <1>7 DEF Escalate, Plugin
    <2>2. spawn' \in SpawnRecords /\ spawn'.pc = "exiting" /\ spawn'.then = spawn.then
        BY <1>0, <1>7, <2>1 DEF Escalate, SpawnRecords
    <2> QED
        BY <2>1, <2>2, PluginIInv DEF ChildIsWatched
<1>8. CASE Die
    BY <1>8, Exits DEF Die
<1>9. CASE Exited
    <2>1. /\ UNCHANGED <<proc, database, listener>>
          /\ spawn.then \in {"thrown", "stopped"} /\ At(Child, "exited")
        BY <1>9 DEF Exited, Plugin, ChildIsWatched, At
    <2>2. spawn' \in SpawnRecords /\ spawn'.pc \in {"thrown", "stopped"}
        BY <1>0, <1>9, <2>1 DEF Exited, SpawnRecords
    <2> QED
        BY <2>1, <2>2, PluginIInv DEF ChildIsWatched, At
<1> QED
    BY <1>1, <1>2, <1>3, <1>4, <1>5, <1>6, <1>7, <1>8, <1>9 DEF StartupNext

\* What the databases record and what the processes have passed is an invariant
\* of any number of processes that start, crash and start again.
THEOREM StartupInvariance == StartupSpec => []StartupIInv
<1>1. StartupInit => StartupIInv
    BY StartupBegins
<1>2. StartupIInv /\ [StartupNext]_startupVars => StartupIInv'
    BY StartupStep
<1> QED
    BY <1>1, <1>2, PTL DEF StartupSpec

\* A database has the tables of exactly the migrations it records, these are the
\* first ones, and of whoever serves from it, all (sqlite.go, postgres.go).
THEOREM SchemasWhole == StartupSpec => []SchemaWhole
<1>1. StartupIInv => SchemaWhole
    <2> SUFFICES ASSUME StartupIInv PROVE SchemaWhole
        OBVIOUS
    <2> USE StartupTypes
    <2>1. ASSUME NEW d \in Databases
          PROVE  /\ database[d].created = UNION {StatementsOf(m) : m \in database[d].recorded}
                 /\ database[d].recorded = 1 .. Len(Migrations)
                       \/ \E m \in DOMAIN Migrations : database[d].recorded = 1 .. m - 1
        <3>1. PICK k \in 0 .. Len(Migrations) :
                 /\ database[d].recorded = 1 .. k
                 /\ database[d].created = UNION {StatementsOf(m) : m \in 1 .. k}
            BY DEF Migrated
        <3> HIDE StartupTypes
        <3>2. k = Len(Migrations) \/ (k + 1 \in 1 .. Len(Migrations) /\ k = (k + 1) - 1)
            BY StartupConstants
        <3> QED
            BY <3>1, <3>2, StartupTypes
    <2>2. ASSUME NEW p \in Procs, At(p, "serve")
          PROVE  Database(p).recorded = DOMAIN Migrations
        <3>1. proc[p].database \in Databases
            BY DEF StartupTypeOK, ProcRecords
        <3>2. PICK k \in 0 .. Len(Migrations) : Database(p).recorded = 1 .. k
            BY <3>1 DEF Migrated, Database
        <3>3. 1 .. Len(Migrations) \subseteq 1 .. k
            BY <2>2, <3>2 DEF Progress, Running, At
        <3>4. 1 .. k = 1 .. Len(Migrations)
            <4>1. Len(Migrations) \in Nat /\ (Len(Migrations) = 0 \/ Len(Migrations) \in 1 .. k)
                BY <3>3
            <4>2. k \in 0 .. Len(Migrations)
                OBVIOUS
            <4> HIDE StartupTypes
            <4>3. k = Len(Migrations)
                BY <4>1, <4>2
            <4> QED
                BY <4>3
        <3> QED
            BY <3>2, <3>4
    <2> QED
        BY <2>1, <2>2 DEF SchemaWhole
<1> QED
    BY <1>1, StartupInvariance, PTL

\* A spawn that failed, and a plugin that was unloaded, leave no child behind,
\* nor its listener or its transaction (spawn.ts).
THEOREM NoChildLeft == StartupSpec => []FailedSpawnLeavesNoChild
<1>1. StartupIInv => FailedSpawnLeavesNoChild
    BY StartupTypes DEF FailedSpawnLeavesNoChild, ChildIsWatched, At, Running, HoldsNothing
<1> QED
    BY <1>1, StartupInvariance, PTL

-----------------------------------------------------------------------------
(* Sources *)

LEMMA DocumentIs ==
    ASSUME NEW v \in Versions
    PROVE  /\ Document(v) \in Seq(Bytes) /\ Len(Document(v)) = Length[v]
           /\ \A i \in 1 .. Length[v] : Document(v)[i] = <<v, i>>
           /\ Document(v) # Nothing /\ v # Nothing
<1>1. Length[v] \in Nat /\ v # Nothing
    BY DocumentsHaveLengths
<1> QED
    BY <1>1, NothingIsNoDocument DEF Document, Bytes

LEMMA NoneRead == ASSUME NEW t \in Seq(Bytes) PROVE IsBeginning(<<>>, t)
BY DEF IsBeginning

LEMMA OneMoreRead ==
    ASSUME NEW s \in Seq(Bytes), NEW t \in Seq(Bytes), IsBeginning(s, t), Len(s) < Len(t)
    PROVE  /\ Append(s, t[Len(s) + 1]) \in Seq(Bytes)
           /\ IsBeginning(Append(s, t[Len(s) + 1]), t)
BY DEF IsBeginning

LEMMA AllRead ==
    ASSUME NEW s \in Seq(Bytes), NEW t \in Seq(Bytes), IsBeginning(s, t), Len(s) = Len(t)
    PROVE  s = t
BY DEF IsBeginning

LEMMA FetchBegins == FetchInit => FetchIInv
<1> SUFFICES ASSUME FetchInit PROVE FetchIInv
    OBVIOUS
<1>1. PICK kind \in {"filesystem", "http", "github"}, v \in Versions :
         /\ fetch = Idle(kind)
         /\ origin = [version |-> v, file |-> Document(v), writing |-> Nothing,
                      seen |-> {v}, changes |-> 0]
    BY DEF FetchInit
<1>2. /\ fetch \in FetchRecords /\ fetch.pc = "idle" /\ fetch.body = <<>>
      /\ fetch.held = Nothing
    BY <1>1 DEF Idle, FetchRecords
<1>3. origin \in OriginRecords /\ FileIsDocument
    BY <1>1, DocumentIs DEF OriginRecords, FileIsDocument
<1> QED
    BY <1>2, <1>3 DEF FetchIInv, FetchTypeOK, BodyIsBeginning, FetchedIsWhole

LEMMA FetchTypes ==
    ASSUME FetchIInv
    PROVE  /\ fetch \in FetchRecords /\ origin \in OriginRecords
           /\ fetch.pc \in {"idle", "waiting", "reading", "done", "failed"}
           /\ fetch.kind \in {"filesystem", "http", "github"} /\ fetch.body \in Seq(Bytes)
           /\ fetch.held = Nothing \/ fetch.held \in Seq(Bytes)
           /\ fetch.response = Nothing \/ fetch.response \in Responses
           /\ fetch.rewritten \in BOOLEAN /\ fetch.via \in Nat
           /\ origin.version \in Versions /\ origin.file \in Seq(Bytes)
           /\ origin.writing = Nothing \/ origin.writing \in Versions
           /\ origin.seen \in SUBSET Versions /\ origin.changes \in Nat
           /\ FileIsDocument /\ BodyIsBeginning /\ FetchedIsWhole
BY DEF FetchIInv, FetchTypeOK, FetchRecords, OriginRecords

\* What the peer is to send, while it is being read.
LEMMA SentIs ==
    ASSUME NEW response \in Responses
    PROVE  /\ Sent(response) \in Seq(Bytes) /\ response.version \in Versions
           /\ Sent(response) = Document(response.version)
                 \/ (fetch.kind = "github" /\ Sent(response) = <<>>
                       /\ Length[response.version] > ContentsLimit)
<1>1. response.version \in Versions
    BY DEF Responses
<1> QED
    BY <1>1, DocumentIs DEF Sent

LEMMA PublishIInv ==
    ASSUME FetchIInv, NEW v \in Versions, Publish(v)
    PROVE  FetchIInv'
<1> USE FetchTypes
<1>1. /\ origin' \in OriginRecords
      /\ origin'.version = v /\ origin'.file = Document(v)
      /\ origin'.writing = Nothing /\ origin.writing = Nothing
      /\ origin'.seen = origin.seen \cup {v}
      /\ origin.file = Document(origin.version) /\ origin.version \in origin.seen
    <2>1. origin' = [origin EXCEPT !.version = v, !.file = Document(v),
                                   !.seen = @ \cup {v}, !.changes = @ + 1]
        BY DEF Publish
    <2>2. /\ origin.seen \cup {v} \in SUBSET Versions /\ origin.changes + 1 \in Nat
          /\ Document(v) \in Seq(Bytes) /\ origin.writing = Nothing
        BY DocumentIs DEF Publish, Changes
    <2>3. origin.file = Document(origin.version) /\ origin.version \in origin.seen
        BY <2>2 DEF FileIsDocument
    <2> QED
        BY <2>1, <2>2, <2>3 DEF OriginRecords
<1>2. /\ fetch' \in FetchRecords /\ fetch'.pc = fetch.pc /\ fetch'.kind = fetch.kind
      /\ fetch'.body = fetch.body /\ fetch'.response = fetch.response
      /\ fetch'.rewritten = fetch.rewritten
      /\ fetch'.held = IF fetch.pc = "reading" /\ fetch.held = Nothing THEN origin.file
                       ELSE fetch.held
    BY DEF Publish, FetchRecords
<1>3. fetch.pc \in {"idle", "waiting", "reading"}
    BY DEF Publish, Changes
<1>4. FileIsDocument' /\ FetchedIsWhole'
    BY <1>1, <1>2, <1>3 DEF FileIsDocument, FetchedIsWhole
<1>5. BodyIsBeginning'
    <2>1. CASE fetch.pc \in {"idle", "waiting"}
        BY <1>2, <2>1 DEF BodyIsBeginning
    <2>2. CASE fetch.pc = "reading" /\ fetch.kind = "filesystem" /\ ~fetch.rewritten
        <3>1. PICK w \in origin.seen :
                 /\ IsBeginning(fetch.body, Document(w))
                 /\ fetch.held = Document(w) \/ (fetch.held = Nothing /\ w = origin.version)
            BY <2>2 DEF BodyIsBeginning
        <3>2. fetch'.held = Document(w)
            BY <1>1, <1>2, <2>2, <3>1, DocumentIs
        <3> QED
            BY <1>1, <1>2, <2>2, <3>1, <3>2 DEF BodyIsBeginning
    <2>3. CASE fetch.pc = "reading" /\ fetch.kind = "filesystem" /\ fetch.rewritten
        BY <1>2, <2>3 DEF BodyIsBeginning
    <2>4. CASE fetch.pc = "reading" /\ fetch.kind # "filesystem"
        BY <1>1, <1>2, <2>4 DEF BodyIsBeginning, Sent
    <2> QED
        BY <1>3, <2>1, <2>2, <2>3, <2>4
<1> QED
    BY <1>1, <1>2, <1>4, <1>5 DEF FetchIInv, FetchTypeOK

LEMMA RewriteIInv ==
    ASSUME FetchIInv, NEW v \in Versions, Rewrite(v)
    PROVE  FetchIInv'
<1> USE FetchTypes
<1>1. /\ origin' \in OriginRecords /\ origin'.version = origin.version
      /\ origin'.file = <<>> /\ origin'.writing = v /\ origin'.seen = origin.seen
    <2>1. origin' = [origin EXCEPT !.file = <<>>, !.writing = v, !.changes = @ + 1]
        BY DEF Rewrite
    <2>2. <<>> \in Seq(Bytes) /\ origin.changes + 1 \in Nat
        OBVIOUS
    <2> QED
        BY <2>1, <2>2 DEF OriginRecords
<1>2. /\ fetch' \in FetchRecords /\ fetch'.pc = fetch.pc /\ fetch'.kind = "filesystem"
      /\ fetch'.body = fetch.body /\ fetch'.held = fetch.held
      /\ fetch'.rewritten = (fetch.rewritten \/ fetch.pc = "reading")
      /\ fetch.kind = "filesystem" /\ fetch.pc \in {"idle", "waiting", "reading"}
    BY DEF Rewrite, Changes, FetchRecords
<1>3. FileIsDocument' /\ FetchedIsWhole'
    BY <1>1, <1>2, DocumentIs, NoneRead DEF FileIsDocument, FetchedIsWhole
<1>4. BodyIsBeginning'
    BY <1>2 DEF BodyIsBeginning
<1> QED
    BY <1>1, <1>2, <1>3, <1>4 DEF FetchIInv, FetchTypeOK

LEMMA WriteOnIInv ==
    ASSUME FetchIInv, WriteOn
    PROVE  FetchIInv'
<1> USE FetchTypes
<1> DEFINE v == origin.writing
<1>1. v \in Versions /\ fetch' = fetch
    BY DEF WriteOn
<1>2. /\ origin' \in OriginRecords /\ FileIsDocument'
      /\ origin.seen \subseteq origin'.seen
    <2>1. IsBeginning(origin.file, Document(v))
        BY DEF WriteOn, FileIsDocument
    <2>2. CASE Len(origin.file) < Length[v]
        <3>1. origin' = [origin EXCEPT !.file = Append(@, <<v, Len(origin.file) + 1>>)]
            BY <2>2 DEF WriteOn
        <3>2. <<v, Len(origin.file) + 1>> = Document(v)[Len(origin.file) + 1]
            BY <1>1, <2>2, DocumentIs, DocumentsHaveLengths
        <3>3. /\ Append(origin.file, <<v, Len(origin.file) + 1>>) \in Seq(Bytes)
              /\ IsBeginning(Append(origin.file, <<v, Len(origin.file) + 1>>), Document(v))
            BY <1>1, <2>1, <2>2, <3>2, DocumentIs, OneMoreRead
        <3> QED
            BY <1>1, <3>1, <3>3, DocumentIs DEF FileIsDocument, OriginRecords
    <2>3. CASE ~(Len(origin.file) < Length[v])
        <3>1. origin' = [origin EXCEPT !.version = v, !.writing = Nothing, !.seen = @ \cup {v}]
            BY <2>3 DEF WriteOn
        <3>2. Length[v] \in Nat /\ Len(origin.file) \in Nat /\ Len(Document(v)) = Length[v]
            BY <1>1, DocumentIs, DocumentsHaveLengths
        <3>3. Len(origin.file) = Len(Document(v))
            BY <2>1, <2>3, <3>2 DEF IsBeginning
        <3>4. origin.file = Document(v)
            BY <1>1, <2>1, <3>3, DocumentIs, AllRead
        <3> QED
            BY <1>1, <3>1, <3>4 DEF FileIsDocument, OriginRecords
    <2> QED
        BY <2>2, <2>3
<1>3. BodyIsBeginning'
    <2>1. v # Nothing
        BY DEF WriteOn
    <2> QED
        BY <1>1, <1>2, <2>1 DEF BodyIsBeginning, Sent
<1>4. FetchedIsWhole'
    BY <1>1, <1>2
    DEF FetchedIsWhole, IsVersion, RewrittenMeanwhile, EndedByTheConnection, SentWithoutContent
<1> QED
    BY <1>1, <1>2, <1>3, <1>4 DEF FetchIInv, FetchTypeOK

LEMMA OpenFileIInv ==
    ASSUME FetchIInv, OpenFile
    PROVE  FetchIInv'
<1> USE FetchTypes
<1>1. /\ fetch' \in FetchRecords /\ fetch'.pc = "reading" /\ fetch'.kind = "filesystem"
      /\ fetch'.body = <<>> /\ fetch'.held = Nothing
      /\ fetch'.rewritten = (origin.writing # Nothing)
      /\ origin' = origin
    BY DEF OpenFile, FetchRecords, BodyIsBeginning
<1>2. origin.version \in origin.seen /\ IsBeginning(<<>>, Document(origin.version))
    BY DocumentIs, NoneRead DEF FileIsDocument
<1> QED
    BY <1>1, <1>2 DEF FetchIInv, FetchTypeOK, FileIsDocument, BodyIsBeginning, FetchedIsWhole

LEMMA ReadFileIInv ==
    ASSUME FetchIInv, ReadFile
    PROVE  FetchIInv'
<1> USE FetchTypes
<1> DEFINE file == IF fetch.held = Nothing THEN origin.file ELSE fetch.held
           n == Len(fetch.body)
<1>1. /\ fetch.kind = "filesystem" /\ fetch.pc = "reading" /\ origin' = origin
      /\ file \in Seq(Bytes) /\ n \in Nat
    BY DEF ReadFile
<1>2. ASSUME ~fetch.rewritten
      PROVE  \E v \in origin.seen : /\ file = Document(v) /\ v \in Versions
                                    /\ IsBeginning(fetch.body, file)
                                    /\ fetch.held = Document(v)
                                          \/ (fetch.held = Nothing /\ v = origin.version)
                                    /\ origin.writing = Nothing
    BY <1>1, <1>2, DocumentIs DEF BodyIsBeginning, FileIsDocument
<1>3. CASE n < Len(file)
    <2>1. /\ fetch' \in FetchRecords /\ fetch'.pc = "reading" /\ fetch'.kind = "filesystem"
          /\ fetch'.body = Append(fetch.body, file[n + 1])
          /\ fetch'.held = fetch.held /\ fetch'.rewritten = fetch.rewritten
        <3>1. fetch' = [fetch EXCEPT !.body = Append(@, file[n + 1])]
            BY <1>3 DEF ReadFile
        <3>2. Append(fetch.body, file[n + 1]) \in Seq(Bytes)
            BY <1>1, <1>3
        <3> HIDE DEF file, n
        <3> QED
            BY <1>1, <3>1, <3>2 DEF FetchRecords
    <2>2. ASSUME ~fetch.rewritten PROVE IsBeginning(fetch'.body, file)
        BY <1>1, <1>2, <1>3, <2>1, <2>2, OneMoreRead
    <2>3. BodyIsBeginning'
        <3> HIDE DEF file
        <3> QED
            BY <1>1, <1>2, <2>1, <2>2 DEF BodyIsBeginning
    <2> QED
        BY <1>1, <2>1, <2>3 DEF FetchIInv, FetchTypeOK, FileIsDocument, FetchedIsWhole
<1>4. CASE ~(n < Len(file))
    <2>1. /\ fetch' \in FetchRecords /\ fetch'.pc = "done" /\ fetch'.kind = "filesystem"
          /\ fetch'.body = fetch.body /\ fetch'.rewritten = fetch.rewritten
          /\ fetch'.revision = <<"fingerprint", fetch.body>>
        <3>1. fetch' = [fetch EXCEPT !.pc = "done", !.body = fetch.body,
                                     !.revision = <<"fingerprint", fetch.body>>]
            BY <1>4 DEF ReadFile, Answer
        <3>2. <<"fingerprint", fetch.body>> \in {"fingerprint"} \X Seq(Bytes)
            OBVIOUS
        <3> HIDE DEF file, n
        <3> QED
            BY <1>1, <3>1, <3>2 DEF FetchRecords
    <2>2. ASSUME ~fetch.rewritten
          PROVE  \E v \in origin.seen : fetch.body = Document(v)
        <3>1. PICK v \in origin.seen : file = Document(v) /\ IsBeginning(fetch.body, file)
            BY <1>2, <2>2
        <3>2. n = Len(file)
            BY <1>1, <1>4, <3>1 DEF IsBeginning
        <3> QED
            BY <1>1, <3>1, <3>2, AllRead
    <2>3. FetchedIsWhole'
        BY <1>1, <2>1, <2>2 DEF FetchedIsWhole, IsVersion, RewrittenMeanwhile
    <2> QED
        BY <1>1, <2>1, <2>3 DEF FetchIInv, FetchTypeOK, FileIsDocument, BodyIsBeginning
<1> QED
    BY <1>3, <1>4

\* A fetch that has failed has nothing to answer for.
LEMMA FailIInv ==
    ASSUME FetchIInv, Fail, UNCHANGED origin
    PROVE  FetchIInv'
<1> USE FetchTypes
<1>1. fetch' \in FetchRecords /\ fetch'.pc = "failed"
    BY DEF Fail, FetchRecords
<1> QED
    BY <1>1 DEF FetchIInv, FetchTypeOK, FileIsDocument, BodyIsBeginning, FetchedIsWhole

LEMMA RequestIInv ==
    ASSUME FetchIInv, Request
    PROVE  FetchIInv'
<1> USE FetchTypes
<1>1. /\ fetch' \in FetchRecords /\ fetch'.pc = "waiting" /\ fetch.pc = "idle"
      /\ fetch'.body = fetch.body /\ fetch'.held = fetch.held /\ origin' = origin
      /\ fetch'.kind # "filesystem"
    BY DEF Request, FetchRecords
<1> QED
    BY <1>1 DEF FetchIInv, FetchTypeOK, FileIsDocument, BodyIsBeginning, FetchedIsWhole

LEMMA RedirectIInv ==
    ASSUME FetchIInv, Redirect
    PROVE  FetchIInv'
<1> USE FetchTypes
<1>1. CASE Fail
    BY <1>1, FailIInv DEF Redirect
<1>2. CASE fetch' = [fetch EXCEPT !.via = @ + 1]
    <2>1. /\ fetch' \in FetchRecords /\ fetch'.pc = "waiting" /\ fetch.pc = "waiting"
          /\ fetch'.body = fetch.body /\ fetch'.held = fetch.held /\ origin' = origin
          /\ fetch'.kind = fetch.kind
        BY <1>2 DEF Redirect, FetchRecords
    <2> QED
        BY <2>1 DEF FetchIInv, FetchTypeOK, FileIsDocument, BodyIsBeginning, FetchedIsWhole
<1> QED
    BY <1>1, <1>2 DEF Redirect

\* The peer answers with the document that the origin then has.
LEMMA HeadersIInv ==
    ASSUME FetchIInv, NEW status \in {200, 500}, NEW marker \in BOOLEAN,
           NEW framing \in {"length", "close"}, Headers(status, marker, framing)
    PROVE  FetchIInv'
<1> USE FetchTypes
<1> DEFINE response == [version |-> origin.version, status |-> status,
                        marker |-> marker, framing |-> framing, cut |-> FALSE]
<1>1. response \in Responses /\ response.version = origin.version
    BY DEF Responses
<1>3. fetch' = [fetch EXCEPT !.pc = "reading", !.response = response]
    BY DEF Headers
<1>4. /\ origin' = origin /\ fetch.pc = "waiting" /\ fetch.kind # "filesystem"
      /\ fetch.body = <<>> /\ fetch.held = Nothing
    BY DEF Headers, BodyIsBeginning
<1> HIDE DEF response
<1>5. /\ fetch' \in FetchRecords /\ fetch'.pc = "reading" /\ fetch'.kind = fetch.kind
      /\ fetch'.body = <<>> /\ fetch'.response = response
    BY <1>1, <1>3, <1>4 DEF FetchRecords
<1>6. /\ fetch'.response \in Responses /\ fetch'.response.version \in origin.seen
      /\ IsBeginning(<<>>, Sent(fetch.response)')
    <2>1. Sent(fetch.response)' \in Seq(Bytes)
        BY <1>1, <1>5, DocumentIs DEF Sent
    <2> QED
        BY <1>1, <1>4, <1>5, <2>1, NoneRead DEF FileIsDocument
<1> QED
    BY <1>4, <1>5, <1>6
    DEF FetchIInv, FetchTypeOK, FileIsDocument, BodyIsBeginning, FetchedIsWhole

\* What is known of a response that is being read.
LEMMA ReadingIs ==
    ASSUME FetchIInv, Reading
    PROVE  /\ fetch.kind \in {"http", "github"} /\ fetch.pc = "reading"
           /\ fetch.response \in Responses /\ fetch.response.version \in origin.seen
           /\ fetch.response.cut \in BOOLEAN /\ fetch.response.version \in Versions
           /\ Sent(fetch.response) \in Seq(Bytes)
           /\ IsBeginning(fetch.body, Sent(fetch.response))
<1>1. /\ fetch.kind \in {"http", "github"} /\ fetch.pc = "reading"
      /\ fetch.response \in Responses /\ fetch.response.version \in origin.seen
      /\ IsBeginning(fetch.body, Sent(fetch.response))
    BY FetchTypes DEF Reading, BodyIsBeginning
<1> QED
    BY <1>1, SentIs DEF Responses

LEMMA ReceiveIInv ==
    ASSUME FetchIInv, Receive
    PROVE  FetchIInv'
<1> USE FetchTypes
<1> DEFINE sent == Sent(fetch.response)
           body == Append(fetch.body, sent[Len(fetch.body) + 1])
<1>1. Reading /\ origin' = origin /\ Len(fetch.body) < Len(sent)
      /\ fetch' = [fetch EXCEPT !.body = body]
    BY DEF Receive
<1>2. body \in Seq(Bytes) /\ IsBeginning(body, sent)
    BY <1>1, ReadingIs, OneMoreRead
<1> HIDE DEF body
<1>3. /\ fetch' \in FetchRecords /\ fetch'.pc = "reading" /\ fetch'.kind = fetch.kind
      /\ fetch'.body = body /\ fetch'.response = fetch.response
    BY <1>1, <1>2, ReadingIs DEF FetchRecords
<1>4. Sent(fetch.response)' = sent
    BY <1>3 DEF Sent
<1> QED
    BY <1>1, <1>2, <1>3, <1>4, ReadingIs
    DEF FetchIInv, FetchTypeOK, FileIsDocument, BodyIsBeginning, FetchedIsWhole

LEMMA CutIInv ==
    ASSUME FetchIInv, Cut
    PROVE  FetchIInv'
<1> USE FetchTypes
<1> DEFINE response == [fetch.response EXCEPT !.cut = TRUE]
<1>1. Reading /\ origin' = origin /\ fetch' = [fetch EXCEPT !.response = response]
    BY DEF Cut
<1>2. response \in Responses /\ response.version = fetch.response.version
    BY <1>1, ReadingIs DEF Responses
<1> HIDE DEF response
<1>3. /\ fetch' \in FetchRecords /\ fetch'.pc = "reading" /\ fetch'.kind = fetch.kind
      /\ fetch'.body = fetch.body /\ fetch'.response = response
    BY <1>1, <1>2, ReadingIs DEF FetchRecords
<1>4. Sent(fetch.response)' = Sent(fetch.response)
    BY <1>2, <1>3 DEF Sent
<1> QED
    BY <1>1, <1>2, <1>3, <1>4, ReadingIs
    DEF FetchIInv, FetchTypeOK, FileIsDocument, BodyIsBeginning, FetchedIsWhole

\* A body that is taken for the whole: all that was sent, unless its end was told
\* by nothing but the connection.
LEMMA EndedIs ==
    ASSUME FetchIInv, Ended, fetch.kind = "http" => Len(fetch.body) <= MaxBytes
    PROVE  /\ Reading
           /\ fetch.body = Sent(fetch.response) \/ fetch.response.cut
<1>1. Reading
    BY DEF Ended
<1>2. Len(fetch.body) \in Nat /\ MaxBytes \in Nat
    BY FetchTypes, DocumentsHaveLengths
<1>3. Len(fetch.body) = Len(Sent(fetch.response)) \/ fetch.response.cut
    BY <1>1, <1>2, ReadingIs DEF Ended, ReadUpTo
<1> QED
    BY <1>1, <1>3, FetchTypes, ReadingIs, AllRead

LEMMA EndOfBodyIInv ==
    ASSUME FetchIInv, EndOfBody
    PROVE  FetchIInv'
<1> USE FetchTypes
<1>1. CASE Fail
    BY <1>1, FailIInv DEF EndOfBody
<1>2. CASE ~Fail
    <2>1. /\ fetch.kind = "http" /\ Ended /\ origin' = origin
          /\ ~(Len(fetch.body) > MaxBytes)
          /\ ~(fetch.response.cut /\ fetch.response.framing = "length")
          /\ fetch' = [fetch EXCEPT !.pc = "done", !.body = fetch.body, !.revision = Revision]
        BY <1>2 DEF EndOfBody, Answer
    <2>2. Reading /\ (fetch.body = Sent(fetch.response) \/ fetch.response.cut)
        BY <2>1, EndedIs, DocumentsHaveLengths
    <2>3. /\ Revision \in ({"marker"} \X Versions) \cup ({"fingerprint"} \X Seq(Bytes))
          /\ Revision = <<"marker", fetch.response.version>>
                \/ Revision = <<"fingerprint", fetch.body>>
        BY <2>2, ReadingIs DEF Revision
    <2>4. /\ fetch' \in FetchRecords /\ fetch'.pc = "done" /\ fetch'.kind = "http"
          /\ fetch'.body = fetch.body /\ fetch'.response = fetch.response
          /\ fetch'.revision = Revision
        BY <2>1, <2>3 DEF FetchRecords
    <2>5. FetchedIsWhole'
        <3>1. CASE fetch.response.cut
            <4>1. fetch.response.framing = "close"
                BY <2>1, <2>2, <3>1, ReadingIs DEF Responses
            <4> QED
                BY <2>4, <3>1, <4>1 DEF FetchedIsWhole, EndedByTheConnection
        <3>2. CASE fetch.body = Sent(fetch.response)
            <4>1. /\ fetch.body = Document(fetch.response.version)
                  /\ fetch.response.version \in origin.seen
                BY <2>1, <2>2, <3>2, ReadingIs DEF Sent
            <4> QED
                BY <2>1, <2>3, <2>4, <4>1 DEF FetchedIsWhole, IsVersion
        <3> QED
            BY <2>2, <3>1, <3>2
    <2> QED
        BY <2>1, <2>4, <2>5 DEF FetchIInv, FetchTypeOK, FileIsDocument, BodyIsBeginning
<1> QED
    BY <1>1, <1>2

LEMMA EndOfContentsIInv ==
    ASSUME FetchIInv, EndOfContents
    PROVE  FetchIInv'
<1> USE FetchTypes
<1> DEFINE revision == <<"marker", fetch.response.version>>
<1>1. CASE Fail
    BY <1>1, FailIInv DEF EndOfContents
<1>2. CASE ~Fail
    <2>1. /\ fetch.kind = "github" /\ Ended /\ origin' = origin /\ ~fetch.response.cut
          /\ fetch' = [fetch EXCEPT !.pc = "done", !.body = fetch.body, !.revision = revision]
        BY <1>2 DEF EndOfContents, Answer
    <2>2. Reading /\ fetch.body = Sent(fetch.response)
        BY <2>1, EndedIs
    <2>3. revision \in {"marker"} \X Versions
        BY <2>2, ReadingIs
    <2>4. /\ fetch' \in FetchRecords /\ fetch'.pc = "done" /\ fetch'.kind = "github"
          /\ fetch'.body = fetch.body /\ fetch'.response = fetch.response
          /\ fetch'.revision = revision
        BY <2>1, <2>3 DEF FetchRecords
    <2>5. FetchedIsWhole'
        <3>1. CASE fetch.body = Document(fetch.response.version)
            BY <2>1, <2>2, <2>4, <3>1, ReadingIs DEF FetchedIsWhole, IsVersion
        <3>2. CASE fetch.body = <<>> /\ Length[fetch.response.version] > ContentsLimit
            BY <2>4, <3>2 DEF FetchedIsWhole, SentWithoutContent
        <3> QED
            BY <2>2, <3>1, <3>2, ReadingIs, SentIs
    <2> QED
        BY <2>1, <2>4, <2>5 DEF FetchIInv, FetchTypeOK, FileIsDocument, BodyIsBeginning
<1> QED
    BY <1>1, <1>2

LEMMA FetchStep == FetchIInv /\ [FetchNext]_sourcesVars => FetchIInv'
<1> SUFFICES ASSUME FetchIInv, [FetchNext]_sourcesVars PROVE FetchIInv'
    OBVIOUS
<1>1. ASSUME NEW v \in Versions, Publish(v) PROVE FetchIInv'
    BY <1>1, PublishIInv
<1>2. ASSUME NEW v \in Versions, Rewrite(v) PROVE FetchIInv'
    BY <1>2, RewriteIInv
<1>3. ASSUME NEW status \in {200, 500}, NEW marker \in BOOLEAN,
             NEW framing \in {"length", "close"}, Headers(status, marker, framing)
      PROVE  FetchIInv'
    BY <1>3, HeadersIInv
<1>4. CASE Refuse \/ Expire
    BY <1>4, FailIInv DEF Refuse, Expire
<1>5. CASE UNCHANGED sourcesVars
    BY <1>5
    DEF sourcesVars, FetchIInv, FetchTypeOK, FileIsDocument, BodyIsBeginning, Sent,
        FetchedIsWhole, IsVersion, RewrittenMeanwhile, EndedByTheConnection,
        SentWithoutContent
<1> QED
    BY <1>1, <1>2, <1>3, <1>4, <1>5, WriteOnIInv, OpenFileIInv, ReadFileIInv, RequestIInv,
       RedirectIInv, ReceiveIInv, CutIInv, EndOfBodyIInv, EndOfContentsIInv
    DEF FetchNext

\* What is known of a fetch and of its origin, of every document and limit.
THEOREM FetchInvariance == FetchSpec => []FetchIInv
<1>1. FetchInit => FetchIInv
    BY FetchBegins
<1>2. FetchIInv /\ [FetchNext]_sourcesVars => FetchIInv'
    BY FetchStep
<1> QED
    BY <1>1, <1>2, PTL DEF FetchSpec

\* What a fetch returns is the whole of one version of the document, with that
\* version's revision, but for the three cases that the property names
\* (http.go, github.go, filesystem.go).
THEOREM FetchesAreWhole == FetchSpec => []FetchedIsWhole
<1>1. FetchIInv => FetchedIsWhole
    BY DEF FetchIInv
<1> QED
    BY <1>1, FetchInvariance, PTL

=============================================================================
