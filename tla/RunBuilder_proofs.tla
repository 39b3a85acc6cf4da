-------------------------- MODULE RunBuilder_proofs --------------------------
(***************************************************************************)
(* TLAPS proofs about RunBuilder, for any sets of clients, runs, entries   *)
(* and manifest ids and any MaxRows: the inductive invariant IInv and what *)
(* follows from it; and that RunBuilder implements ManifestLedger.         *)
(***************************************************************************)
EXTENDS RunBuilder, FiniteSetTheorems, TLAPS

(***************************************************************************)
(* Counting: the n rows 0 .. n-1 are n rows, and the row after them makes  *)
(* them n+1.                                                               *)
(***************************************************************************)
LEMMA CountInterval ==
    ASSUME NEW n \in Nat
    PROVE  Cardinality(0 .. n - 1) = n
<1>1. Cardinality(0 .. n - 1) = IF 0 > n - 1 THEN 0 ELSE (n - 1) - 0 + 1
    BY FS_Interval
<1> QED
    BY <1>1

LEMMA ContiguousEmpty == Contiguous(NoRows) /\ IsTable(NoRows)
<1>1. DOMAIN NoRows = 0 .. 0 - 1
    BY DEF NoRows
<1>2. Count(NoRows) = 0
    BY <1>1, CountInterval DEF Count
<1> QED
    BY <1>1, <1>2 DEF Contiguous, IsTable, NoRows

LEMMA ContiguousAppend ==
    ASSUME NEW t, Contiguous(t), NEW u, DOMAIN u = DOMAIN t \cup {Count(t)}
    PROVE  Contiguous(u) /\ Count(u) = Count(t) + 1
<1> DEFINE n == Count(t)
<1>1. n \in Nat /\ DOMAIN t = 0 .. n - 1
    BY DEF Contiguous
<1>2. DOMAIN u = 0 .. (n + 1) - 1
    BY <1>1
<1>3. Count(u) = n + 1
    BY <1>1, <1>2, CountInterval DEF Count
<1> QED
    BY <1>1, <1>2, <1>3 DEF Contiguous

-----------------------------------------------------------------------------
(* Types *)

LEMMA FreeIsRequest ==
    ASSUME NEW a \in Answers
    PROVE  IsRequest(Free(a))
BY DEF Free, IsRequest, FreeRequests

LEMMA InitType == Init => TypeOK
BY FreeIsRequest, ContiguousEmpty DEF Init, TypeOK, Statuses, Answers

\* A step that only moves one request on, or answers it.
LEMMA BecomesType ==
    ASSUME TypeOK, NEW c \in Clients, NEW q, IsRequest(q), Becomes(c, q),
           UNCHANGED <<runs, rows, manifests, acked>>
    PROVE  TypeOK'
BY DEF TypeOK, Becomes, IsRequest

LEMMA AnswerType ==
    ASSUME TypeOK, NEW c \in Clients, NEW a \in Answers, Answer(c, a),
           UNCHANGED <<runs, rows, manifests, acked>>
    PROVE  TypeOK'
BY FreeIsRequest, BecomesType DEF Answer

\* A request at a mount step is a mount request, one at a commit step a commit.
LEMMA StepType ==
    ASSUME TypeOK, NEW c \in Clients
    PROVE  /\ req[c].pc \in MountSteps => req[c] \in MountRequests
           /\ req[c].pc \in MountSteps \ {"mount_check", "mount_resolve"} =>
                 req[c].entry \in Entries
           /\ req[c].pc \in CommitSteps =>
                 /\ req[c] = Committing(req[c].pc, req[c].run, req[c].listed,
                                        req[c].id, req[c].seen)
                 /\ req[c].run \in Runs
                 /\ IsTable(req[c].listed)
                 /\ req[c].seen \subseteq acked
           /\ req[c].pc = "commit_mark" => req[c].id \in ManifestIds
           /\ Idle(c) => req[c] \in FreeRequests
BY DEF TypeOK, IsRequest, MountSteps, CommitSteps, FreeRequests, MountRequests,
       Idle

LEMMA TypeStep == TypeOK /\ PositionsContiguous /\ [Next]_vars => TypeOK'
<1> SUFFICES ASSUME TypeOK, PositionsContiguous, [Next]_vars
             PROVE  TypeOK'
    OBVIOUS
<1>0. \A r \in Runs : NextPosition(r) \in Nat
    BY DEF PositionsContiguous, Contiguous, NextPosition
<1>1. ASSUME NEW c \in Clients, NEW r \in Runs, StartRun(c, r)
      PROVE  TypeOK'
    BY <1>1, FreeIsRequest
    DEF StartRun, Answer, Becomes, Answers, Statuses, IsRequest, TypeOK
<1>2. ASSUME NEW c \in Clients, NEW r \in Runs, StartRunTwice(c, r)
      PROVE  TypeOK'
    BY <1>2, AnswerType DEF StartRunTwice, Answers
<1>3. ASSUME NEW c \in Clients, NEW r \in Runs, AskMount(c, r)
      PROVE  TypeOK'
    <2>1. IsRequest(Mounting("mount_check", r, NextPosition(r), None, 0))
        BY <1>0 DEF Mounting, MountRequests, MountSteps, IsRequest
    <2> QED
        BY <1>3, <2>1, BecomesType DEF AskMount
<1>4. ASSUME NEW c \in Clients, NEW r \in Runs, CommitCheck(c, r)
      PROVE  TypeOK'
    <2> DEFINE q == Committing("commit_list", r, NoRows, None,
                               {a \in acked : a.run = r})
    <2>1. IsRequest(q)
        BY ContiguousEmpty DEF Committing, CommitSteps, IsRequest
    <2>2. CASE Becomes(c, q)
        BY <1>4, <2>1, <2>2, BecomesType DEF CommitCheck
    <2>3. CASE \E a \in {"not_found", "conflict"} : Answer(c, a)
        BY <1>4, <2>3, AnswerType DEF CommitCheck, Answers
    <2> QED
        BY <1>4, <2>2, <2>3 DEF CommitCheck
<1>5. ASSUME NEW c \in Clients, MountCheck(c)
      PROVE  TypeOK'
    <2> DEFINE q == Mounting("mount_resolve", req[c].run, req[c].told, None, 0)
    <2>1. IsRequest(q)
        BY <1>5, StepType
        DEF MountCheck, Mounting, MountRequests, MountSteps, IsRequest
    <2>2. CASE Becomes(c, q)
        BY <1>5, <2>1, <2>2, BecomesType DEF MountCheck
    <2>3. CASE \E a \in {"not_found", "conflict"} : Answer(c, a)
        BY <1>5, <2>3, AnswerType DEF MountCheck, Answers
    <2> QED
        BY <1>5, <2>2, <2>3 DEF MountCheck
<1>6. ASSUME NEW c \in Clients, MountResolve(c)
      PROVE  TypeOK'
    <2>1. ASSUME NEW e \in Entries,
                 Becomes(c, Mounting("mount_list", req[c].run, req[c].told,
                                     e, 0))
          PROVE  TypeOK'
        <3>1. IsRequest(Mounting("mount_list", req[c].run, req[c].told, e, 0))
            BY <1>6, StepType
            DEF MountResolve, Mounting, MountRequests, MountSteps, IsRequest
        <3> QED
            BY <1>6, <2>1, <3>1, BecomesType DEF MountResolve
    <2>2. CASE Answer(c, "failed")
        BY <1>6, <2>2, AnswerType DEF MountResolve, Answers
    <2> QED
        BY <1>6, <2>1, <2>2 DEF MountResolve
<1>7. ASSUME NEW c \in Clients, MountList(c)
      PROVE  TypeOK'
    <2>1. req[c].run \in Runs /\ req[c].told \in Nat /\ req[c].entry \in Entries
        BY <1>7, StepType DEF MountList, MountRequests, MountSteps
    <2>2. IsRequest(Mounting("mount_append", req[c].run, req[c].told,
                             req[c].entry, NextPosition(req[c].run)))
        BY <1>0, <2>1 DEF Mounting, MountRequests, MountSteps, IsRequest
    <2> QED
        BY <1>7, <2>2, BecomesType DEF MountList
<1>8. ASSUME NEW c \in Clients, MountAppend(c)
      PROVE  TypeOK'
    <2> DEFINE q == req[c]
               t == [p \in DOMAIN rows[q.run] \cup {q.at} |->
                        IF p = q.at THEN q.entry ELSE rows[q.run][p]]
               z == Mounting("mount_answer", q.run, q.told, q.entry, q.at)
    <2>1. q.run \in Runs /\ q.entry \in Entries /\ q.at \in Nat
          /\ q.told \in Nat
        BY <1>8, StepType DEF MountAppend, MountRequests, MountSteps
    <2>2. CASE PositionTaken(q.run, q.at)
        BY <1>8, <2>2, AnswerType DEF MountAppend, Answers
    <2>3. CASE ~PositionTaken(q.run, q.at)
        <3>1. IsRequest(z)
            BY <2>1 DEF Mounting, MountRequests, MountSteps, IsRequest
        <3>2. IsTable(t)
            BY <2>1 DEF IsTable, TypeOK
        <3>3. /\ rows' = [rows EXCEPT ![q.run] = t]
              /\ Becomes(c, z)
              /\ UNCHANGED <<runs, manifests, acked>>
            BY <1>8, <2>3 DEF MountAppend
        <3>4. rows' = [r \in Runs |-> rows'[r]]
              /\ \A r \in Runs : IsTable(rows'[r])
            BY <2>1, <3>2, <3>3 DEF TypeOK
        <3>5. req' = [x \in Clients |-> req'[x]]
              /\ \A x \in Clients : IsRequest(req[x])'
            BY <3>1, <3>3 DEF Becomes, IsRequest, TypeOK
        <3> QED
            BY <3>3, <3>4, <3>5 DEF TypeOK
    <2> QED
        BY <2>2, <2>3
<1>9. ASSUME NEW c \in Clients, MountAnswer(c)
      PROVE  TypeOK'
    <2>1. IsAck([run |-> req[c].run, at |-> req[c].at, told |-> req[c].told,
                 entry |-> req[c].entry])
        BY <1>9, StepType DEF MountAnswer, MountRequests, MountSteps, IsAck
    <2> QED
        BY <1>9, <2>1, FreeIsRequest
        DEF MountAnswer, Answer, Becomes, Answers, IsRequest, TypeOK
<1>10. ASSUME NEW c \in Clients, CommitList(c)
       PROVE  TypeOK'
    <2>1. req[c].run \in Runs /\ req[c].seen \subseteq acked
        BY <1>10, StepType DEF CommitList, CommitSteps
    <2>2. IsRequest(Committing("commit_create", req[c].run,
                               ListMounts(req[c].run), None, req[c].seen))
        BY <2>1 DEF TypeOK, ListMounts, Committing, CommitSteps, IsRequest
    <2> QED
        BY <1>10, <2>2, BecomesType DEF CommitList
<1>11. ASSUME NEW c \in Clients, CommitCreate(c)
       PROVE  TypeOK'
    <2> DEFINE q == req[c]
    <2>1. CASE HasManifest(q.run)
        BY <1>11, <2>1, AnswerType DEF CommitCreate, Answers
    <2>2. CASE ~HasManifest(q.run)
        <3>1. PICK id \in ManifestIds :
                 /\ manifests' = manifests \cup {[id |-> id, run |-> q.run,
                                                  entries |-> q.listed]}
                 /\ Becomes(c, Committing("commit_mark", q.run, q.listed, id,
                                          q.seen))
            BY <1>11, <2>2 DEF CommitCreate
        <3>2. q.run \in Runs /\ IsTable(q.listed) /\ q.seen \subseteq acked
            BY <1>11, StepType DEF CommitCreate, CommitSteps
        <3>3. IsRequest(Committing("commit_mark", q.run, q.listed, id, q.seen))
            BY <3>2 DEF Committing, CommitSteps, IsRequest
        <3>4. req' = [x \in Clients |-> req'[x]]
              /\ \A x \in Clients : IsRequest(req[x])'
            BY <1>11, <3>1, <3>3 DEF CommitCreate, Becomes, IsRequest, TypeOK
        <3>5. \A m \in manifests' :
                 m.id \in ManifestIds /\ m.run \in Runs /\ IsTable(m.entries)
            BY <3>1, <3>2 DEF TypeOK
        <3> QED
            BY <1>11, <3>4, <3>5 DEF CommitCreate, TypeOK
    <2> QED
        BY <2>1, <2>2
<1>12. ASSUME NEW c \in Clients, CommitMark(c)
       PROVE  TypeOK'
    <2>1. req[c].run \in Runs /\ req[c].id \in ManifestIds
        BY <1>12, StepType DEF CommitMark, CommitSteps
    <2> QED
        BY <1>12, <2>1, FreeIsRequest
        DEF CommitMark, Answer, Becomes, Answers, Statuses, IsRequest, TypeOK
<1>13. ASSUME NEW c \in Clients, Fail(c)
       PROVE  TypeOK'
    BY <1>13, AnswerType DEF Fail, Answers
<1>14. CASE UNCHANGED vars
    BY <1>14 DEF vars, IsRequest, TypeOK
<1> QED
    BY <1>1, <1>2, <1>3, <1>4, <1>5, <1>6, <1>7, <1>8, <1>9, <1>10, <1>11,
       <1>12, <1>13, <1>14
    DEF Next, Ask, Step
-----------------------------------------------------------------------------
(* The inductive invariant *)

LEMMA InitIInv == Init => IInv
<1> SUFFICES ASSUME Init
             PROVE  IInv
    OBVIOUS
<1>1. TypeOK
    BY InitType
<1>2. PositionsContiguous
    BY ContiguousEmpty DEF Init, PositionsContiguous
<1> QED
    BY <1>1, <1>2
    DEF Init, IInv, AckedMountStaged, OneManifestPerRun,
        CommittedNamesItsManifest, ManifestIsStagedPrefix, RequestInv, Free,
        MountSteps, CommitSteps

\* A step that changes no table preserves the invariant if what the moved
\* request now claims of the tables is true.
LEMMA BecomesIInv ==
    ASSUME IInv, TypeOK', NEW c \in Clients, NEW q, Becomes(c, q),
           UNCHANGED <<runs, rows, manifests, acked>>,
           q.pc \in MountSteps => MountInv(q),
           q.pc \in CommitSteps => CommitInv(q)
    PROVE  IInv'
<1>1. \A d \in Clients : RequestInv(d)'
    <2> SUFFICES ASSUME NEW d \in Clients
                 PROVE  RequestInv(d)'
        OBVIOUS
    <2>1. CASE d = c
        BY <2>1 DEF IInv, TypeOK, Becomes, RequestInv, MountInv, CommitInv
    <2>2. CASE d # c
        BY <2>2 DEF IInv, TypeOK, Becomes, RequestInv, MountInv, CommitInv
    <2> QED
        BY <2>1, <2>2
<1> QED
    BY <1>1
    DEF IInv, PositionsContiguous, AckedMountStaged, OneManifestPerRun,
        CommittedNamesItsManifest, ManifestIsStagedPrefix

LEMMA AnswerIInv ==
    ASSUME IInv, TypeOK', NEW c \in Clients, NEW a, Answer(c, a),
           UNCHANGED <<runs, rows, manifests, acked>>
    PROVE  IInv'
BY BecomesIInv DEF Answer, Free, MountSteps, CommitSteps

\* Rows are only added, at the end.
LEMMA AppendGrows ==
    ASSUME IInv, NEW r \in Runs, NEW n, n = Count(rows[r]), NEW e,
           \A x \in Runs : x # r => rows'[x] = rows[x],
           DOMAIN rows'[r] = DOMAIN rows[r] \cup {n},
           \A p \in DOMAIN rows[r] : p # n => rows'[r][p] = rows[r][p]
    PROVE  \A x \in Runs : /\ IsPrefixOf(rows[x], rows'[x])
                           /\ Contiguous(rows'[x])
                           /\ Count(rows[x]) <= Count(rows'[x])
<1>1. \A x \in Runs : Contiguous(rows[x]) /\ Count(rows[x]) \in Nat
    BY DEF IInv, PositionsContiguous, Contiguous
<1>2. n \notin DOMAIN rows[r]
    BY <1>1 DEF Contiguous
<1>3. Contiguous(rows'[r]) /\ Count(rows'[r]) = n + 1
    BY <1>1, ContiguousAppend
<1>4. IsPrefixOf(rows[r], rows'[r])
    BY <1>2 DEF IsPrefixOf
<1>5. \A x \in Runs : IsPrefixOf(rows[x], rows[x])
    BY DEF IsPrefixOf
<1> QED
    BY <1>1, <1>3, <1>4, <1>5

\* What a request knows of the tables stays true while it does not move: rows
\* and manifests are only added, and a run that exists goes on existing.
TablesGrow ==
    /\ \A r \in Runs :
          /\ runs[r].status # "none" => runs'[r].status # "none"
          /\ IsPrefixOf(rows[r], rows'[r])
          /\ Count(rows[r]) \in Nat /\ Count(rows'[r]) \in Nat
          /\ Count(rows[r]) <= Count(rows'[r])
    /\ manifests \subseteq manifests'

LEMMA RequestKept ==
    ASSUME TypeOK, NEW d \in Clients, RequestInv(d), req'[d] = req[d],
           TablesGrow
    PROVE  RequestInv(d)'
<1>1. CASE req[d].pc \in MountSteps
    <2>1. req[d].run \in Runs /\ req[d].at \in Nat /\ MountInv(req[d])
        BY <1>1, StepType DEF MountRequests, RequestInv
    <2>2. MountInv(req[d])'
        BY <2>1 DEF TablesGrow, MountInv, IsPrefixOf
    <2>3. req'[d].pc \notin CommitSteps
        BY <1>1 DEF MountSteps, CommitSteps
    <2> QED
        BY <2>2, <2>3 DEF RequestInv
<1>2. CASE req[d].pc \in CommitSteps
    <2>1. req[d].run \in Runs /\ CommitInv(req[d])
        BY <1>2, StepType DEF RequestInv
    <2>2. CommitInv(req[d])'
        BY <2>1 DEF TablesGrow, CommitInv, IsPrefixOf
    <2>3. req'[d].pc \notin MountSteps
        BY <1>2 DEF MountSteps, CommitSteps
    <2> QED
        BY <2>2, <2>3 DEF RequestInv
<1>3. CASE req[d].pc \notin MountSteps \cup CommitSteps
    BY <1>3 DEF RequestInv
<1> QED
    BY <1>1, <1>2, <1>3

\* A freed slot claims nothing.
LEMMA FreeKept ==
    ASSUME NEW c \in Clients, NEW a, req'[c] = Free(a)
    PROVE  RequestInv(c)'
BY DEF RequestInv, Free, MountSteps, CommitSteps

\* The request whose row was just inserted, and the one whose manifest was.
LEMMA AppendedInv ==
    ASSUME NEW c, NEW r, NEW told, NEW e, NEW n,
           req'[c] = Mounting("mount_answer", r, told, e, n),
           runs'[r].status # "none", n \in DOMAIN rows'[r], rows'[r][n] = e
    PROVE  RequestInv(c)'
BY DEF RequestInv, MountInv, Mounting, CommitSteps

LEMMA CreatedInv ==
    ASSUME NEW c, NEW r, NEW listed, NEW id, NEW seen,
           req'[c] = Committing("commit_mark", r, listed, id, seen),
           runs'[r].status # "none", \A a \in seen : a.run = r,
           Covers(listed, seen),
           [id |-> id, run |-> r, entries |-> listed] \in manifests'
    PROVE  RequestInv(c)'
<1>1. \E m \in manifests' :
         m.id = id /\ m.run = r /\ Covers(m.entries, seen)
    OBVIOUS
<1> QED
    BY <1>1 DEF RequestInv, CommitInv, Committing, MountSteps

LEMMA UnchangedGrows ==
    ASSUME IInv, UNCHANGED rows,
           \A r \in Runs : runs[r].status # "none" => runs'[r].status # "none",
           manifests \subseteq manifests'
    PROVE  TablesGrow
BY DEF IInv, PositionsContiguous, Contiguous, TablesGrow, IsPrefixOf

LEMMA NextIInv == IInv /\ [Next]_vars => IInv'
<1> SUFFICES ASSUME IInv, [Next]_vars
             PROVE  IInv'
    OBVIOUS
<1>t. TypeOK /\ PositionsContiguous /\ TypeOK'
    BY TypeStep DEF IInv
<1>1. ASSUME NEW c \in Clients, NEW r \in Runs, StartRun(c, r)
      PROVE  IInv'
    <2>1. /\ req' = [req EXCEPT ![c] = Free("ok")]
          /\ UNCHANGED <<rows, manifests, acked>>
          /\ runs' = [runs EXCEPT ![r].status = "open"]
        BY <1>1 DEF StartRun, Answer, Becomes
    <2>2. \A x \in Runs : /\ runs[x].status # "none" => runs'[x].status # "none"
                          /\ runs'[x].status = "committed" =>
                                runs'[x] = runs[x]
        BY <1>t, <2>1 DEF TypeOK
    <2>3. \A d \in Clients : RequestInv(d)'
        <3>1. TablesGrow
            BY <2>1, <2>2, UnchangedGrows
        <3>2. \A d \in Clients : d # c => req'[d] = req[d]
            BY <1>t, <2>1 DEF TypeOK
        <3>3. req'[c] = Free("ok")
            BY <1>t, <2>1 DEF TypeOK
        <3> QED
            BY <1>t, <3>1, <3>2, <3>3, RequestKept, FreeKept DEF IInv
    <2>4. CommittedNamesItsManifest'
        BY <2>1, <2>2 DEF IInv, CommittedNamesItsManifest
    <2> QED
        BY <1>t, <2>1, <2>3, <2>4
        DEF IInv, PositionsContiguous, AckedMountStaged, OneManifestPerRun,
            ManifestIsStagedPrefix
<1>2. ASSUME NEW c \in Clients, NEW r \in Runs, StartRunTwice(c, r)
      PROVE  IInv'
    BY <1>t, <1>2, AnswerIInv DEF StartRunTwice
<1>3. ASSUME NEW c \in Clients, NEW r \in Runs, AskMount(c, r)
      PROVE  IInv'
    BY <1>t, <1>3, BecomesIInv
    DEF AskMount, Mounting, MountInv, MountSteps, CommitSteps
<1>4. ASSUME NEW c \in Clients, NEW r \in Runs, CommitCheck(c, r)
      PROVE  IInv'
    <2> DEFINE q == Committing("commit_list", r, NoRows, None,
                               {a \in acked : a.run = r})
    <2>1. CASE runs[r].status = "open" /\ Becomes(c, q)
        <3>1. q.pc = "commit_list" /\ CommitInv(q)
            BY <2>1 DEF Committing, CommitInv
        <3> QED
            BY <1>t, <1>4, <2>1, <3>1, BecomesIInv
            DEF CommitCheck, MountSteps, CommitSteps
    <2>2. CASE \E a \in {"not_found", "conflict"} : Answer(c, a)
        BY <1>t, <1>4, <2>2, AnswerIInv DEF CommitCheck
    <2> QED
        BY <1>4, <2>1, <2>2 DEF CommitCheck
<1>5. ASSUME NEW c \in Clients, MountCheck(c)
      PROVE  IInv'
    <2> DEFINE q == Mounting("mount_resolve", req[c].run, req[c].told, None, 0)
    <2>1. CASE runs[req[c].run].status = "open" /\ Becomes(c, q)
        <3>1. q.pc = "mount_resolve" /\ MountInv(q)
            BY <2>1 DEF Mounting, MountInv
        <3> QED
            BY <1>t, <1>5, <2>1, <3>1, BecomesIInv
            DEF MountCheck, MountSteps, CommitSteps
    <2>2. CASE \E a \in {"not_found", "conflict"} : Answer(c, a)
        BY <1>t, <1>5, <2>2, AnswerIInv DEF MountCheck
    <2> QED
        BY <1>5, <2>1, <2>2 DEF MountCheck
<1>6. ASSUME NEW c \in Clients, MountResolve(c)
      PROVE  IInv'
    <2>1. runs[req[c].run].status # "none"
        BY <1>6 DEF IInv, MountResolve, RequestInv, MountInv, MountSteps
    <2>2. ASSUME NEW e \in Entries,
                 Becomes(c, Mounting("mount_list", req[c].run, req[c].told,
                                     e, 0))
          PROVE  IInv'
        BY <1>t, <1>6, <2>1, <2>2, BecomesIInv
        DEF MountResolve, Mounting, MountInv, MountSteps, CommitSteps
    <2>3. CASE Answer(c, "failed")
        BY <1>t, <1>6, <2>3, AnswerIInv DEF MountResolve
    <2> QED
        BY <1>6, <2>2, <2>3 DEF MountResolve
<1>7. ASSUME NEW c \in Clients, MountList(c)
      PROVE  IInv'
    <2> DEFINE q == Mounting("mount_append", req[c].run, req[c].told,
                             req[c].entry, NextPosition(req[c].run))
    <2>1. runs[req[c].run].status # "none" /\ req[c].run \in Runs
        BY <1>7, <1>t, StepType
        DEF IInv, MountList, RequestInv, MountInv, MountSteps, MountRequests
    <2>2. Count(rows[req[c].run]) \in Nat
        BY <1>t, <2>1 DEF PositionsContiguous, Contiguous
    <2>3. q.pc = "mount_append" /\ MountInv(q)
        BY <2>1, <2>2 DEF Mounting, MountInv, NextPosition
    <2> QED
        BY <1>t, <1>7, <2>3, BecomesIInv DEF MountList, MountSteps, CommitSteps
<1>8. ASSUME NEW c \in Clients, MountAppend(c)
      PROVE  IInv'
    <2> DEFINE q == req[c]
    <2>1. CASE PositionTaken(q.run, q.at)
        BY <1>t, <1>8, <2>1, AnswerIInv DEF MountAppend
    <2>2. CASE ~PositionTaken(q.run, q.at)
        <3> DEFINE z == Mounting("mount_answer", q.run, q.told, q.entry, q.at)
                   t == [p \in DOMAIN rows[q.run] \cup {q.at} |->
                            IF p = q.at THEN q.entry ELSE rows[q.run][p]]
        <3>1. q.run \in Runs /\ q.at \in Nat /\ runs[q.run].status # "none"
              /\ q.at <= Count(rows[q.run])
            BY <1>t, <1>8, StepType
            DEF IInv, MountAppend, RequestInv, MountInv, MountRequests,
                MountSteps
        <3>2. q.at = Count(rows[q.run])
            BY <1>t, <2>2, <3>1
            DEF PositionTaken, PositionsContiguous, Contiguous
        <3>3. /\ rows' = [rows EXCEPT ![q.run] = t]
              /\ Becomes(c, z)
              /\ UNCHANGED <<runs, manifests, acked>>
            BY <1>8, <2>2 DEF MountAppend
        <3>4. /\ \A x \in Runs : /\ IsPrefixOf(rows[x], rows'[x])
                                 /\ Contiguous(rows'[x])
                                 /\ Count(rows[x]) <= Count(rows'[x])
              /\ q.at \in DOMAIN rows'[q.run]
              /\ rows'[q.run][q.at] = q.entry
            <4>1. /\ \A x \in Runs : x # q.run => rows'[x] = rows[x]
                  /\ rows'[q.run] = t
                BY <1>t, <3>1, <3>3 DEF TypeOK
            <4>2. /\ DOMAIN t = DOMAIN rows[q.run] \cup {q.at}
                  /\ \A p \in DOMAIN rows[q.run] :
                        p # q.at => t[p] = rows[q.run][p]
                  /\ t[q.at] = q.entry
                OBVIOUS
            <4> HIDE DEF t
            <4> QED
                BY <3>1, <3>2, <4>1, <4>2, AppendGrows
        <3>5. TablesGrow
            BY <1>t, <3>3, <3>4 DEF PositionsContiguous, Contiguous, TablesGrow
        <3>6. ASSUME NEW d \in Clients
              PROVE  RequestInv(d)'
            <4>1. CASE d = c
                <5>1. req'[d] = z
                    BY <1>t, <3>3, <4>1 DEF Becomes, TypeOK
                <5>2. runs'[q.run].status # "none"
                    BY <3>1, <3>3
                <5> QED
                    BY <3>4, <5>1, <5>2, AppendedInv
            <4>2. CASE d # c
                <5>1. req'[d] = req[d]
                    BY <1>t, <3>3, <4>2 DEF Becomes, TypeOK
                <5> QED
                    BY <1>t, <3>5, <5>1, RequestKept DEF IInv
            <4> QED
                BY <4>1, <4>2
        <3>7. AckedMountStaged' /\ ManifestIsStagedPrefix'
            <4>1. \A x \in Runs : \A p \in DOMAIN rows[x] :
                     p \in DOMAIN rows'[x] /\ rows'[x][p] = rows[x][p]
                BY <3>4 DEF IsPrefixOf
            <4>2. acked' = acked /\ \A a \in acked : a.run \in Runs
                BY <1>t, <3>3 DEF TypeOK, IsAck
            <4>3. manifests' = manifests /\ \A m \in manifests : m.run \in Runs
                BY <1>t, <3>3 DEF TypeOK
            <4>4. AckedMountStaged'
                BY <4>1, <4>2 DEF IInv, AckedMountStaged
            <4>5. ManifestIsStagedPrefix'
                BY <4>1, <4>3 DEF IInv, ManifestIsStagedPrefix, IsPrefixOf
            <4> QED
                BY <4>4, <4>5
        <3> QED
            BY <1>t, <3>3, <3>4, <3>6, <3>7
            DEF IInv, PositionsContiguous, OneManifestPerRun,
                CommittedNamesItsManifest
    <2> QED
        BY <2>1, <2>2
<1>9. ASSUME NEW c \in Clients, MountAnswer(c)
      PROVE  IInv'
    <2>1. /\ req' = [req EXCEPT ![c] = Free("ok")]
          /\ UNCHANGED <<runs, rows, manifests>>
          /\ acked' = acked \cup {[run |-> req[c].run, at |-> req[c].at,
                                   told |-> req[c].told,
                                   entry |-> req[c].entry]}
        BY <1>9 DEF MountAnswer, Answer, Becomes
    <2>2. AckedMountStaged'
        BY <1>9, <2>1
        DEF IInv, AckedMountStaged, MountAnswer, RequestInv, MountInv,
            MountSteps
    <2>3. \A d \in Clients : RequestInv(d)'
        BY <1>t, <2>1
        DEF IInv, TypeOK, RequestInv, MountInv, CommitInv, Free, MountSteps,
            CommitSteps
    <2> QED
        BY <1>t, <2>1, <2>2, <2>3
        DEF IInv, PositionsContiguous, OneManifestPerRun,
            CommittedNamesItsManifest, ManifestIsStagedPrefix
<1>10. ASSUME NEW c \in Clients, CommitList(c)
       PROVE  IInv'
    <2> DEFINE q == Committing("commit_create", req[c].run,
                               ListMounts(req[c].run), None, req[c].seen)
    <2>1. CommitInv(req[c]) /\ req[c].run \in Runs /\ req[c].seen \subseteq acked
        BY <1>t, <1>10, StepType DEF IInv, CommitList, RequestInv, CommitSteps
    <2>2. q.pc = "commit_create" /\ CommitInv(q)
        BY <1>t, <2>1
        DEF IInv, CommitInv, Committing, ListMounts, PositionsContiguous,
            IsPrefixOf, Covers, AckedMountStaged
    <2> QED
        BY <1>t, <1>10, <2>2, BecomesIInv DEF CommitList, MountSteps, CommitSteps
<1>11. ASSUME NEW c \in Clients, CommitCreate(c)
       PROVE  IInv'
    <2> DEFINE q == req[c]
    <2>1. CASE HasManifest(q.run)
        BY <1>t, <1>11, <2>1, AnswerIInv DEF CommitCreate
    <2>2. CASE ~HasManifest(q.run)
        <3>1. PICK id \in ManifestIds :
                 /\ \A m \in manifests : m.id # id
                 /\ manifests' = manifests \cup {[id |-> id, run |-> q.run,
                                                  entries |-> q.listed]}
                 /\ req' = [req EXCEPT ![c] = Committing("commit_mark", q.run,
                                                  q.listed, id, q.seen)]
            BY <1>11, <2>2 DEF CommitCreate, Becomes
        <3>2. CommitInv(q) /\ q.pc = "commit_create" /\ q.run \in Runs
            BY <1>t, <1>11, StepType
            DEF IInv, CommitCreate, RequestInv, CommitSteps
        <3>3. UNCHANGED <<runs, rows, acked>>
            BY <1>11 DEF CommitCreate
        <3>4. ASSUME NEW d \in Clients
              PROVE  RequestInv(d)'
            <4>1. CASE d = c
                <5>1. req'[d] = Committing("commit_mark", q.run, q.listed, id,
                                           q.seen)
                    BY <1>t, <3>1, <4>1 DEF TypeOK
                <5>2. /\ runs'[q.run].status # "none"
                      /\ \A a \in q.seen : a.run = q.run
                      /\ Covers(q.listed, q.seen)
                    BY <3>2, <3>3 DEF CommitInv
                <5>3. [id |-> id, run |-> q.run, entries |-> q.listed]
                         \in manifests'
                    BY <3>1
                <5> QED
                    BY <5>1, <5>2, <5>3, CreatedInv
            <4>2. CASE d # c
                <5>1. TablesGrow
                    BY <3>1, <3>3, UnchangedGrows
                <5>2. req'[d] = req[d]
                    BY <1>t, <3>1, <4>2 DEF TypeOK
                <5> QED
                    BY <1>t, <5>1, <5>2, RequestKept DEF IInv
            <4> QED
                BY <4>1, <4>2
        <3>5. OneManifestPerRun'
            BY <2>2, <3>1 DEF IInv, OneManifestPerRun, HasManifest
        <3>6. CommittedNamesItsManifest'
            BY <3>1, <3>3 DEF IInv, CommittedNamesItsManifest
        <3>7. ManifestIsStagedPrefix' /\ PositionsContiguous'
            BY <3>1, <3>2, <3>3
            DEF IInv, ManifestIsStagedPrefix, PositionsContiguous, CommitInv
        <3> QED
            BY <1>t, <3>3, <3>4, <3>5, <3>6, <3>7 DEF IInv, AckedMountStaged
    <2> QED
        BY <2>1, <2>2
<1>12. ASSUME NEW c \in Clients, CommitMark(c)
       PROVE  IInv'
    <2> DEFINE q == req[c]
    <2>1. /\ req' = [req EXCEPT ![c] = Free("ok")]
          /\ UNCHANGED <<rows, manifests, acked>>
          /\ runs' = [runs EXCEPT ![q.run] =
                         [status |-> "committed", manifest |-> q.id]]
        BY <1>12 DEF CommitMark, Answer, Becomes
    <2>2. q.run \in Runs /\ \E m \in manifests : m.id = q.id /\ m.run = q.run
        BY <1>t, <1>12, StepType
        DEF IInv, CommitMark, RequestInv, CommitInv, CommitSteps
    <2>3. CommittedNamesItsManifest'
        BY <1>t, <2>1, <2>2 DEF IInv, CommittedNamesItsManifest, TypeOK
    <2>4. \A x \in Runs : runs[x].status # "none" => runs'[x].status # "none"
        BY <1>t, <2>1 DEF TypeOK
    <2>5. \A d \in Clients : RequestInv(d)'
        <3>1. TablesGrow
            BY <2>1, <2>4, UnchangedGrows
        <3>2. \A d \in Clients : d # c => req'[d] = req[d]
            BY <1>t, <2>1 DEF TypeOK
        <3>3. req'[c] = Free("ok")
            BY <1>t, <2>1 DEF TypeOK
        <3> QED
            BY <1>t, <3>1, <3>2, <3>3, RequestKept, FreeKept DEF IInv
    <2> QED
        BY <1>t, <2>1, <2>3, <2>5
        DEF IInv, PositionsContiguous, AckedMountStaged, OneManifestPerRun,
            ManifestIsStagedPrefix
<1>13. ASSUME NEW c \in Clients, Fail(c)
       PROVE  IInv'
    BY <1>t, <1>13, AnswerIInv DEF Fail
<1>14. CASE UNCHANGED vars
    BY <1>t, <1>14
    DEF vars, IInv, PositionsContiguous, AckedMountStaged, OneManifestPerRun,
        CommittedNamesItsManifest, ManifestIsStagedPrefix, RequestInv,
        MountInv, CommitInv
<1> QED
    BY <1>1, <1>2, <1>3, <1>4, <1>5, <1>6, <1>7, <1>8, <1>9, <1>10, <1>11,
       <1>12, <1>13, <1>14
    DEF Next, Ask, Step
-----------------------------------------------------------------------------
(* What follows from the invariant *)

\* The invariant holds in every state of every behaviour, for any number of
\* clients, runs and rows.
THEOREM Invariance == Spec => []IInv
BY InitIInv, NextIInv, PTL DEF Spec

\* Every reachable state is well typed (the Go locals of the two handlers
\* included).
THEOREM TypeCorrect == Spec => []TypeOK
<1>1. IInv => TypeOK
    BY DEF IInv
<1> QED
    BY <1>1, Invariance, PTL

\* Racing mounts leave the rows of a run, and so the entries of its manifest,
\* numbered 0 .. n-1.
THEOREM Positions == Spec => []PositionsContiguous
<1>1. IInv => PositionsContiguous
    BY DEF IInv
<1> QED
    BY <1>1, Invariance, PTL

\* A mount answered with success keeps its row, whatever mounts race with it.
THEOREM Staged == Spec => []AckedMountStaged
<1>1. IInv => AckedMountStaged
    BY DEF IInv
<1> QED
    BY <1>1, Invariance, PTL

\* Racing and dying commits leave a run with at most one manifest.
THEOREM OneManifest == Spec => []OneManifestPerRun
<1>1. IInv => OneManifestPerRun
    BY DEF IInv
<1> QED
    BY <1>1, Invariance, PTL

\* A committed run names its own manifest.
THEOREM Named == Spec => []CommittedNamesItsManifest
<1>1. IInv => CommittedNamesItsManifest
    BY DEF IInv
<1> QED
    BY <1>1, Invariance, PTL

\* A manifest holds a prefix of what its run staged.
THEOREM StagedPrefix == Spec => []ManifestIsStagedPrefix
<1>1. IInv => ManifestIsStagedPrefix
    BY DEF IInv
<1> QED
    BY <1>1, Invariance, PTL

\* A manifest holds every mount answered before the commit that created it
\* was asked.
THEOREM Covered == Spec => []CommitCoversAcked
<1>1. IInv => CommitCoversAcked
    <2> SUFFICES ASSUME IInv, NEW c \in Clients, NEW m \in manifests,
                        req[c].pc = "commit_mark", m.id = req[c].id
                 PROVE  Covers(m.entries, req[c].seen)
        BY DEF CommitCoversAcked
    <2>1. CommitInv(req[c])
        BY DEF IInv, RequestInv, CommitSteps
    <2>2. PICK w \in manifests :
             w.id = req[c].id /\ Covers(w.entries, req[c].seen)
        BY <2>1 DEF CommitInv
    <2>3. w = m
        BY <2>2 DEF IInv, OneManifestPerRun
    <2> QED
        BY <2>2, <2>3
<1> QED
    BY <1>1, Invariance, PTL

\* A second manifest of a run cannot be, so a commit that marks the run marks
\* it with the manifest that is there: no step alters what is sealed.
THEOREM Sealed == Spec => SealedForever
<1> DEFINE Kept == /\ manifests \subseteq manifests'
                   /\ \A r \in Runs :
                         runs[r].status = "committed" => runs'[r] = runs[r]
<1>1. IInv /\ [Next]_vars => [Kept]_vars
    <2> SUFFICES ASSUME IInv, NEW c \in Clients,
                        Ask(c) \/ Step(c) \/ Fail(c)
                 PROVE  Kept
        BY DEF Next
    <2>t. TypeOK
        BY DEF IInv
    <2>1. CASE CommitMark(c)
        <3>1. /\ req[c].run \in Runs
              /\ \E m \in manifests : m.id = req[c].id /\ m.run = req[c].run
            BY <2>t, <2>1, StepType
            DEF IInv, CommitMark, RequestInv, CommitInv, CommitSteps
        <3>2. /\ manifests' = manifests
              /\ runs' = [runs EXCEPT ![req[c].run] =
                             [status |-> "committed", manifest |-> req[c].id]]
            BY <2>1 DEF CommitMark
        <3>3. runs[req[c].run].status = "committed" =>
                 runs[req[c].run] = [status |-> "committed",
                                     manifest |-> req[c].id]
            BY <2>t, <3>1
            DEF IInv, CommittedNamesItsManifest, OneManifestPerRun, TypeOK
        <3> QED
            BY <2>t, <3>1, <3>2, <3>3 DEF TypeOK
    <2>2. CASE ~CommitMark(c)
        BY <2>t, <2>2
        DEF TypeOK, Ask, Step, Fail, StartRun, StartRunTwice, AskMount,
            CommitCheck, MountCheck, MountResolve, MountList, MountAppend,
            MountAnswer, CommitList, CommitCreate
    <2> QED
        BY <2>1, <2>2
<1> QED
    BY <1>1, Invariance, PTL DEF Spec, SealedForever

-----------------------------------------------------------------------------
(* The told position *)

LEMMA CountGrows ==
    ASSUME IInv, [Next]_vars, NEW r \in Runs
    PROVE  /\ Count(rows[r]) \in Nat /\ Count(rows'[r]) \in Nat
           /\ Count(rows[r]) <= Count(rows'[r])
<1>1. IInv'
    BY NextIInv
<1>2. DOMAIN rows[r] \subseteq DOMAIN rows'[r]
  <2>1. CASE \E c \in Clients : MountAppend(c)
    <3>1. PICK c \in Clients : MountAppend(c)
        BY <2>1
    <3> DEFINE q == req[c]
               t == [p \in DOMAIN rows[q.run] \cup {q.at} |->
                        IF p = q.at THEN q.entry ELSE rows[q.run][p]]
    <3>2. rows' = rows \/ rows' = [rows EXCEPT ![q.run] = t]
        BY <3>1 DEF MountAppend
    <3>3. DOMAIN rows[q.run] \subseteq DOMAIN t
        OBVIOUS
    <3>4. rows = [x \in Runs |-> rows[x]]
        BY DEF IInv, TypeOK
    <3> HIDE DEF t
    <3> QED
        BY <3>2, <3>3, <3>4
  <2>2. CASE ~\E c \in Clients : MountAppend(c)
      BY <2>2 DEF Next, Ask, Step, Fail, vars, StartRun, StartRunTwice, AskMount,
         CommitCheck, MountCheck, MountResolve, MountList, MountAnswer, CommitList,
         CommitCreate, CommitMark
  <2> QED
      BY <2>1, <2>2
<1> DEFINE m == Count(rows[r])
           n == Count(rows'[r])
<1>3. m \in Nat /\ DOMAIN rows[r] = 0 .. m - 1
    BY DEF IInv, PositionsContiguous, Contiguous
<1>4. n \in Nat /\ DOMAIN rows'[r] = 0 .. n - 1
    BY <1>1 DEF IInv, PositionsContiguous, Contiguous, Count
<1> HIDE DEF m, n
<1>5. m <= n
  <2>1. CASE m = 0
      BY <2>1, <1>4
  <2>2. CASE m # 0
    <3>1. m - 1 \in 0 .. m - 1
        BY <2>2, <1>3
    <3>2. m - 1 \in 0 .. n - 1
        BY <3>1, <1>2, <1>3, <1>4
    <3> QED
        BY <3>2, <1>3, <1>4
  <2> QED
      BY <2>1, <2>2
<1> QED
    BY <1>3, <1>4, <1>5 DEF m, n

\* A mount's handler counted no more rows than there are, and than the
\* position at which the mount inserts.
ToldInv(q) ==
    /\ q.pc \in {"mount_check", "mount_resolve", "mount_list"} =>
          q.told <= Count(rows[q.run])
    /\ q.pc \in {"mount_append", "mount_answer"} => q.told <= q.at

Told == ToldIsNotLater /\ \A c \in Clients : ToldInv(req[c])

LEMMA ToldKept ==
    ASSUME IInv, Told, [Next]_vars, NEW d \in Clients, req'[d] = req[d]
    PROVE  ToldInv(req[d])'
<1> DEFINE q == req[d]
<1>1. TypeOK /\ ToldInv(q)
    BY DEF IInv, Told
<1>2. q.pc \in MountSteps => q.run \in Runs /\ q.told \in Nat
    BY <1>1, StepType DEF MountRequests
<1>3. CASE q.pc \in {"mount_check", "mount_resolve", "mount_list"}
  <2>1. q.run \in Runs /\ q.told \in Nat /\ q.told <= Count(rows[q.run])
      BY <1>1, <1>2, <1>3 DEF ToldInv, MountSteps
  <2>2. q.told <= Count(rows'[q.run])
      BY <2>1, CountGrows
  <2> QED
      BY <1>3, <2>2 DEF ToldInv, Count
<1>4. CASE q.pc \notin {"mount_check", "mount_resolve", "mount_list"}
    BY <1>1, <1>4 DEF ToldInv
<1> QED
    BY <1>3, <1>4

LEMMA ToldBecomes ==
    ASSUME IInv, Told, [Next]_vars, NEW c \in Clients, NEW p, Becomes(c, p),
           acked' = acked, ToldInv(req[c])'
    PROVE  Told'
<1>1. \A d \in Clients : d # c => req'[d] = req[d]
    BY DEF IInv, TypeOK, Becomes
<1>2. \A d \in Clients : ToldInv(req[d])'
    BY <1>1, ToldKept
<1> QED
    BY <1>2 DEF Told, ToldIsNotLater

LEMMA ToldFree ==
    ASSUME IInv, Told, [Next]_vars, NEW c \in Clients, NEW a, Answer(c, a),
           acked' = acked
    PROVE  Told'
<1>1. req'[c] = Free(a)
    BY DEF IInv, TypeOK, Answer, Becomes
<1>2. ToldInv(req[c])'
    BY <1>1 DEF ToldInv, Free
<1> QED
    BY <1>2, ToldBecomes DEF Answer

\* The step of a mount that leaves it at pc, told what it was told.
LEMMA ToldMoves ==
    ASSUME IInv, Told, [Next]_vars, NEW c \in Clients, NEW pc, NEW r \in Runs,
           NEW told, NEW e, NEW at, Becomes(c, Mounting(pc, r, told, e, at)),
           acked' = acked, told \in Nat,
           \/ pc \in {"mount_resolve", "mount_list", "mount_check"}
              /\ told <= Count(rows[r])
           \/ pc \in {"mount_append", "mount_answer"} /\ told <= at
    PROVE  Told'
<1>1. req'[c] = Mounting(pc, r, told, e, at)
    BY DEF IInv, TypeOK, Becomes
<1>2. told <= Count(rows[r]) => told <= Count(rows'[r])
    BY CountGrows
<1>3. ToldInv(req[c])'
    BY <1>1, <1>2 DEF ToldInv, Mounting, Count
<1> QED
    BY <1>3, ToldBecomes

LEMMA ToldStep == IInv /\ Told /\ [Next]_vars => Told'
<1> SUFFICES ASSUME IInv, Told, [Next]_vars PROVE Told'
    OBVIOUS
<1>t. TypeOK
    BY DEF IInv
<1>1. ASSUME NEW c \in Clients, Ask(c) PROVE Told'
  <2>1. ASSUME NEW r \in Runs, AskMount(c, r) PROVE Told'
    <3>1. NextPosition(r) = Count(rows[r]) /\ Count(rows[r]) \in Nat
        BY CountGrows DEF NextPosition
    <3>2. Becomes(c, Mounting("mount_check", r, NextPosition(r), None, 0)) /\ acked' = acked
        BY <2>1 DEF AskMount
    <3> QED
        BY <3>1, <3>2, ToldMoves
  <2>2. ASSUME NEW r \in Runs, CommitCheck(c, r) PROVE Told'
    <3> DEFINE q == Committing("commit_list", r, NoRows, None, {a \in acked : a.run = r})
    <3>1. CASE Becomes(c, q)
      <4>1. req'[c] = q
          BY <3>1 DEF IInv, TypeOK, Becomes
      <4>2. ToldInv(req[c])'
          BY <4>1 DEF ToldInv, Committing
      <4> QED
          BY <2>2, <3>1, <4>2, ToldBecomes DEF CommitCheck
    <3>2. CASE \E a \in {"not_found", "conflict"} : Answer(c, a)
        BY <2>2, <3>2, ToldFree DEF CommitCheck
    <3> QED
        BY <2>2, <3>1, <3>2 DEF CommitCheck
  <2> QED
      BY <1>1, <2>1, <2>2, ToldFree DEF Ask, StartRun, StartRunTwice
<1>2. ASSUME NEW c \in Clients, Step(c) PROVE Told'
  <2> DEFINE q == req[c]
  <2>1. ToldInv(q) /\ (q.pc \in MountSteps =>
            q.run \in Runs /\ q.told \in Nat /\ q.at \in Nat)
      BY <1>t, StepType DEF Told, MountRequests
  <2>2. CASE MountCheck(c)
    <3>1. q.pc = "mount_check" /\ acked' = acked
        BY <2>2 DEF MountCheck
    <3>2. q.told <= Count(rows[q.run]) /\ q.run \in Runs /\ q.told \in Nat
        BY <2>1, <3>1 DEF ToldInv, MountSteps
    <3>3. \/ \E a \in {"not_found", "conflict"} : Answer(c, a)
          \/ Becomes(c, Mounting("mount_resolve", q.run, q.told, None, 0))
        BY <2>2 DEF MountCheck
    <3> QED
        BY <3>1, <3>2, <3>3, ToldFree, ToldMoves
  <2>3. CASE MountResolve(c)
    <3>1. q.pc = "mount_resolve" /\ acked' = acked
        BY <2>3 DEF MountResolve
    <3>2. q.told <= Count(rows[q.run]) /\ q.run \in Runs /\ q.told \in Nat
        BY <2>1, <3>1 DEF ToldInv, MountSteps
    <3>3. \/ Answer(c, "failed")
          \/ \E e \in Entries : Becomes(c, Mounting("mount_list", q.run, q.told, e, 0))
        BY <2>3 DEF MountResolve
    <3> QED
        BY <3>1, <3>2, <3>3, ToldFree, ToldMoves
  <2>4. CASE MountList(c)
    <3>1. q.pc = "mount_list" /\ acked' = acked
        BY <2>4 DEF MountList
    <3>2. q.told <= Count(rows[q.run]) /\ q.run \in Runs /\ q.told \in Nat
        BY <2>1, <3>1 DEF ToldInv, MountSteps
    <3>3. Becomes(c, Mounting("mount_append", q.run, q.told, q.entry, Count(rows[q.run])))
        BY <2>4 DEF MountList, NextPosition
    <3> QED
        BY <3>1, <3>2, <3>3, ToldMoves
  <2>5. CASE MountAppend(c)
    <3>1. q.pc = "mount_append" /\ acked' = acked
        BY <2>5 DEF MountAppend
    <3>2. q.told <= q.at /\ q.run \in Runs /\ q.told \in Nat
        BY <2>1, <3>1 DEF ToldInv, MountSteps
    <3>3. \/ Answer(c, "failed")
          \/ Becomes(c, Mounting("mount_answer", q.run, q.told, q.entry, q.at))
        BY <2>5 DEF MountAppend
    <3> QED
        BY <3>1, <3>2, <3>3, ToldFree, ToldMoves
  <2>6. CASE MountAnswer(c)
    <3>1. q.pc = "mount_answer" /\ req' = [req EXCEPT ![c] = Free("ok")]
          /\ acked' = acked \cup {[run |-> q.run, at |-> q.at, told |-> q.told,
                                   entry |-> q.entry]}
        BY <2>6 DEF MountAnswer, Answer, Becomes
    <3>2. q.told <= q.at
        BY <2>1, <3>1 DEF ToldInv
    <3>3. ToldIsNotLater'
        BY <3>1, <3>2 DEF Told, ToldIsNotLater
    <3>4. req'[c] = Free("ok") /\ \A d \in Clients : d # c => req'[d] = req[d]
        BY <1>t, <3>1 DEF TypeOK
    <3>5. ToldInv(req[c])'
        BY <3>4 DEF ToldInv, Free
    <3>6. \A d \in Clients : ToldInv(req[d])'
        BY <3>4, <3>5, ToldKept
    <3> QED
        BY <3>3, <3>6 DEF Told
  <2>7. CASE CommitList(c)
    <3> DEFINE p == Committing("commit_create", q.run, ListMounts(q.run), None, q.seen)
    <3>1. Becomes(c, p) /\ acked' = acked
        BY <2>7 DEF CommitList
    <3>2. req'[c] = p
        BY <1>t, <3>1 DEF TypeOK, Becomes
    <3>3. ToldInv(req[c])'
        BY <3>2 DEF ToldInv, Committing
    <3> QED
        BY <3>1, <3>3, ToldBecomes
  <2>8. CASE CommitCreate(c)
    <3>1. acked' = acked
        BY <2>8 DEF CommitCreate
    <3>2. CASE Answer(c, "failed")
        BY <3>1, <3>2, ToldFree
    <3>3. ASSUME NEW id \in ManifestIds,
                 Becomes(c, Committing("commit_mark", q.run, q.listed, id, q.seen))
          PROVE  Told'
      <4> DEFINE p == Committing("commit_mark", q.run, q.listed, id, q.seen)
      <4>1. req'[c] = p
          BY <1>t, <3>3 DEF TypeOK, Becomes
      <4>2. ToldInv(req[c])'
          BY <4>1 DEF ToldInv, Committing
      <4> QED
          BY <3>1, <3>3, <4>2, ToldBecomes
    <3> QED
        BY <2>8, <3>2, <3>3 DEF CommitCreate
  <2>9. CASE CommitMark(c)
      BY <2>9, ToldFree DEF CommitMark
  <2> QED
      BY <1>2, <2>2, <2>3, <2>4, <2>5, <2>6, <2>7, <2>8, <2>9 DEF Step
<1>3. ASSUME NEW c \in Clients, Fail(c) PROVE Told'
    BY <1>3, ToldFree DEF Fail
<1>4. CASE UNCHANGED vars
  <2>1. \A d \in Clients : ToldInv(req[d])'
      BY <1>4, ToldKept DEF vars
  <2> QED
      BY <1>4, <2>1 DEF Told, ToldIsNotLater, vars
<1> QED
    BY <1>1, <1>2, <1>3, <1>4 DEF Next

\* The position a mount is answered with, counted before its resolve, is never
\* one after the row it inserted (handleMount, Builder.Mount).
THEOREM ToldFirst == Spec => []ToldIsNotLater
<1>1. Init => Told
    BY DEF Init, Told, ToldIsNotLater, ToldInv, Free
<1>2. IInv /\ Told /\ [Next]_vars => Told'
    BY ToldStep
<1>3. Told => ToldIsNotLater
    BY DEF Told
<1> QED
    BY <1>1, <1>2, <1>3, Invariance, PTL DEF Spec

-----------------------------------------------------------------------------
(* The refinement *)

LEMMA InitImplements == Init => Ledger!Init
<1> SUFFICES ASSUME Init PROVE Ledger!Init
    OBVIOUS
<1>1. Ledger!Prefix(<<>>, 0) = NoRows
    BY DEF Ledger!Prefix, NoRows
<1>2. [r \in Runs |-> runs[r].status] = [r \in Runs |-> "none"]
    BY DEF Init
<1>3. \A r \in Runs : {m.entries : m \in {x \in manifests : x.run = r}} = {}
    BY DEF Init
<1> QED
    BY <1>1, <1>2, <1>3 DEF Init, Ledger!Init

\* A row inserted is an entry staged: nothing is inserted but at the end.
LEMMA AppendStages ==
    ASSUME IInv, NEW c \in Clients, MountAppend(c), ~PositionTaken(req[c].run, req[c].at)
    PROVE  Ledger!Next
<1> DEFINE q == req[c]
           n == Count(rows[q.run])
<1>1. TypeOK /\ q.pc = "mount_append" /\ MountInv(q)
    BY DEF IInv, MountAppend, RequestInv, MountSteps
<1>2. q.run \in Runs /\ q.entry \in Entries /\ q.at \in Nat
    BY <1>1, StepType DEF MountRequests, MountSteps
<1>3. runs[q.run].status # "none" /\ q.at <= n
    BY <1>1 DEF MountInv
<1>4. n \in Nat /\ DOMAIN rows[q.run] = 0 .. n - 1
    BY <1>2 DEF IInv, PositionsContiguous, Contiguous
<1>5. q.at = n
    BY <1>2, <1>3, <1>4 DEF PositionTaken
<1>6. DOMAIN rows[q.run] \cup {n} = 0 .. n
    BY <1>4
<1>7. /\ rows' = [rows EXCEPT ![q.run] =
                     [p \in 0 .. n |-> IF p = n THEN q.entry ELSE rows[q.run][p]]]
      /\ runs' = runs /\ manifests' = manifests
  <2>1. rows' = [rows EXCEPT ![q.run] =
                    [p \in DOMAIN rows[q.run] \cup {q.at} |->
                        IF p = q.at THEN q.entry ELSE rows[q.run][p]]]
      BY DEF MountAppend
  <2> QED
      BY <1>5, <1>6, <2>1 DEF MountAppend
<1>8. Ledger!Length(rows[q.run]) = n
    BY DEF Ledger!Length, Count, Cardinality, Ledger!Cardinality
<1>9. [r \in Runs |-> runs[r].status][q.run] # "none"
    BY <1>2, <1>3
<1> HIDE DEF n
<1>10. Ledger!Stage(q.run, q.entry)
    BY <1>7, <1>8, <1>9 DEF Ledger!Stage
<1> QED
    BY <1>2, <1>10 DEF Ledger!Next

\* A manifest created is a prefix sealed, of a run that is open and has none.
LEMMA CreateSeals ==
    ASSUME IInv, NEW c \in Clients, CommitCreate(c), ~HasManifest(req[c].run)
    PROVE  Ledger!Next
<1> DEFINE q == req[c]
           sealed == [r \in Runs |-> {m.entries : m \in {x \in manifests : x.run = r}}]
<1>1. TypeOK /\ q.pc = "commit_create" /\ CommitInv(q) /\ q.run \in Runs /\ IsTable(q.listed)
    BY StepType DEF IInv, CommitCreate, RequestInv, CommitSteps
<1>2. PICK id \in ManifestIds :
          manifests' = manifests \cup {[id |-> id, run |-> q.run, entries |-> q.listed]}
    BY DEF CommitCreate
<1>3. runs' = runs /\ rows' = rows
    BY DEF CommitCreate
<1>4. runs[q.run].status = "open"
  <2>1. runs[q.run].status \in Statuses
      BY <1>1 DEF TypeOK
  <2>2. runs[q.run].status # "none"
      BY <1>1 DEF CommitInv
  <2>3. runs[q.run].status # "committed"
      BY <1>1 DEF IInv, CommittedNamesItsManifest, HasManifest
  <2> QED
      BY <2>1, <2>2, <2>3 DEF Statuses
<1>5. sealed[q.run] = {}
    BY <1>1 DEF HasManifest
<1>6. \E n \in 0 .. Ledger!Length(rows[q.run]) : q.listed = Ledger!Prefix(rows[q.run], n)
  <2> DEFINE n == Count(q.listed)
             m == Count(rows[q.run])
  <2>1. n \in Nat /\ DOMAIN q.listed = 0 .. n - 1 /\ IsPrefixOf(q.listed, rows[q.run])
      BY <1>1 DEF CommitInv, Contiguous
  <2>2. m \in Nat /\ DOMAIN rows[q.run] = 0 .. m - 1
      BY <1>1 DEF IInv, PositionsContiguous, Contiguous
  <2> HIDE DEF n, m
  <2>3. n <= m
    <3>1. CASE n = 0
        BY <3>1, <2>2
    <3>2. CASE n # 0
      <4>1. n - 1 \in 0 .. n - 1
          BY <3>2, <2>1
      <4>2. n - 1 \in 0 .. m - 1
          BY <4>1, <2>1, <2>2 DEF IsPrefixOf
      <4> QED
          BY <4>2, <2>1, <2>2
    <3> QED
        BY <3>1, <3>2
  <2>4. q.listed = [p \in 0 .. n - 1 |-> q.listed[p]]
      BY <1>1, <2>1 DEF IsTable
  <2>5. \A p \in 0 .. n - 1 : q.listed[p] = rows[q.run][p]
      BY <2>1 DEF IsPrefixOf
  <2>6. q.listed = Ledger!Prefix(rows[q.run], n)
      BY <2>4, <2>5 DEF Ledger!Prefix
  <2>7. Ledger!Length(rows[q.run]) = m
      BY DEF Ledger!Length, m, Count, Cardinality, Ledger!Cardinality
  <2>8. n \in 0 .. m
      BY <2>1, <2>2, <2>3
  <2> QED
      BY <2>6, <2>7, <2>8
<1>7. sealed' = [sealed EXCEPT ![q.run] = {q.listed}]
  <2>1. \A r \in Runs : r # q.run =>
            {m.entries : m \in {x \in manifests' : x.run = r}}
              = {m.entries : m \in {x \in manifests : x.run = r}}
      BY <1>2
  <2>2. {m.entries : m \in {x \in manifests' : x.run = q.run}} = {q.listed}
    <3> DEFINE row == [id |-> id, run |-> q.run, entries |-> q.listed]
    <3>1. row.run = q.run /\ row.entries = q.listed
        OBVIOUS
    <3> HIDE DEF row
    <3>2. manifests' = manifests \cup {row}
        BY <1>2 DEF row
    <3>3. {x \in manifests' : x.run = q.run} = {row}
        BY <3>1, <3>2 DEF HasManifest
    <3>4. {m.entries : m \in {row}} = {row.entries}
        OBVIOUS
    <3> QED
        BY <3>1, <3>3, <3>4
  <2> QED
      BY <1>1, <2>1, <2>2
<1>8. [r \in Runs |-> runs[r].status][q.run] = "open"
    BY <1>1, <1>4
<1> HIDE DEF sealed
<1>9. PICK r \in Runs : r = q.run
    BY <1>1
<1>10. Ledger!Seal(r)
    BY <1>3, <1>5, <1>6, <1>7, <1>8, <1>9 DEF Ledger!Seal, sealed
<1> QED
    BY <1>10 DEF Ledger!Next

\* A run marked is a manifest published.
LEMMA MarkPublishes ==
    ASSUME IInv, NEW c \in Clients, CommitMark(c)
    PROVE  Ledger!Next
<1> DEFINE q == req[c]
<1>1. TypeOK /\ q.pc = "commit_mark" /\ CommitInv(q) /\ q.run \in Runs
    BY StepType DEF IInv, CommitMark, RequestInv, CommitSteps
<1>2. \E m \in manifests : m.run = q.run
    BY <1>1 DEF CommitInv
<1>3. /\ runs' = [runs EXCEPT ![q.run] = [status |-> "committed", manifest |-> q.id]]
      /\ rows' = rows /\ manifests' = manifests
    BY DEF CommitMark
<1>4. {m.entries : m \in {x \in manifests : x.run = q.run}} # {}
    BY <1>2
<1>5. [r \in Runs |-> runs'[r].status]
        = [[r \in Runs |-> runs[r].status] EXCEPT ![q.run] = "committed"]
    BY <1>1, <1>3 DEF TypeOK
<1>6. PICK r \in Runs : r = q.run
    BY <1>1
<1>7. Ledger!Publish(r)
    BY <1>1, <1>3, <1>4, <1>5, <1>6 DEF Ledger!Publish
<1> QED
    BY <1>7 DEF Ledger!Next

LEMMA StepImplements == IInv /\ [Next]_vars => [Ledger!Next]_(Ledger!vars)
<1> SUFFICES ASSUME IInv, [Next]_vars PROVE Ledger!Next \/ UNCHANGED Ledger!vars
    OBVIOUS
<1>1. CASE UNCHANGED <<runs, rows, manifests>>
    BY <1>1 DEF Ledger!vars
<1>2. ASSUME NEW c \in Clients, NEW r \in Runs, StartRun(c, r) PROVE Ledger!Next
  <2>1. /\ runs[r].status = "none" /\ runs' = [runs EXCEPT ![r].status = "open"]
        /\ rows' = rows /\ manifests' = manifests
      BY <1>2 DEF StartRun
  <2>2. [x \in Runs |-> runs'[x].status]
          = [[x \in Runs |-> runs[x].status] EXCEPT ![r] = "open"]
      BY <2>1 DEF IInv, TypeOK
  <2>3. Ledger!Open(r)
      BY <2>1, <2>2 DEF Ledger!Open
  <2> QED
      BY <2>3 DEF Ledger!Next
<1>3. ASSUME NEW c \in Clients, MountAppend(c)
      PROVE  Ledger!Next \/ UNCHANGED <<runs, rows, manifests>>
    BY <1>3, AppendStages DEF MountAppend
<1>4. ASSUME NEW c \in Clients, CommitCreate(c)
      PROVE  Ledger!Next \/ UNCHANGED <<runs, rows, manifests>>
    BY <1>4, CreateSeals DEF CommitCreate
<1>5. ASSUME NEW c \in Clients, Ask(c)
      PROVE  (\E r \in Runs : StartRun(c, r)) \/ UNCHANGED <<runs, rows, manifests>>
    BY <1>5 DEF Ask, StartRunTwice, AskMount, CommitCheck
<1>6. ASSUME NEW c \in Clients, Step(c)
      PROVE  \/ MountAppend(c) \/ CommitCreate(c) \/ CommitMark(c)
             \/ UNCHANGED <<runs, rows, manifests>>
    BY <1>6 DEF Step, MountCheck, MountResolve, MountList, MountAnswer, CommitList
<1>7. ASSUME NEW c \in Clients, Fail(c) PROVE UNCHANGED <<runs, rows, manifests>>
    BY <1>7 DEF Fail
<1>8. CASE UNCHANGED vars
    BY <1>8, <1>1 DEF vars
<1> QED
    BY <1>1, <1>2, <1>3, <1>4, <1>5, <1>6, <1>7, <1>8, MarkPublishes DEF Next

\* Statement by statement, with requests racing and dying, the run builder does
\* nothing that a log with an atomic seal could not do.
THEOREM Refinement == Spec => Implements
<1>1. Init => Ledger!Init
    BY InitImplements
<1>2. IInv /\ [Next]_vars => [Ledger!Next]_(Ledger!vars)
    BY StepImplements
<1> QED
    BY <1>1, <1>2, Invariance, PTL DEF Spec, Implements, Ledger!Spec
=============================================================================
