-------------------------- MODULE BlobStore_proofs --------------------------
(***************************************************************************)
(* TLAPS proofs about BlobStore, for any sets of writers, hashes and       *)
(* inodes and any number of chunks: the inductive invariant IInv and what  *)
(* follows from it.                                                        *)
(***************************************************************************)
EXTENDS BlobStore, TLAPS

LEMMA InitIInv == Init => IInv
<1> SUFFICES ASSUME Init PROVE IInv
    OBVIOUS
<1> USE DEF Init, Done
<1>1. TypeOK
    BY ChunksArePositive DEF TypeOK, FreePuts
<1>2. FilesAreOwn /\ WholeUnlessOverlapped /\ TornIsFilled
    BY NoneIsNoInode DEF FilesAreOwn, WholeUnlessOverlapped, TornIsFilled
<1>3. OverlapsAreNoted /\ AloneInv /\ StoredHasName
    BY DEF OverlapsAreNoted, AloneInv, StoredHasName, Idle
<1> QED
    BY <1>1, <1>2, <1>3 DEF IInv

-----------------------------------------------------------------------------
(* Types *)

LEMMA BusyType ==
    ASSUME TypeOK, NEW w \in Writers, ~Idle(w)
    PROVE  put[w] \in BusyPuts
BY DEF TypeOK, Idle, FreePuts

LEMMA DoneType ==
    ASSUME NEW a \in {"none", "stored", "failed", "gone"}, NEW h \in Hashes
    PROVE  Done(a, h) \in FreePuts /\ Done(a, h).pc = "idle"
BY DEF Done, FreePuts

LEMMA PuttingType ==
    ASSUME NEW pc \in {"open", "write", "rename"}, NEW h \in Hashes,
           NEW fd \in Inodes \cup {None}, NEW n \in 1 .. Chunks + 1
    PROVE  Putting(pc, h, fd, n) \in BusyPuts /\ Putting(pc, h, fd, n).pc = pc
BY DEF Putting, BusyPuts

LEMMA BecomesType ==
    ASSUME TypeOK, NEW w \in Writers, NEW p, p \in FreePuts \/ p \in BusyPuts,
           p.pc = "write" => p.fd \in Inodes, Becomes(w, p)
    PROVE  /\ put' \in [Writers -> FreePuts \cup BusyPuts]
           /\ \A v \in Writers : put'[v].pc = "write" => put'[v].fd \in Inodes
           /\ put'[w] = p /\ \A v \in Writers \ {w} : put'[v] = put[v]
<1>1. p \in FreePuts \cup BusyPuts /\ put \in [Writers -> FreePuts \cup BusyPuts]
    BY DEF TypeOK
<1>2. /\ put' \in [Writers -> FreePuts \cup BusyPuts]
      /\ put'[w] = p /\ \A v \in Writers \ {w} : put'[v] = put[v]
    BY <1>1 DEF Becomes
<1> QED
    BY <1>2 DEF TypeOK

\* What each step does, with the fields of the put it is a step of.
LEMMA OpenTmpStep ==
    ASSUME TypeOK, NEW w \in Writers, OpenTmp(w)
    PROVE  /\ put[w].pc = "open" /\ put[w].hash \in Hashes
           /\ \E i \in Inodes :
                 /\ i = tmp[put[w].hash] \/ (tmp[put[w].hash] = None /\ i \notin InUse)
                 /\ tmp' = [tmp EXCEPT ![put[w].hash] = i]
                 /\ data' = [data EXCEPT ![i] = {}]
                 /\ Becomes(w, Putting("write", put[w].hash, i, 1))
                 /\ Putting("write", put[w].hash, i, 1) \in BusyPuts
           /\ path' = path /\ overlapped' = overlapped /\ cutShort' = cutShort
<1>1. put[w].pc = "open" /\ put[w].hash \in Hashes
    BY BusyType DEF OpenTmp, Idle, BusyPuts
<1>2. \A i \in Inodes : Putting("write", put[w].hash, i, 1) \in BusyPuts
    BY <1>1, PuttingType, ChunksArePositive
<1> QED
    BY <1>1, <1>2 DEF OpenTmp, history

LEMMA WriteStep ==
    ASSUME TypeOK, NEW w \in Writers, Write(w)
    PROVE  /\ put[w].pc = "write" /\ put[w].hash \in Hashes
           /\ put[w].fd \in Inodes /\ put[w].next \in 1 .. Chunks
           /\ Putting("write", put[w].hash, put[w].fd, put[w].next + 1) \in BusyPuts
           /\ Becomes(w, Putting("write", put[w].hash, put[w].fd, put[w].next + 1))
           /\ data' = [data EXCEPT ![put[w].fd] = @ \cup {put[w].next}]
           /\ path' = path /\ tmp' = tmp
           /\ overlapped' = overlapped /\ cutShort' = cutShort
<1>1. put[w] \in BusyPuts /\ put[w].pc = "write" /\ put[w].fd \in Inodes
    BY BusyType DEF Write, Idle, TypeOK
<1>2. put[w].next \in 1 .. Chunks
    BY <1>1, ChunksArePositive DEF Write, AllWritten, BusyPuts
<1>3. put[w].hash \in Hashes
    BY <1>1 DEF BusyPuts
<1>4. Putting("write", put[w].hash, put[w].fd, put[w].next + 1) \in BusyPuts
    BY <1>1, <1>2, <1>3, PuttingType, ChunksArePositive
<1>5. [put[w] EXCEPT !.next = @ + 1]
        = Putting("write", put[w].hash, put[w].fd, put[w].next + 1)
    BY <1>1 DEF BusyPuts, Putting
<1> QED
    BY <1>1, <1>2, <1>3, <1>4, <1>5 DEF Write, history

LEMMA CloseStep ==
    ASSUME TypeOK, NEW w \in Writers, Close(w)
    PROVE  /\ put[w].pc = "write" /\ put[w].hash \in Hashes
           /\ put[w].fd \in Inodes /\ put[w].next = Chunks + 1
           /\ Putting("rename", put[w].hash, None, 1) \in BusyPuts
           /\ Becomes(w, Putting("rename", put[w].hash, None, 1))
           /\ data' = data /\ path' = path /\ tmp' = tmp
           /\ overlapped' = overlapped /\ cutShort' = cutShort
<1>1. put[w] \in BusyPuts /\ put[w].pc = "write" /\ put[w].fd \in Inodes
    BY BusyType DEF Close, Idle, TypeOK
<1>2. put[w].next = Chunks + 1 /\ put[w].hash \in Hashes
    BY <1>1, ChunksArePositive DEF Close, AllWritten, BusyPuts
<1>3. Putting("rename", put[w].hash, None, 1) \in BusyPuts
    BY <1>2, ChunksArePositive DEF Putting, BusyPuts
<1> QED
    BY <1>1, <1>2, <1>3 DEF Close, history

LEMMA RenameStep ==
    ASSUME TypeOK, NEW w \in Writers, Rename(w)
    PROVE  /\ put[w].pc = "rename" /\ put[w].hash \in Hashes
           /\ Done("failed", put[w].hash) \in FreePuts
           /\ Done("stored", put[w].hash) \in FreePuts
           /\ \/ /\ tmp[put[w].hash] = None
                 /\ Becomes(w, Done("failed", put[w].hash))
                 /\ path' = path /\ tmp' = tmp
              \/ /\ tmp[put[w].hash] # None
                 /\ path' = [path EXCEPT ![put[w].hash] = tmp[put[w].hash]]
                 /\ tmp' = [tmp EXCEPT ![put[w].hash] = None]
                 /\ Becomes(w, Done("stored", put[w].hash))
           /\ data' = data /\ overlapped' = overlapped /\ cutShort' = cutShort
<1>1. put[w].pc = "rename" /\ put[w].hash \in Hashes
    BY BusyType DEF Rename, Idle, BusyPuts
<1>2. Done("failed", put[w].hash) \in FreePuts /\ Done("stored", put[w].hash) \in FreePuts
    BY <1>1, DoneType
<1> QED
    BY <1>1, <1>2 DEF Rename, history

LEMMA DieStep ==
    ASSUME TypeOK, NEW w \in Writers, Die(w)
    PROVE  /\ ~Idle(w) /\ put[w].hash \in Hashes
           /\ Done("gone", put[w].hash) \in FreePuts
           /\ Becomes(w, Done("gone", put[w].hash))
           /\ cutShort' = cutShort \cup {put[w].hash}
           /\ data' = data /\ path' = path /\ tmp' = tmp /\ overlapped' = overlapped
<1>1. ~Idle(w) /\ put[w].hash \in Hashes
    BY BusyType DEF Die, BusyPuts
<1>2. Done("gone", put[w].hash) \in FreePuts
    BY <1>1, DoneType
<1> QED
    BY <1>1, <1>2 DEF Die

LEMMA StatStep ==
    ASSUME TypeOK, NEW w \in Writers, NEW h \in Hashes, Stat(w, h)
    PROVE  /\ Idle(w)
           /\ Done("stored", h) \in FreePuts /\ Putting("open", h, None, 1) \in BusyPuts
           /\ \/ path[h] # None /\ Becomes(w, Done("stored", h))
              \/ path[h] = None /\ Becomes(w, Putting("open", h, None, 1))
           /\ overlapped \subseteq overlapped' /\ overlapped' \subseteq Hashes
           /\ \A v \in Writers : ~Idle(v) /\ put[v].hash = h => h \in overlapped'
           /\ data' = data /\ path' = path /\ tmp' = tmp /\ cutShort' = cutShort
<1>1. Done("stored", h) \in FreePuts
    BY DoneType
<1>2. Putting("open", h, None, 1) \in BusyPuts
    BY PuttingType, ChunksArePositive
<1> QED
    BY <1>1, <1>2 DEF Stat, TypeOK

LEMMA StepType ==
    ASSUME TypeOK, NEW w \in Writers, Ask(w) \/ Step(w) \/ Die(w)
    PROVE  TypeOK'
<1> USE DEF Done, Putting
<1>1. ASSUME NEW h \in Hashes, Stat(w, h) PROVE TypeOK'
    <2>1. \E p : Becomes(w, p) /\ p.pc # "write" /\ (p \in FreePuts \/ p \in BusyPuts)
        BY <1>1, StatStep
    <2> QED
        BY <1>1, <2>1, BecomesType, StatStep DEF TypeOK
<1>2. CASE OpenTmp(w)
    <2>1. PICK i \in Inodes :
             /\ tmp' = [tmp EXCEPT ![put[w].hash] = i]
             /\ data' = [data EXCEPT ![i] = {}]
             /\ Becomes(w, Putting("write", put[w].hash, i, 1))
             /\ Putting("write", put[w].hash, i, 1) \in BusyPuts
        BY <1>2, OpenTmpStep
    <2>2. tmp' \in [Hashes -> Inodes \cup {None}] /\ data' \in [Inodes -> SUBSET (1 .. Chunks)]
        BY <2>1 DEF TypeOK
    <2> QED
        BY <1>2, <2>1, <2>2, BecomesType, OpenTmpStep DEF TypeOK
<1>3. CASE Write(w)
    <2>1. data' \in [Inodes -> SUBSET (1 .. Chunks)]
        <3>1. put[w].fd \in Inodes /\ put[w].next \in 1 .. Chunks
            BY <1>3, WriteStep
        <3>2. data[put[w].fd] \cup {put[w].next} \in SUBSET (1 .. Chunks)
            BY <3>1 DEF TypeOK
        <3>3. data' = [data EXCEPT ![put[w].fd] = @ \cup {put[w].next}]
            BY <1>3, WriteStep
        <3> QED
            BY <3>1, <3>2, <3>3 DEF TypeOK
    <2> DEFINE p == Putting("write", put[w].hash, put[w].fd, put[w].next + 1)
    <2>2. p \in BusyPuts /\ p.fd \in Inodes /\ Becomes(w, p)
        BY <1>3, WriteStep
    <2> HIDE DEF p
    <2>3. /\ put' \in [Writers -> FreePuts \cup BusyPuts]
          /\ \A v \in Writers : put'[v].pc = "write" => put'[v].fd \in Inodes
        BY <2>2, BecomesType
    <2> QED
        BY <1>3, <2>1, <2>3, WriteStep DEF TypeOK
<1>4. CASE Close(w)
    BY <1>4, BecomesType, CloseStep DEF TypeOK
<1>5. CASE Rename(w)
    <2>1. \E p \in FreePuts : Becomes(w, p) /\ p.pc # "write"
        BY <1>5, RenameStep
    <2>2. path' \in [Hashes -> Inodes \cup {None}] /\ tmp' \in [Hashes -> Inodes \cup {None}]
        BY <1>5, RenameStep DEF TypeOK
    <2> QED
        BY <1>5, <2>1, <2>2, BecomesType, RenameStep DEF TypeOK
<1>6. CASE Die(w)
    BY <1>6, BecomesType, DieStep DEF TypeOK
<1> QED
    BY <1>1, <1>2, <1>3, <1>4, <1>5, <1>6 DEF Ask, Step

-----------------------------------------------------------------------------
(* Each step keeps the invariant *)

\* A step that opens, writes and publishes nothing, and leaves its put idle or
\* about to open.
LEMMA QuietStep ==
    ASSUME IInv, NEW w \in Writers, NEW p, p \in FreePuts \/ p \in BusyPuts,
           p.pc \in {"idle", "open"}, Becomes(w, p),
           put[w].pc # "write" \/ put[w].hash \in cutShort',
           p.pc = "idle" /\ p.answer = "stored" => p.hash \in Hashes /\ path[p.hash] # None,
           p.pc = "open" =>
               \A v \in Writers \ {w} : ~Idle(v) /\ put[v].hash = p.hash =>
                   p.hash \in overlapped',
           path' = path, tmp' = tmp, data' = data,
           overlapped \subseteq overlapped', cutShort \subseteq cutShort'
    PROVE  /\ FilesAreOwn' /\ WholeUnlessOverlapped' /\ OverlapsAreNoted'
           /\ AloneInv' /\ StoredHasName' /\ TornIsFilled'
<1>1. put'[w] = p /\ \A v \in Writers \ {w} : put'[v] = put[v]
    BY BecomesType DEF IInv
<1>2. FilesAreOwn'
    BY <1>1 DEF IInv, FilesAreOwn
<1>3. WholeUnlessOverlapped'
    BY DEF IInv, WholeUnlessOverlapped, Stored, Whole
<1>4. OverlapsAreNoted'
    BY <1>1 DEF IInv, OverlapsAreNoted, Idle
<1>5. AloneInv'
    BY <1>1 DEF IInv, AloneInv, KnowsItsFile, Whole, Idle
<1>6. StoredHasName'
    BY <1>1 DEF IInv, StoredHasName
<1>7. TornIsFilled'
    <2> SUFFICES ASSUME NEW h \in Hashes \ cutShort', NEW i \in Inodes,
                        i \in {path[h], tmp[h]}, ~Whole(i)
                 PROVE  \E v \in Writers : Fills(v, i)'
        BY DEF TornIsFilled, Whole
    <2>1. PICK v \in Writers : Fills(v, i)
        BY DEF IInv, TornIsFilled
    <2>2. v # w
        BY <2>1 DEF Fills, IInv, FilesAreOwn
    <2> QED
        BY <1>1, <2>1, <2>2 DEF Fills
<1> QED
    BY <1>2, <1>3, <1>4, <1>5, <1>6, <1>7

LEMMA StatKeeps ==
    ASSUME IInv, NEW w \in Writers, NEW h \in Hashes, Stat(w, h)
    PROVE  IInv'
<1>t. TypeOK /\ TypeOK'
    BY StepType DEF IInv, Ask
<1> DEFINE p == IF path[h] # None THEN Done("stored", h)
                ELSE Putting("open", h, None, 1)
<1>1. /\ Becomes(w, p) /\ (p \in FreePuts \/ p \in BusyPuts)
      /\ p.pc \in {"idle", "open"} /\ p.hash = h
      /\ p.pc = "idle" => path[h] # None
    <2>1. /\ Done("stored", h).pc = "idle" /\ Done("stored", h).hash = h
          /\ Putting("open", h, None, 1).pc = "open"
          /\ Putting("open", h, None, 1).hash = h
        BY DEF Done, Putting
    <2> QED
        BY <1>t, <2>1, StatStep
<1> HIDE DEF p
<1>2. /\ put[w].pc = "idle"
      /\ overlapped \subseteq overlapped'
      /\ \A v \in Writers : ~Idle(v) /\ put[v].hash = h => h \in overlapped'
      /\ data' = data /\ path' = path /\ tmp' = tmp /\ cutShort' = cutShort
    BY <1>t, StatStep DEF Idle
<1> QED
    BY <1>t, <1>1, <1>2, QuietStep DEF IInv

LEMMA DieKeeps ==
    ASSUME IInv, NEW w \in Writers, Die(w)
    PROVE  IInv'
<1>t. TypeOK /\ TypeOK'
    BY StepType DEF IInv
<1> DEFINE p == Done("gone", put[w].hash)
<1>1. Becomes(w, p) /\ p \in FreePuts /\ p.pc = "idle" /\ p.answer = "gone"
    BY <1>t, DieStep DEF Done
<1> HIDE DEF p
<1>2. /\ put[w].hash \in cutShort' /\ cutShort \subseteq cutShort'
      /\ data' = data /\ path' = path /\ tmp' = tmp /\ overlapped' = overlapped
    BY <1>t, DieStep
<1> QED
    BY <1>t, <1>1, <1>2, QuietStep DEF IInv

\* The file that a put opens has no final name, and is nobody else's.
LEMMA OpenedIsOwn ==
    ASSUME IInv, NEW w \in Writers, NEW h \in Hashes, NEW i \in Inodes,
           i = tmp[h] \/ (tmp[h] = None /\ i \notin InUse)
    PROVE  \A g \in Hashes :
              /\ path[g] # i
              /\ tmp[g] = i => g = h
              /\ \A v \in Writers : put[v].pc = "write" /\ put[v].fd = i => put[v].hash = h
<1>1. CASE i = tmp[h]
    BY <1>1, NoneIsNoInode DEF IInv, FilesAreOwn
<1>2. CASE i \notin InUse
    BY <1>2 DEF InUse
<1> QED
    BY <1>1, <1>2

LEMMA OpenTmpKeeps ==
    ASSUME IInv, NEW w \in Writers, OpenTmp(w)
    PROVE  IInv'
<1>t. TypeOK /\ TypeOK'
    BY StepType DEF IInv, Step
<1> DEFINE h == put[w].hash
<1>1. PICK i \in Inodes :
         /\ i = tmp[h] \/ (tmp[h] = None /\ i \notin InUse)
         /\ tmp' = [tmp EXCEPT ![h] = i]
         /\ data' = [data EXCEPT ![i] = {}]
         /\ Becomes(w, Putting("write", h, i, 1))
         /\ Putting("write", h, i, 1) \in BusyPuts
    BY <1>t, OpenTmpStep
<1>2. /\ put[w].pc = "open" /\ h \in Hashes
      /\ path' = path /\ overlapped' = overlapped /\ cutShort' = cutShort
    BY <1>t, OpenTmpStep
<1>3. /\ tmp'[h] = i /\ \A g \in Hashes \ {h} : tmp'[g] = tmp[g]
      /\ data'[i] = {} /\ \A j \in Inodes \ {i} : data'[j] = data[j]
    BY <1>t, <1>1, <1>2 DEF TypeOK
<1>4. /\ put'[w].pc = "write" /\ put'[w].hash = h /\ put'[w].fd = i /\ put'[w].next = 1
      /\ \A v \in Writers \ {w} : put'[v] = put[v]
    BY <1>t, <1>1, BecomesType DEF Putting
<1> HIDE DEF h
<1>5. \A g \in Hashes :
         /\ path[g] # i
         /\ tmp[g] = i => g = h
         /\ \A v \in Writers : put[v].pc = "write" /\ put[v].fd = i => put[v].hash = h
    BY <1>1, <1>2, OpenedIsOwn
<1>6. FilesAreOwn'
    BY <1>t, <1>2, <1>3, <1>4, <1>5, NoneIsNoInode DEF IInv, FilesAreOwn, TypeOK
<1>7. WholeUnlessOverlapped'
    BY <1>t, <1>2, <1>3, <1>5 DEF IInv, WholeUnlessOverlapped, Stored, Whole, TypeOK
<1>8. OverlapsAreNoted'
    BY <1>2, <1>4 DEF IInv, OverlapsAreNoted, Idle, h
<1>9. AloneInv'
    <2> SUFFICES ASSUME NEW v \in Writers, (~Idle(v) /\ put[v].hash \notin overlapped)'
                 PROVE  KnowsItsFile(v)'
        BY DEF AloneInv
    <2>1. CASE v = w
        BY <2>1, <1>3, <1>4 DEF KnowsItsFile
    <2>2. CASE v # w
        <3>1. /\ put'[v] = put[v] /\ ~Idle(v) /\ put[v].hash \notin overlapped
              /\ put[v].hash \in Hashes \ {h}
            BY <2>2, <1>t, <1>2, <1>4, BusyType
            DEF IInv, OverlapsAreNoted, Idle, h, BusyPuts
        <3>2. KnowsItsFile(v) /\ tmp[put[v].hash] # i /\ tmp'[put[v].hash] = tmp[put[v].hash]
            BY <3>1, <1>3, <1>5 DEF IInv, AloneInv
        <3> QED
            BY <3>1, <3>2, <1>t, <1>3 DEF KnowsItsFile, Whole, TypeOK
    <2> QED
        BY <2>1, <2>2
<1>10. StoredHasName'
    BY <1>2, <1>4 DEF IInv, StoredHasName
<1>11. TornIsFilled'
    <2> SUFFICES ASSUME NEW g \in Hashes \ cutShort', NEW j \in Inodes,
                        j \in {path'[g], tmp'[g]}, ~Whole(j)'
                 PROVE  \E v \in Writers : Fills(v, j)'
        BY DEF TornIsFilled
    <2>1. CASE j = i
        BY <2>1, <1>4 DEF Fills
    <2>2. CASE j # i
        <3>1. j \in {path[g], tmp[g]} /\ data'[j] = data[j]
            BY <2>2, <1>2, <1>3
        <3>2. PICK v \in Writers : Fills(v, j)
            BY <3>1, <1>2 DEF IInv, TornIsFilled, Whole
        <3>3. put'[v] = put[v]
            BY <3>2, <1>2, <1>4 DEF Fills
        <3> QED
            BY <3>1, <3>2, <3>3 DEF Fills
    <2> QED
        BY <2>1, <2>2
<1> QED
    BY <1>t, <1>6, <1>7, <1>8, <1>9, <1>10, <1>11 DEF IInv

LEMMA WriteKeeps ==
    ASSUME IInv, NEW w \in Writers, Write(w)
    PROVE  IInv'
<1>t. TypeOK /\ TypeOK'
    BY StepType DEF IInv, Step
<1> DEFINE i == put[w].fd
           n == put[w].next
           p == Putting("write", put[w].hash, i, n + 1)
<1>1. /\ put[w].pc = "write" /\ put[w].hash \in Hashes /\ i \in Inodes /\ n \in 1 .. Chunks
      /\ p \in BusyPuts /\ Becomes(w, p)
      /\ data' = [data EXCEPT ![i] = @ \cup {n}]
      /\ path' = path /\ tmp' = tmp /\ overlapped' = overlapped /\ cutShort' = cutShort
    BY <1>t, WriteStep
<1>2. p.pc = "write" /\ p.hash = put[w].hash /\ p.fd = i /\ p.next = n + 1
    BY DEF Putting
<1> HIDE DEF p
<1>3. put'[w] = p /\ \A v \in Writers \ {w} : put'[v] = put[v]
    BY <1>t, <1>1, <1>2, BecomesType
<1>4. /\ data'[i] = data[i] \cup {n}
      /\ \A j \in Inodes \ {i} : data'[j] = data[j]
      /\ data[i] \subseteq 1 .. Chunks
    BY <1>t, <1>1 DEF TypeOK
<1>5. \A j \in Inodes : Whole(j) => Whole(j)'
    BY <1>1, <1>4 DEF Whole
<1>6. FilesAreOwn'
    BY <1>1, <1>2, <1>3 DEF IInv, FilesAreOwn
<1>7. WholeUnlessOverlapped'
    BY <1>t, <1>1, <1>5 DEF IInv, WholeUnlessOverlapped, Stored, TypeOK
<1>8. OverlapsAreNoted'
    BY <1>1, <1>2, <1>3 DEF IInv, OverlapsAreNoted, Idle
<1>9. AloneInv'
    <2> SUFFICES ASSUME NEW v \in Writers, (~Idle(v) /\ put[v].hash \notin overlapped)'
                 PROVE  KnowsItsFile(v)'
        BY DEF AloneInv
    <2>1. CASE v = w
        <3>1. tmp[put[w].hash] = i /\ data[i] = 1 .. n - 1
            BY <2>1, <1>1, <1>2, <1>3 DEF IInv, AloneInv, KnowsItsFile, Idle
        <3>2. \A k \in 1 .. Chunks : (1 .. k - 1) \cup {k} = 1 .. (k + 1) - 1
            BY ChunksArePositive
        <3>3. data'[i] = 1 .. (n + 1) - 1
            BY <3>1, <3>2, <1>1, <1>4
        <3> QED
            BY <2>1, <3>1, <3>3, <1>1, <1>2, <1>3 DEF KnowsItsFile
    <2>2. CASE v # w
        <3>1. /\ put'[v] = put[v] /\ ~Idle(v) /\ put[v].hash \notin overlapped
              /\ put[v].hash # put[w].hash /\ put[v].hash \in Hashes
            BY <2>2, <1>t, <1>1, <1>3, BusyType
            DEF IInv, OverlapsAreNoted, Idle, BusyPuts
        <3>2. KnowsItsFile(v)
            BY <3>1 DEF IInv, AloneInv
        <3>3. put[v].pc = "write" => put[v].fd # i /\ put[v].fd \in Inodes
            BY <3>1, <3>2, <1>t, <1>1 DEF KnowsItsFile, IInv, FilesAreOwn, TypeOK
        <3>4. put[v].pc = "rename" => tmp[put[v].hash] \in Inodes
            BY <3>1, <3>2, <1>t DEF KnowsItsFile, TypeOK
        <3> QED
            BY <3>1, <3>2, <3>3, <3>4, <1>1, <1>4, <1>5 DEF KnowsItsFile
    <2> QED
        BY <2>1, <2>2
<1>10. StoredHasName'
    BY <1>1, <1>2, <1>3 DEF IInv, StoredHasName
<1>11. TornIsFilled'
    <2> SUFFICES ASSUME NEW g \in Hashes \ cutShort', NEW j \in Inodes,
                        j \in {path'[g], tmp'[g]}, ~Whole(j)'
                 PROVE  \E v \in Writers : Fills(v, j)'
        BY DEF TornIsFilled
    <2>1. PICK v \in Writers : Fills(v, j)
        BY <1>1, <1>5 DEF IInv, TornIsFilled
    <2>2. CASE v # w
        BY <2>1, <2>2, <1>3, <1>4 DEF Fills
    <2>3. CASE v = w
        <3>1. 1 .. (n + 1) - 1 \subseteq data'[i] /\ i = j
            BY <2>1, <2>3, <1>1, <1>4 DEF Fills
        <3> QED
            BY <2>3, <3>1, <1>2, <1>3 DEF Fills
    <2> QED
        BY <2>2, <2>3
<1> QED
    BY <1>t, <1>6, <1>7, <1>8, <1>9, <1>10, <1>11 DEF IInv

LEMMA CloseKeeps ==
    ASSUME IInv, NEW w \in Writers, Close(w)
    PROVE  IInv'
<1>t. TypeOK /\ TypeOK'
    BY StepType DEF IInv, Step
<1> DEFINE p == Putting("rename", put[w].hash, None, 1)
<1>1. /\ put[w].pc = "write" /\ put[w].hash \in Hashes /\ put[w].fd \in Inodes
      /\ put[w].next = Chunks + 1 /\ p \in BusyPuts /\ Becomes(w, p)
      /\ data' = data /\ path' = path /\ tmp' = tmp
      /\ overlapped' = overlapped /\ cutShort' = cutShort
    BY <1>t, CloseStep
<1>2. p.pc = "rename" /\ p.hash = put[w].hash
    BY DEF Putting
<1> HIDE DEF p
<1>3. put'[w] = p /\ \A v \in Writers \ {w} : put'[v] = put[v]
    BY <1>t, <1>1, <1>2, BecomesType
<1>4. 1 .. put[w].next - 1 = 1 .. Chunks /\ data[put[w].fd] \subseteq 1 .. Chunks
    BY <1>t, <1>1, ChunksArePositive DEF TypeOK
<1>5. FilesAreOwn' /\ WholeUnlessOverlapped' /\ StoredHasName'
    BY <1>1, <1>2, <1>3
    DEF IInv, FilesAreOwn, WholeUnlessOverlapped, Stored, Whole, StoredHasName
<1>6. OverlapsAreNoted'
    BY <1>1, <1>2, <1>3 DEF IInv, OverlapsAreNoted, Idle
<1>7. AloneInv'
    <2> SUFFICES ASSUME NEW v \in Writers, (~Idle(v) /\ put[v].hash \notin overlapped)'
                 PROVE  KnowsItsFile(v)'
        BY DEF AloneInv
    <2>1. CASE v = w
        <3>1. tmp[put[w].hash] = put[w].fd /\ Whole(put[w].fd)
            BY <2>1, <1>1, <1>2, <1>3, <1>4 DEF IInv, AloneInv, KnowsItsFile, Idle, Whole
        <3> QED
            BY <2>1, <3>1, <1>1, <1>2, <1>3, NoneIsNoInode DEF KnowsItsFile, Whole
    <2>2. CASE v # w
        BY <2>2, <1>1, <1>3 DEF IInv, AloneInv, KnowsItsFile, Idle, Whole
    <2> QED
        BY <2>1, <2>2
<1>8. TornIsFilled'
    <2> SUFFICES ASSUME NEW g \in Hashes \ cutShort, NEW j \in Inodes,
                        j \in {path[g], tmp[g]}, ~Whole(j)
                 PROVE  \E v \in Writers : Fills(v, j)'
        BY <1>1 DEF TornIsFilled, Whole
    <2>1. PICK v \in Writers : Fills(v, j)
        BY DEF IInv, TornIsFilled
    <2>2. v # w
        BY <2>1, <1>1, <1>4 DEF Fills, Whole
    <2> QED
        BY <2>1, <2>2, <1>1, <1>3 DEF Fills
<1> QED
    BY <1>t, <1>5, <1>6, <1>7, <1>8 DEF IInv

\* The temporary name is there: the file takes the final name.
LEMMA PublishKeeps ==
    ASSUME IInv, NEW w \in Writers, Rename(w), tmp[put[w].hash] # None
    PROVE  IInv'
<1>t. TypeOK /\ TypeOK'
    BY StepType DEF IInv, Step
<1> DEFINE h == put[w].hash
           p == Done("stored", h)
<1>1. /\ put[w].pc = "rename" /\ h \in Hashes /\ tmp[h] \in Inodes
      /\ p \in FreePuts /\ Becomes(w, p)
      /\ path' = [path EXCEPT ![h] = tmp[h]] /\ tmp' = [tmp EXCEPT ![h] = None]
      /\ data' = data /\ overlapped' = overlapped /\ cutShort' = cutShort
    BY <1>t, RenameStep DEF TypeOK
<1>2. p.pc = "idle" /\ p.hash = h
    BY DEF Done
<1> HIDE DEF p
<1>3. put'[w] = p /\ \A v \in Writers \ {w} : put'[v] = put[v]
    BY <1>t, <1>1, <1>2, BecomesType
<1>4. /\ path'[h] = tmp[h] /\ tmp'[h] = None
      /\ \A g \in Hashes \ {h} : path'[g] = path[g] /\ tmp'[g] = tmp[g]
    BY <1>t, <1>1 DEF TypeOK
<1>5. FilesAreOwn'
    <2>1. /\ \A g \in Hashes \ {h} : path[g] # None => path[g] # tmp[h]
          /\ \A g \in Hashes \ {h} : tmp[g] # tmp[h]
        BY <1>1, NoneIsNoInode DEF IInv, FilesAreOwn
    <2>2. \A v \in Writers, g \in Hashes :
             (put[v].pc = "write" /\ put[v].fd \in {path[g], tmp[g]})'
                 => put'[v].hash = g
        BY <1>t, <1>1, <1>2, <1>3, <1>4, NoneIsNoInode DEF IInv, FilesAreOwn, TypeOK
    <2>3. /\ \A f, g \in Hashes : path'[f] # None /\ path'[f] = path'[g] => f = g
          /\ \A f, g \in Hashes : tmp'[f] # None /\ tmp'[f] = tmp'[g] => f = g
          /\ \A f, g \in Hashes : path'[f] # None => path'[f] # tmp'[g]
        BY <2>1, <1>1, <1>4, NoneIsNoInode DEF IInv, FilesAreOwn
    <2> QED
        BY <2>2, <2>3 DEF FilesAreOwn
<1>6. WholeUnlessOverlapped'
    <2>1. h \notin overlapped => Whole(tmp[h])
        BY <1>1 DEF IInv, AloneInv, KnowsItsFile, Idle
    <2> QED
        BY <2>1, <1>1, <1>4, NoneIsNoInode
        DEF IInv, WholeUnlessOverlapped, Stored, Whole
<1>7. OverlapsAreNoted'
    BY <1>1, <1>2, <1>3 DEF IInv, OverlapsAreNoted, Idle
<1>8. AloneInv'
    <2> SUFFICES ASSUME NEW v \in Writers, (~Idle(v) /\ put[v].hash \notin overlapped)'
                 PROVE  KnowsItsFile(v)'
        BY DEF AloneInv
    <2>1. v # w /\ put'[v] = put[v] /\ ~Idle(v) /\ put[v].hash \notin overlapped
        BY <1>1, <1>2, <1>3 DEF Idle
    <2>2. put[v].hash \in Hashes \ {h}
        BY <2>1, <1>t, <1>1, BusyType DEF IInv, OverlapsAreNoted, Idle, BusyPuts
    <2> QED
        BY <2>1, <2>2, <1>1, <1>4 DEF IInv, AloneInv, KnowsItsFile, Whole
<1>9. StoredHasName'
    BY <1>1, <1>2, <1>3, <1>4, NoneIsNoInode DEF IInv, StoredHasName
<1>10. TornIsFilled'
    <2> SUFFICES ASSUME NEW g \in Hashes \ cutShort, NEW j \in Inodes,
                        j \in {path'[g], tmp'[g]}, ~Whole(j)
                 PROVE  \E v \in Writers : Fills(v, j)'
        BY <1>1 DEF TornIsFilled, Whole
    <2>1. j \in {path[g], tmp[g]}
        BY <1>4, NoneIsNoInode
    <2>2. PICK v \in Writers : Fills(v, j)
        BY <2>1 DEF IInv, TornIsFilled
    <2> QED
        BY <2>2, <1>1, <1>3 DEF Fills
<1> QED
    BY <1>t, <1>5, <1>6, <1>7, <1>8, <1>9, <1>10 DEF IInv

\* It is gone: the put fails.
LEMMA MissedKeeps ==
    ASSUME IInv, NEW w \in Writers, Rename(w), tmp[put[w].hash] = None
    PROVE  IInv'
<1>t. TypeOK /\ TypeOK'
    BY StepType DEF IInv, Step
<1> DEFINE p == Done("failed", put[w].hash)
<1>1. /\ put[w].pc = "rename" /\ p \in FreePuts /\ Becomes(w, p)
      /\ path' = path /\ tmp' = tmp /\ data' = data
      /\ overlapped' = overlapped /\ cutShort' = cutShort
    BY <1>t, RenameStep
<1>2. p.pc = "idle" /\ p.answer = "failed"
    BY DEF Done
<1> HIDE DEF p
<1> QED
    BY <1>t, <1>1, <1>2, QuietStep DEF IInv

LEMMA NextIInv == IInv /\ [Next]_vars => IInv'
<1> SUFFICES ASSUME IInv, [Next]_vars PROVE IInv'
    OBVIOUS
<1>1. ASSUME NEW w \in Writers, Ask(w) PROVE IInv'
    BY <1>1, StatKeeps DEF Ask
<1>2. ASSUME NEW w \in Writers, Step(w) PROVE IInv'
    BY <1>2, OpenTmpKeeps, WriteKeeps, CloseKeeps, PublishKeeps, MissedKeeps DEF Step
<1>3. ASSUME NEW w \in Writers, Die(w) PROVE IInv'
    BY <1>3, DieKeeps
<1>4. CASE UNCHANGED vars
    BY <1>4
    DEF vars, history, IInv, TypeOK, FilesAreOwn, WholeUnlessOverlapped, Stored, Whole,
        OverlapsAreNoted, AloneInv, KnowsItsFile, StoredHasName, TornIsFilled, Fills, Idle
<1> QED
    BY <1>1, <1>2, <1>3, <1>4 DEF Next

-----------------------------------------------------------------------------
(* What follows *)

\* The strengthened invariant holds in every reachable state.
THEOREM Invariance == Spec => []IInv
BY InitIInv, NextIInv, PTL DEF Spec

\* Every variable keeps its type.
THEOREM TypeCorrect == Spec => []TypeOK
<1>1. IInv => TypeOK
    BY DEF IInv
<1> QED
    BY <1>1, Invariance, PTL

\* A file under the name of a hash holds all the bytes of that hash, whatever
\* dies, as long as no two puts of that content overlap (LocalStore.Put).
THEOREM FilesAreWhole == Spec => []WholeUnlessOverlapped
<1>1. IInv => WholeUnlessOverlapped
    BY DEF IInv
<1> QED
    BY <1>1, Invariance, PTL

\* A put that was answered can be read back from then on, under the same
\* condition, whether it wrote the file or found it there.
THEOREM Answered == Spec => []AnsweredIsStored
<1>1. IInv => AnsweredIsStored
    BY DEF IInv, StoredHasName, WholeUnlessOverlapped, AnsweredIsStored
<1> QED
    BY <1>1, Invariance, PTL

\* When puts overlap and none dies, a torn file is one that is being written.
THEOREM TornWhileWritten == Spec => []TornOnlyWhileWritten
<1>1. IInv => TornOnlyWhileWritten
    <2> SUFFICES ASSUME IInv, NEW h \in Hashes \ cutShort,
                        path[h] # None, ~Whole(path[h])
                 PROVE  \E w \in Writers : put[w].pc = "write" /\ put[w].fd = path[h]
        BY DEF TornOnlyWhileWritten
    <2>1. path[h] \in Inodes
        BY DEF IInv, TypeOK
    <2> QED
        BY <2>1 DEF IInv, TornIsFilled, Fills
<1> QED
    BY <1>1, Invariance, PTL
=============================================================================
