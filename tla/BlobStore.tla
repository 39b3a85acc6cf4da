----------------------------- MODULE BlobStore -----------------------------
(***************************************************************************)
(* internal/storage/blob.LocalStore: the content-addressed files of the    *)
(* embedded store.  Put checks for the final path, writes path+".tmp" and  *)
(* renames it; the temporary name is a function of the hash, so two puts   *)
(* of one content share it.  Goroutines of a server, and CLI processes     *)
(* with one data directory, put concurrently; any may die (Die).           *)
(*                                                                         *)
(* A file is an inode with the set of chunks of the content written since  *)
(* it was last truncated.  All writers of a path write the same bytes, so  *)
(* a file is right when it holds every chunk and torn otherwise.  What was *)
(* written survives the death of a process (no power loss).                *)
(*                                                                         *)
(* X_bug is X as a plausible mistake would have it, used by no             *)
(* specification; the README names the property it breaks.                 *)
(***************************************************************************)
EXTENDS Naturals, FiniteSets

CONSTANTS
    Writers,  \* the puts that can be in flight at once
    Hashes,   \* content hashes, that is, contents
    Inodes,   \* bound: files that can exist at once
    Chunks,   \* the write(2) calls a content takes
    None

ASSUME ChunksArePositive == Chunks \in Nat \ {0}

ASSUME NoneIsNoInode == None \notin Inodes

VARIABLES
    path,  \* hash -> inode under the final name, or None
    tmp,   \* hash -> inode under the temporary name, or None
    data,  \* inode -> chunks it holds
    put,   \* the puts in flight: [pc, hash, fd, next]
    overlapped,  \* history: hashes of which two puts were in flight at once
    cutShort     \* history: hashes of which a put died

history == <<overlapped, cutShort>>
vars == <<path, tmp, data, put, history>>

Idle(w) == put[w].pc = "idle"

\* A put slot: free, with the last put's answer, or in use.
Done(answer, h) == [pc |-> "idle", answer |-> answer, hash |-> h]

Putting(pc, h, fd, next) == [pc |-> pc, hash |-> h, fd |-> fd, next |-> next]

Becomes(w, p) == put' = [put EXCEPT ![w] = p]

InUse ==
    {path[h] : h \in Hashes} \cup {tmp[h] : h \in Hashes}
        \cup {put[w].fd : w \in {x \in Writers : put[x].pc = "write"}}

Whole(i) == data[i] = 1 .. Chunks

Init ==
    /\ path = [h \in Hashes |-> None]
    /\ tmp = [h \in Hashes |-> None]
    /\ data = [i \in Inodes |-> {}]
    /\ put = [w \in Writers |-> Done("none", None)]
    /\ overlapped = {}
    /\ cutShort = {}

\* os.Stat(path): identical bytes are taken to be stored already.
Stat(w, h) ==
    /\ Idle(w)
    /\ Becomes(w, IF path[h] # None THEN Done("stored", h)
                  ELSE Putting("open", h, None, 1))
    /\ overlapped' = IF \E x \in Writers : ~Idle(x) /\ put[x].hash = h
                     THEN overlapped \cup {h} ELSE overlapped
    /\ UNCHANGED <<path, tmp, data, cutShort>>

\* os.WriteFile opens with O_CREATE|O_TRUNC: a file that is there, of another
\* put or left by a dead one, is emptied and used.
OpenTmp_inPlace(w) ==
    LET h == put[w].hash IN
    /\ put[w].pc = "open"
    /\ \E i \in Inodes :
          /\ i = path[h] \/ (path[h] = None /\ i \notin InUse)
          /\ path' = [path EXCEPT ![h] = i]
          /\ data' = [data EXCEPT ![i] = {}]
          /\ Becomes(w, Putting("write", h, i, 1))
    /\ UNCHANGED <<tmp, history>>

OpenTmp(w) ==
    LET h == put[w].hash IN
    /\ put[w].pc = "open"
    /\ \E i \in Inodes :
          /\ i = tmp[h] \/ (tmp[h] = None /\ i \notin InUse)
          /\ tmp' = [tmp EXCEPT ![h] = i]
          /\ data' = [data EXCEPT ![i] = {}]
          /\ Becomes(w, Putting("write", h, i, 1))
    /\ UNCHANGED <<path, history>>

\* One write, at this put's own offset in the file it opened.
AllWritten_short(w) == put[w].next > 1

AllWritten(w) == put[w].next > Chunks

Write(w) ==
    LET p == put[w] IN
    /\ p.pc = "write" /\ ~AllWritten(w)
    /\ data' = [data EXCEPT ![p.fd] = @ \cup {p.next}]
    /\ Becomes(w, [p EXCEPT !.next = @ + 1])
    /\ UNCHANGED <<path, tmp, history>>

\* The file is closed ...
Close(w) ==
    /\ put[w].pc = "write" /\ AllWritten(w)
    /\ Becomes(w, Putting("rename", put[w].hash, None, 1))
    /\ UNCHANGED <<path, tmp, data, history>>

\* ... and whatever has the temporary name now takes the final one.
Rename(w) ==
    LET h == put[w].hash IN
    /\ put[w].pc = "rename"
    /\ IF tmp[h] = None
       THEN /\ Becomes(w, Done("failed", h))
            /\ UNCHANGED <<path, tmp>>
       ELSE /\ path' = [path EXCEPT ![h] = tmp[h]]
            /\ tmp' = [tmp EXCEPT ![h] = None]
            /\ Becomes(w, Done("stored", h))
    /\ UNCHANGED <<data, history>>

\* A write or a rename is refused, or the process dies: files stay as they are.
Die(w) ==
    /\ ~Idle(w)
    /\ Becomes(w, Done("gone", put[w].hash))
    /\ cutShort' = cutShort \cup {put[w].hash}
    /\ UNCHANGED <<path, tmp, data, overlapped>>

Step(w) == OpenTmp(w) \/ Write(w) \/ Close(w) \/ Rename(w)

Ask(w) == \E h \in Hashes : Stat(w, h)

Next == \E w \in Writers : Ask(w) \/ Step(w) \/ Die(w)

Spec == Init /\ [][Next]_vars

\* A goroutine that is not killed runs on; Die may always end it.
FairSpec == Spec /\ \A w \in Writers : WF_vars(Step(w))
-----------------------------------------------------------------------------
(* Properties *)

FreePuts ==
    [pc : {"idle"}, answer : {"none", "stored", "failed", "gone"},
     hash : Hashes \cup {None}]

BusyPuts ==
    [pc : {"open", "write", "rename"}, hash : Hashes, fd : Inodes \cup {None},
     next : 1 .. Chunks + 1]

\* Every variable has its type.
TypeOK ==
    /\ path \in [Hashes -> Inodes \cup {None}]
    /\ tmp \in [Hashes -> Inodes \cup {None}]
    /\ data \in [Inodes -> SUBSET (1 .. Chunks)]
    /\ put \in [Writers -> FreePuts \cup BusyPuts]
    /\ \A w \in Writers : put[w].pc = "write" => put[w].fd \in Inodes
    /\ overlapped \subseteq Hashes /\ cutShort \subseteq Hashes

Stored(h) == path[h] # None /\ Whole(path[h])

\* A file under the name of a hash holds all the bytes of that hash, though
\* puts die half-way and leave a partial temporary file for the next one: as
\* long as no two puts of that content overlap.
WholeUnlessOverlapped ==
    \A h \in Hashes \ overlapped : path[h] # None => Stored(h)

\* A put that was answered with the hash can be read back from then on,
\* whether it wrote the file or found it there, and whatever died before or
\* since (with no two puts of that content overlapping).
AnsweredIsStored ==
    \A w \in Writers :
        /\ put[w].pc = "idle" /\ put[w].answer = "stored"
        /\ put[w].hash \notin overlapped
        => Stored(put[w].hash)

\* When puts of one content overlap and none dies, a published file is short
\* only while a put that opened it before it was renamed is still writing it.
TornOnlyWhileWritten ==
    \A h \in Hashes \ cutShort :
        path[h] # None /\ ~Whole(path[h]) =>
            \E w \in Writers : put[w].pc = "write" /\ put[w].fd = path[h]

\* Files are of one hash, and have one name; whoever writes to a file that has
\* a name writes what the name says.
FilesAreOwn ==
    /\ \A g, h \in Hashes : path[g] # None /\ path[g] = path[h] => g = h
    /\ \A g, h \in Hashes : tmp[g] # None /\ tmp[g] = tmp[h] => g = h
    /\ \A g, h \in Hashes : path[g] # None => path[g] # tmp[h]
    /\ \A w \in Writers, h \in Hashes :
          put[w].pc = "write" /\ put[w].fd \in {path[h], tmp[h]} => put[w].hash = h

\* Two puts of one content at once are an overlap of it.
OverlapsAreNoted ==
    \A v, w \in Writers :
        v # w /\ ~Idle(v) /\ ~Idle(w) /\ put[v].hash = put[w].hash =>
            put[v].hash \in overlapped

\* What a put knows if it is the only one of its content.
KnowsItsFile(w) ==
    LET p == put[w] IN
    /\ p.pc = "write" => tmp[p.hash] = p.fd /\ data[p.fd] = 1 .. p.next - 1
    /\ p.pc = "rename" => tmp[p.hash] # None /\ Whole(tmp[p.hash])

AloneInv ==
    \A w \in Writers :
        ~Idle(w) /\ put[w].hash \notin overlapped => KnowsItsFile(w)

StoredHasName ==
    \A w \in Writers :
        put[w].pc = "idle" /\ put[w].answer = "stored" =>
            put[w].hash \in Hashes /\ path[put[w].hash] # None

\* If none died, a file with a name is whole, or somebody writes to it who opened
\* it, and emptied it, last.
Fills(w, i) ==
    put[w].pc = "write" /\ put[w].fd = i /\ 1 .. put[w].next - 1 \subseteq data[i]

TornIsFilled ==
    \A h \in Hashes \ cutShort, i \in Inodes :
        i \in {path[h], tmp[h]} => Whole(i) \/ \E w \in Writers : Fills(w, i)

\* The inductive invariant: a put that is alone knows what its file holds, and
\* of several the last to open the file fills it.
IInv ==
    /\ TypeOK
    /\ FilesAreOwn
    /\ WholeUnlessOverlapped
    /\ OverlapsAreNoted
    /\ AloneInv
    /\ StoredHasName
    /\ TornIsFilled

\* A content that has been published ends up stored, even if a racing put
\* truncated it, unless a put of it dies.
PublishedBecomesStored ==
    \A h \in Hashes :
        [](h \notin cutShort) => (path[h] # None ~> Stored(h))

-----------------------------------------------------------------------------
(* What the documentation says and the code does not do *)

\* "Payloads are immutable and identified purely by content hash"
\* (internal/storage/blob/blob.go:11-12): whatever puts overlap or die, a file
\* under the name of a hash holds all the bytes of that hash.
PublishedIsWhole == \A h \in Hashes : path[h] # None => Stored(h)
=============================================================================
