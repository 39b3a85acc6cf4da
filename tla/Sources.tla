------------------------------- MODULE Sources -------------------------------
(***************************************************************************)
(* One fetch from a source, and the origin that it reads meanwhile:        *)
(* internal/source/filesystem, http and github.  A document is the         *)
(* sequence of its bytes, each naming its version, and bytes arrive one at *)
(* a time.  The origin replaces its document at once (a rename, a commit,  *)
(* a deployment) or, if it is a file, rewrites it in place; a peer stalls, *)
(* redirects, or closes the connection early.                              *)
(*                                                                         *)
(* Whether the policy of the server lets the target be asked at all is     *)
(* left out: a fetch that is refused reads nothing.                        *)
(*                                                                         *)
(* X_bug is X as a plausible mistake would have it, used by no             *)
(* specification; the README names the property it breaks.                 *)
(***************************************************************************)
EXTENDS Naturals, Sequences

CONSTANTS
    Versions,       \* of the document
    Length,         \* bytes of each version
    MaxBytes,       \* the cap of an HTTP response
    MaxRedirects,   \* that an HTTP fetch follows
    ContentsLimit,  \* bytes up to which GitHub sends the content of a file
    MaxChanges,     \* bound: changes of the document during a fetch
    Nothing         \* no file being written, no file unlinked, no response

ASSUME DocumentsHaveLengths ==
    /\ Length \in [Versions -> Nat]
    /\ {MaxBytes, MaxRedirects, ContentsLimit, MaxChanges} \subseteq Nat
    /\ Nothing \notin Versions

VARIABLES
    fetch,   \* [pc, kind, via, body, revision], and what it reads:
             \*   held, the bytes of a file that was unlinked after it was
             \*   opened; response, of a peer; rewritten, history
    origin   \* [version, file, writing, seen, changes]; seen, history: the
             \*   versions there were since the fetch began

sourcesVars == <<fetch, origin>>

Document(v) == [i \in 1 .. Length[v] |-> <<v, i>>]

ASSUME NothingIsNoDocument == \A v \in Versions : Document(v) # Nothing

Idle(kind) ==
    [pc |-> "idle", kind |-> kind, via |-> 0, body |-> <<>>, revision |-> Nothing,
     held |-> Nothing, response |-> Nothing, rewritten |-> FALSE]

FetchInit ==
    \E kind \in {"filesystem", "http", "github"}, v \in Versions :
        /\ fetch = Idle(kind)
        /\ origin = [version |-> v, file |-> Document(v), writing |-> Nothing,
                     seen |-> {v}, changes |-> 0]

FetchOff ==
    /\ fetch = [Idle("off") EXCEPT !.pc = "off"]
    /\ origin = [version |-> Nothing, file |-> <<>>, writing |-> Nothing,
                 seen |-> {}, changes |-> 0]

Busy == fetch.pc \in {"waiting", "reading"}

Fail == fetch' = [fetch EXCEPT !.pc = "failed"]

Answer(body, revision) ==
    fetch' = [fetch EXCEPT !.pc = "done", !.body = body, !.revision = revision]

-----------------------------------------------------------------------------
(* The origin *)

Changes ==
    /\ fetch.pc \in {"idle", "waiting", "reading"}
    /\ origin.writing = Nothing /\ origin.changes < MaxChanges

\* The document becomes another at once; whoever has the file open keeps the old.
Publish(v) ==
    /\ Changes /\ v # origin.version
    /\ origin' = [origin EXCEPT !.version = v, !.file = Document(v),
                                !.seen = @ \cup {v}, !.changes = @ + 1]
    /\ fetch' = IF fetch.pc = "reading" /\ fetch.held = Nothing
                THEN [fetch EXCEPT !.held = origin.file] ELSE fetch

\* The file is truncated and written again.
Rewrite(v) ==
    /\ Changes /\ fetch.kind = "filesystem" /\ v # origin.version
    /\ origin' = [origin EXCEPT !.file = <<>>, !.writing = v, !.changes = @ + 1]
    /\ fetch' = [fetch EXCEPT !.rewritten = @ \/ fetch.pc = "reading"]

WriteOn ==
    LET v == origin.writing IN
    /\ v # Nothing
    /\ origin' = IF Len(origin.file) < Length[v]
                 THEN [origin EXCEPT !.file = Append(@, <<v, Len(origin.file) + 1>>)]
                 ELSE [origin EXCEPT !.version = v, !.writing = Nothing,
                                     !.seen = @ \cup {v}]
    /\ UNCHANGED fetch

-----------------------------------------------------------------------------
(* filesystem.Fetch: os.ReadFile, to the end of the file as it then is     *)

OpenFile ==
    /\ fetch.kind = "filesystem" /\ fetch.pc = "idle"
    /\ fetch' = [fetch EXCEPT !.pc = "reading",
                              !.rewritten = origin.writing # Nothing]
    /\ UNCHANGED origin

ReadFile ==
    LET file == IF fetch.held = Nothing THEN origin.file ELSE fetch.held
        n    == Len(fetch.body)
    IN  /\ fetch.kind = "filesystem" /\ fetch.pc = "reading"
        /\ IF n < Len(file)
           THEN fetch' = [fetch EXCEPT !.body = Append(@, file[n + 1])]
           ELSE Answer(fetch.body, <<"fingerprint", fetch.body>>)
        /\ UNCHANGED origin

-----------------------------------------------------------------------------
(* http.Fetch and github.Fetch *)

\* What the peer sends: GitHub, no content of a file that is too large.
Sent(response) ==
    IF fetch.kind = "github" /\ Length[response.version] > ContentsLimit THEN <<>>
    ELSE Document(response.version)

\* One byte past the cap is read, to tell a body that has it from a larger one.
ReadUpTo_cap == MaxBytes

ReadUpTo == MaxBytes + 1

Request ==
    /\ fetch.kind \in {"http", "github"} /\ fetch.pc = "idle"
    /\ fetch' = [fetch EXCEPT !.pc = "waiting"]
    /\ UNCHANGED origin

\* A redirect beyond the limit, which only a guarded client of its own lowers,
\* ends the fetch.
Redirect ==
    /\ fetch.pc = "waiting"
    /\ IF fetch.via >= MaxRedirects THEN Fail
       ELSE fetch' = [fetch EXCEPT !.via = @ + 1]
    /\ UNCHANGED origin

Refuse ==
    /\ fetch.pc = "waiting"
    /\ Fail
    /\ UNCHANGED origin

\* The body's end is told by its length, or by the end of the connection.
Headers(status, marker, framing) ==
    /\ fetch.pc = "waiting"
    /\ fetch' = [fetch EXCEPT
                    !.pc = "reading",
                    !.response = [version |-> origin.version, status |-> status,
                                  marker |-> marker, framing |-> framing,
                                  cut |-> FALSE]]
    /\ UNCHANGED origin

Reading == fetch.kind \in {"http", "github"} /\ fetch.pc = "reading"

Receive ==
    LET n == Len(fetch.body) IN
    /\ Reading /\ ~fetch.response.cut
    /\ n < Len(Sent(fetch.response))
    /\ fetch.kind = "http" => n < ReadUpTo
    /\ fetch' = [fetch EXCEPT !.body = Append(@, Sent(fetch.response)[n + 1])]
    /\ UNCHANGED origin

Cut ==
    /\ Reading /\ Len(fetch.body) < Len(Sent(fetch.response))
    /\ ~fetch.response.cut
    /\ fetch' = [fetch EXCEPT !.response.cut = TRUE]
    /\ UNCHANGED origin

\* ETag or Last-Modified, else a fingerprint of the body.
Revision ==
    IF fetch.response.marker THEN <<"marker", fetch.response.version>>
    ELSE <<"fingerprint", fetch.body>>

\* What io.ReadAll takes for the end of the body.
Ended ==
    /\ Reading
    /\ \/ Len(fetch.body) = Len(Sent(fetch.response))
       \/ fetch.response.cut
       \/ fetch.kind = "http" /\ Len(fetch.body) = ReadUpTo

\* A body shorter than its length, a body over the cap, or a status other than
\* 200 fails the fetch.
EndOfBody ==
    /\ fetch.kind = "http" /\ Ended
    /\ IF \/ fetch.response.cut /\ fetch.response.framing = "length"
          \/ Len(fetch.body) > MaxBytes
          \/ fetch.response.status # 200
       THEN Fail
       ELSE Answer(fetch.body, Revision)
    /\ UNCHANGED origin

\* What GitHub sends is JSON, so its early end is noticed; the content in it is
\* taken as it is, and the revision is the sha beside it.
EndOfContents ==
    /\ fetch.kind = "github" /\ Ended
    /\ IF fetch.response.cut \/ fetch.response.status # 200 THEN Fail
       ELSE Answer(fetch.body, <<"marker", fetch.response.version>>)
    /\ UNCHANGED origin

\* The deadline of an HTTP fetch covers the connection, the headers and the
\* body.  GitHub is asked without one.
Expire_headers ==
    /\ fetch.kind = "http" /\ fetch.pc = "waiting"
    /\ Fail
    /\ UNCHANGED origin

Expire ==
    /\ fetch.kind = "http" /\ Busy
    /\ Fail
    /\ UNCHANGED origin

-----------------------------------------------------------------------------

FetchNext ==
    \/ \E v \in Versions : Publish(v) \/ Rewrite(v)
    \/ WriteOn
    \/ OpenFile \/ ReadFile
    \/ Request \/ Redirect \/ Refuse
    \/ \E status \in {200, 500}, marker \in BOOLEAN, framing \in {"length", "close"} :
          Headers(status, marker, framing)
    \/ Receive \/ Cut \/ EndOfBody \/ EndOfContents \/ Expire

FetchSpec == FetchInit /\ [][FetchNext]_sourcesVars

\* The local file system answers, and time passes; a peer need not do anything.
FetchFairness == WF_sourcesVars(ReadFile) /\ WF_sourcesVars(Expire)

-----------------------------------------------------------------------------
(* Properties *)

IsVersion(v) ==
    /\ fetch.body = Document(v)
    /\ fetch.revision \in {<<"marker", v>>, <<"fingerprint", Document(v)>>}

RewrittenMeanwhile == fetch.kind = "filesystem" /\ fetch.rewritten

EndedByTheConnection ==
    /\ fetch.kind = "http"
    /\ fetch.response.cut /\ fetch.response.framing = "close"

SentWithoutContent ==
    /\ fetch.kind = "github" /\ fetch.body = <<>>
    /\ Length[fetch.response.version] > ContentsLimit

\* What a fetch returns, to be hashed and stored as if it were the whole document
\* (http.go:453-456), is the whole of one version that the origin had since the
\* fetch began, with that version's revision; but for a file that was rewritten
\* in place meanwhile, a body whose end nothing but the connection tells, and a
\* file too large for GitHub's contents API.
FetchedIsWhole ==
    fetch.pc = "done" =>
        \/ \E v \in origin.seen : IsVersion(v)
        \/ RewrittenMeanwhile \/ EndedByTheConnection \/ SentWithoutContent

\* The inductive invariant of FetchedIsWhole.
Bytes == Versions \X Nat

Responses ==
    [version : Versions, status : {200, 500}, marker : BOOLEAN,
     framing : {"length", "close"}, cut : BOOLEAN]

FetchRecords ==
    [pc : {"idle", "waiting", "reading", "done", "failed"},
     kind : {"filesystem", "http", "github"}, via : Nat, body : Seq(Bytes),
     revision : {Nothing} \cup ({"marker"} \X Versions)
                   \cup ({"fingerprint"} \X Seq(Bytes)),
     held : {Nothing} \cup Seq(Bytes), response : {Nothing} \cup Responses,
     rewritten : BOOLEAN]

OriginRecords ==
    [version : Versions, file : Seq(Bytes), writing : {Nothing} \cup Versions,
     seen : SUBSET Versions, changes : Nat]

FetchTypeOK == fetch \in FetchRecords /\ origin \in OriginRecords

IsBeginning(s, t) == Len(s) <= Len(t) /\ \A i \in 1 .. Len(s) : s[i] = t[i]

\* The file is the document, or as much of the next one as has been written.
FileIsDocument ==
    /\ origin.version \in origin.seen
    /\ IF origin.writing = Nothing THEN origin.file = Document(origin.version)
       ELSE IsBeginning(origin.file, Document(origin.writing))

\* Nothing has been read before a fetch reads.  What a fetch has read then, of a
\* file that is not rewritten or of a response, is a beginning of one version.
BodyIsBeginning ==
    /\ fetch.pc \in {"idle", "waiting"} => fetch.body = <<>> /\ fetch.held = Nothing
    /\ fetch.pc = "waiting" => fetch.kind # "filesystem"
    /\ fetch.pc = "reading" /\ fetch.kind = "filesystem" /\ ~fetch.rewritten =>
          /\ origin.writing = Nothing
          /\ \E v \in origin.seen :
                /\ IsBeginning(fetch.body, Document(v))
                /\ fetch.held = Document(v)
                      \/ (fetch.held = Nothing /\ v = origin.version)
    /\ fetch.pc = "reading" /\ fetch.kind # "filesystem" =>
          /\ fetch.response \in Responses /\ fetch.response.version \in origin.seen
          /\ IsBeginning(fetch.body, Sent(fetch.response))

FetchIInv == FetchTypeOK /\ FileIsDocument /\ BodyIsBeginning /\ FetchedIsWhole

\* A fetch ends, whatever the peer does: "a source that accepts a connection and
\* then stalls" (http.go:52) does not hold a resolve for ever, unless it is GitHub.
FetchEnds == (Busy /\ fetch.kind # "github") ~> ~Busy
=============================================================================
