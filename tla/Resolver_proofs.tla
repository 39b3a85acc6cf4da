-------------------------- MODULE Resolver_proofs ---------------------------
(***************************************************************************)
(* TLAPS proofs about Resolver, for any sets of clients, resources, tags,  *)
(* contents, ids and policies, any clock bound and any length of a second: *)
(* the inductive invariant IInv and the properties that follow from it.    *)
(***************************************************************************)
EXTENDS Resolver, TLAPS

LEMMA InitIInv == Init => IInv
<1> SUFFICES ASSUME Init PROVE IInv
    OBVIOUS
<1> USE DEF Init, Free
<1>1. TypeOK
  <2>1. \A c \in Clients : req[c] \in FreeRequests /\ IsRequest(req[c])
      BY DEF FreeRequests, IsRequest
  <2>2. lastLive \in [Uris -> [Contents -> Int]]
      OBVIOUS
  <2> QED
      BY <2>1, <2>2 DEF TypeOK
<1>2. RowsHaveTheirBytes /\ MaterializedIsObserved /\ ObservedAtIsHonest
    BY DEF RowsHaveTheirBytes, MaterializedIsObserved, ObservedAtIsHonest
<1>3. PointersAreOwn /\ DeliveredReplays
    BY DEF PointersAreOwn, DeliveredReplays
<1>4. LiveNow
    BY DEF LiveNow
<1>5. \A c \in Clients : Knows(req[c])
    BY DEF Knows, Fetched, Delivering
<1> QED
    BY <1>1, <1>2, <1>3, <1>4, <1>5 DEF IInv

-----------------------------------------------------------------------------
(* What every step keeps *)

LEMMA FreeType ==
    ASSUME NEW a \in {"none", "ok", "not_found", "mismatch", "failed", "gone"}
    PROVE  IsRequest(Free(a)) /\ Free(a).pc = "idle"
BY DEF Free, FreeRequests, IsRequest

LEMMA ResolveType ==
    ASSUME TypeOK, NEW c \in Clients,
           req[c].pc \in {"evaluate", "tag", "fetch"} \cup Fetched \cup Delivering
    PROVE  req[c] \in Resolves
BY DEF TypeOK, IsRequest, FreeRequests, TagRequests, Fetched, Delivering

LEMMA TaggingType ==
    ASSUME TypeOK, NEW c \in Clients, req[c].pc \in {"set_tag", "read_tag"}
    PROVE  req[c] \in TagRequests
BY DEF TypeOK, IsRequest, FreeRequests, Resolves, Fetched, Delivering

LEMMA BecomesType ==
    ASSUME TypeOK, NEW c \in Clients, NEW p, IsRequest(p), Becomes(c, p)
    PROVE  /\ req' \in [Clients -> FreeRequests \cup TagRequests \cup Resolves]
           /\ \A d \in Clients : IsRequest(req'[d])
           /\ req'[c] = p /\ \A d \in Clients \ {c} : req'[d] = req[d]
<1>1. p \in FreeRequests \cup TagRequests \cup Resolves
    BY DEF IsRequest
<1>2. /\ req' \in [Clients -> FreeRequests \cup TagRequests \cup Resolves]
      /\ req'[c] = p /\ \A d \in Clients \ {c} : req'[d] = req[d]
    BY <1>1 DEF Becomes, TypeOK
<1> QED
    BY <1>2 DEF TypeOK

\* No step takes back a row, a blob or an observation.
Grows ==
    /\ clock <= clock'
    /\ \A u \in Uris : resources[u] # None => resources'[u] # None
    /\ \A s \in SnapIds : snapshots[s] # None => snapshots'[s] = snapshots[s]
    /\ \A s \in SnapIds : mats[s] # None => mats'[s] = mats[s]
    /\ blobs \subseteq blobs'
    /\ \A u \in Uris, x \in Contents : lastLive[u][x] <= lastLive'[u][x]

\* A request goes on knowing what it knew while others move.
LEMMA Kept ==
    ASSUME IInv, Grows, NEW c \in Clients, req'[c] = req[c],
           clock' \in Nat, lastLive' \in [Uris -> [Contents -> Int]]
    PROVE  Knows(req[c])'
<1> DEFINE q == req[c]
<1>1. IsRequest(q) /\ Knows(q) /\ clock \in Nat /\ lastLive \in [Uris -> [Contents -> Int]]
    BY DEF IInv, TypeOK
<1>2. q.pc \in {"set_tag"} => q \in TagRequests
    BY TaggingType DEF IInv
<1>3. q.pc \in {"evaluate", "tag", "fetch"} \cup Fetched \cup Delivering => q \in Resolves
    BY ResolveType DEF IInv
<1>4. q.pc \in Fetched \cup Delivering => q.content \in Contents
    BY <1>1 DEF IsRequest, FreeRequests, TagRequests, Fetched, Delivering
<1>5. q.pc \in {"point"} \cup Delivering => q.snap \in SnapIds
    BY <1>1 DEF IsRequest, FreeRequests, TagRequests, Delivering
<1>6. q.pc \in Fetched => q.now <= lastLive'[q.uri][q.content]
  <2> HAVE q.pc \in Fetched
  <2>1. q.uri \in Uris /\ q.content \in Contents /\ q.now \in Nat
      BY <1>3, <1>4 DEF Resolves
  <2>2. lastLive[q.uri][q.content] \in Int /\ lastLive'[q.uri][q.content] \in Int
      BY <2>1, <1>1
  <2>3. q.now <= lastLive[q.uri][q.content]
      BY <1>1 DEF Knows
  <2>4. lastLive[q.uri][q.content] <= lastLive'[q.uri][q.content]
      BY <2>1 DEF Grows
  <2> QED
      BY <2>1, <2>2, <2>3, <2>4
<1>7. q.pc \in {"evaluate", "tag", "fetch"} \cup Fetched \cup Delivering =>
          q.uri \in Uris /\ q.now \in Nat /\ q.current \in SnapIds \cup {None}
    BY <1>3 DEF Resolves
<1>8. q.pc = "set_tag" => q.snap \in SnapIds
    BY <1>2 DEF TagRequests
<1>9. q.pc \in {"evaluate", "tag", "fetch"} \cup Fetched \cup Delivering =>
          resources'[q.uri] # None /\ q.now <= clock'
    BY <1>1, <1>7 DEF Knows, Grows
<1>10. q.pc \in {"point"} \cup Delivering => snapshots'[q.snap] = snapshots[q.snap]
    BY <1>1, <1>5 DEF Knows, Exists, Grows
<1>11. q.pc \in {"evaluate", "tag"} /\ q.current # None =>
          snapshots'[q.current] = snapshots[q.current]
    BY <1>1, <1>7 DEF Knows, Exists, Grows
<1>12. q.pc = "set_tag" => snapshots'[q.snap] = snapshots[q.snap]
    BY <1>1, <1>8 DEF Knows, Exists, Grows
<1>13. q.pc = "answer" => mats'[q.snap] = q.content
    BY <1>1, <1>4, <1>5, NoneIsNoValue DEF Knows, Delivering, Grows
<1>14. blobs \subseteq blobs'
    BY DEF Grows
<1> HIDE DEF q
<1> SUFFICES Knows(q)'
    BY DEF q
<1>15. q' = q
    BY DEF q
<1> QED
    BY <1>1, <1>6, <1>9, <1>10, <1>11, <1>12, <1>13, <1>14, <1>15 DEF Knows, Exists

\* A step that only moves one request keeps the invariant when the request
\* has read right.
LEMMA Quiet ==
    ASSUME IInv, NEW c \in Clients, NEW p, IsRequest(p), Knows(p),
           Becomes(c, p), UNCHANGED <<world, db, blobs, delivered>>
    PROVE  IInv'
<1> USE DEF world, db
<1>1. TypeOK
    BY DEF IInv
<1>2. /\ req' \in [Clients -> FreeRequests \cup TagRequests \cup Resolves]
      /\ \A d \in Clients : IsRequest(req'[d])
      /\ req'[c] = p /\ \A d \in Clients \ {c} : req'[d] = req[d]
    BY <1>1, BecomesType
<1>3. TypeOK'
    BY <1>1, <1>2 DEF TypeOK
<1>4. Grows
  <2>1. \A u \in Uris, x \in Contents : lastLive[u][x] \in Int
      BY <1>1 DEF TypeOK
  <2>2. clock \in Nat
      BY <1>1 DEF TypeOK
  <2> QED
      BY <2>1, <2>2 DEF Grows
<1>5. \A d \in Clients : Knows(req[d])'
  <2> SUFFICES ASSUME NEW d \in Clients PROVE Knows(req[d])'
      OBVIOUS
  <2>1. CASE d = c
      BY <2>1, <1>2 DEF Knows, Exists
  <2>2. CASE d # c
      BY <2>2, <1>2, <1>3, <1>4, Kept DEF TypeOK
  <2> QED
      BY <2>1, <2>2
<1>6. RowsHaveTheirBytes' /\ MaterializedIsObserved' /\ ObservedAtIsHonest'
    BY DEF IInv, RowsHaveTheirBytes, MaterializedIsObserved, ObservedAtIsHonest, Exists
<1>7. PointersAreOwn' /\ DeliveredReplays'
    BY DEF IInv, PointersAreOwn, DeliveredReplays, Replay, Exists
<1>8. LiveNow'
    BY DEF IInv, LiveNow
<1> QED
    BY <1>3, <1>5, <1>6, <1>7, <1>8 DEF IInv

\* A request that answers knows nothing any more.
LEMMA AnswerQuiet ==
    ASSUME IInv, NEW c \in Clients,
           NEW a \in {"none", "ok", "not_found", "mismatch", "failed", "gone"},
           Answer(c, a), UNCHANGED <<world, db, blobs, delivered>>
    PROVE  IInv'
<1>1. Knows(Free(a))
    BY FreeType DEF Knows, Fetched, Delivering
<1> QED
    BY <1>1, FreeType, Quiet DEF Answer

-----------------------------------------------------------------------------
(* The steps of a request *)

LEMMA ResolvingType ==
    ASSUME NEW pc \in {"evaluate", "tag"}, NEW u \in Uris,
           NEW ref \in Tags \cup {None}, NEW policy \in AskedPolicy,
           NEW current \in SnapIds \cup {None}
    PROVE  LET p == Resolving(pc, u, ref, policy, current) IN
           /\ IsRequest(p) /\ p.pc = pc /\ p.uri = u /\ p.ref = ref
           /\ p.current = current /\ p.now = 0
BY DEF Resolving, IsRequest, Resolves, Fetched, Delivering, Decisions

LEMMA LookupKeeps ==
    ASSUME IInv, NEW c \in Clients, NEW u \in Uris, NEW ref \in Tags \cup {None},
           Lookup(c, u, ref)
    PROVE  IInv'
<1>1. CASE resources[u] = None
    BY <1>1, AnswerQuiet DEF Lookup
<1>2. CASE resources[u] # None
  <2> DEFINE pc == IF ref = None THEN "evaluate" ELSE "tag"
             p == Resolving(pc, u, ref, resources[u].policy, resources[u].current)
  <2>1. resources[u] \in ResourceRows /\ clock \in Nat
      BY <1>2 DEF IInv, TypeOK
  <2>2. /\ IsRequest(p) /\ p.pc = pc /\ p.uri = u /\ p.ref = ref
        /\ p.current = resources[u].current /\ p.now = 0
      BY <2>1, ResolvingType DEF ResourceRows
  <2>3. Becomes(c, p) /\ UNCHANGED <<world, db, blobs, delivered>>
      BY <1>2 DEF Lookup
  <2>4. resources[u].current # None =>
            /\ Exists(resources[u].current)
            /\ snapshots[resources[u].current].uri = u
      BY <1>2 DEF IInv, PointersAreOwn
  <2> HIDE DEF p
  <2>5. Knows(p)
      BY <1>2, <2>1, <2>2, <2>4 DEF Knows, Fetched, Delivering
  <2> QED
      BY <2>2, <2>3, <2>5, Quiet
<1> QED
    BY <1>1, <1>2

\* What Serve goes on with: the stored snapshot s.
LEMMA Serves ==
    ASSUME IInv, NEW c \in Clients, NEW s \in SnapIds \cup {None},
           req[c].pc \in {"evaluate", "tag"},
           NEW decision \in {"use_tag", "use_pinned", "use_current"},
           decision = "use_tag" <=> req[c].pc = "tag",
           decision # "use_pinned" /\ Exists(s) => snapshots[s].uri = req[c].uri,
           decision = "use_pinned" => req[c].policy.strategy = "pinned",
           decision = "use_current" /\ Exists(s) =>
               /\ req[c].policy.strategy = "allow_stale"
               /\ req[c].policy.maxAge > 0 =>
                      clock - snapshots[s].at <= req[c].policy.maxAge,
           Serve(c, s, decision), UNCHANGED <<world, db, blobs, delivered>>
    PROVE  IInv'
<1>1. CASE s = None \/ snapshots[s] = None \/ snapshots[s].content \notin blobs
    BY <1>1, AnswerQuiet DEF Serve
<1>2. CASE s # None /\ snapshots[s] # None /\ snapshots[s].content \in blobs
  <2> DEFINE q == req[c]
             p == [q EXCEPT !.pc = "find_mat", !.now = clock, !.decision = decision,
                            !.snap = s, !.content = snapshots[s].content]
  <2>1. q \in Resolves /\ Knows(q)
      BY ResolveType DEF IInv
  <2>2. s \in SnapIds /\ snapshots[s] \in SnapshotRows /\ clock \in Nat
      BY <1>2 DEF IInv, TypeOK
  <2>3. snapshots[s].content \in Contents
      BY <2>2 DEF SnapshotRows
  <2>4. /\ p \in Resolves /\ p.pc = "find_mat" /\ p.uri = q.uri /\ p.ref = q.ref
        /\ p.policy = q.policy /\ p.now = clock /\ p.decision = decision
        /\ p.snap = s /\ p.content = snapshots[s].content
      BY <2>1, <2>2, <2>3 DEF Resolves, Fetched, Delivering, Decisions
  <2>5. Becomes(c, p)
      BY <1>2 DEF Serve
  <2>6. (q.pc = "tag") = (q.ref # None) /\ resources[q.uri] # None
      BY <2>1 DEF Knows
  <2> HIDE DEF p
  <2>7. IsRequest(p)
      BY <2>2, <2>3, <2>4 DEF IsRequest, Fetched, Delivering, Decisions
  <2>8. Knows(p)
      BY <1>2, <2>2, <2>4, <2>6 DEF Knows, Exists, Fetched, Delivering
  <2> QED
      BY <2>5, <2>7, <2>8, Quiet
<1> QED
    BY <1>1, <1>2

LEMMA UseTagKeeps ==
    ASSUME IInv, NEW c \in Clients, UseTag(c)
    PROVE  IInv'
<1> DEFINE q == req[c]
<1>1. q \in Resolves /\ Knows(q) /\ q.pc = "tag"
    BY ResolveType DEF IInv, UseTag
<1>2. q.uri \in Uris /\ q.ref \in Tags
    BY <1>1 DEF Resolves, Knows
<1>3. tags[q.uri][q.ref] \in SnapIds \cup {None}
    BY <1>2 DEF IInv, TypeOK
<1>4. Exists(tags[q.uri][q.ref]) => snapshots[tags[q.uri][q.ref]].uri = q.uri
    BY <1>2 DEF IInv, PointersAreOwn, Exists
<1> QED
    BY <1>1, <1>3, <1>4, Serves DEF UseTag

LEMMA DecideKeeps ==
    ASSUME IInv, NEW c \in Clients, Decide(c)
    PROVE  IInv'
<1> DEFINE q == req[c]
           at == IF q.current = None THEN NoCurrent ELSE snapshots[q.current].at
           decision == Evaluate(q.policy, at, clock)
<1>1. /\ q \in Resolves /\ Knows(q) /\ q.pc = "evaluate"
      /\ UNCHANGED <<world, db, blobs, delivered>>
    BY ResolveType DEF IInv, Decide
<1>2. /\ q.policy \in AskedPolicy /\ q.current \in SnapIds \cup {None}
      /\ q.policy.strategy \in Strategies /\ q.policy.pin \in SnapIds \cup {None}
      /\ q.policy.maxAge \in Nat /\ clock \in Nat /\ q.uri \in Uris
    BY <1>1 DEF Resolves, AskedPolicy, IInv, TypeOK
<1>3. q.current # None => Exists(q.current) /\ snapshots[q.current].uri = q.uri
    BY <1>1 DEF Knows
<1>4. q.current # None => at = snapshots[q.current].at /\ at \in Nat
    BY <1>2, <1>3 DEF Exists, IInv, TypeOK, SnapshotRows
<1>5. /\ q.policy.strategy = "pinned" => decision = "use_pinned"
      /\ q.policy.strategy = "require_fresh" => decision = "fetch"
      /\ q.policy.strategy = "allow_stale" =>
            decision = IF at = NoCurrent \/ (q.policy.maxAge > 0 /\ clock - at > q.policy.maxAge)
                       THEN "fetch" ELSE "use_current"
    BY DEF Evaluate
<1>6. \/ decision = "use_pinned" /\ q.policy.strategy = "pinned"
      \/ decision = "fetch"
      \/ /\ decision = "use_current" /\ q.policy.strategy = "allow_stale"
         /\ at # NoCurrent
         /\ ~(q.policy.maxAge > 0 /\ clock - at > q.policy.maxAge)
    BY <1>2, <1>5 DEF Strategies
<1>7. /\ decision = "use_pinned" => Serve(c, q.policy.pin, "use_pinned")
      /\ decision = "use_current" => Serve(c, q.current, "use_current")
      /\ decision = "fetch" =>
            Becomes(c, [q EXCEPT !.pc = "fetch", !.now = clock, !.decision = "fetch"])
  <2>1. ~(q.current # None /\ snapshots[q.current] = None)
      BY <1>3 DEF Exists
  <2> HIDE DEF decision
  <2>2. CASE decision = "use_pinned"
      BY <2>1, <2>2 DEF Decide, decision
  <2>3. CASE decision = "use_current"
      BY <2>1, <2>3 DEF Decide, decision
  <2>4. CASE decision = "fetch"
      BY <2>1, <2>4 DEF Decide, decision
  <2> QED
      BY <2>2, <2>3, <2>4
<1> HIDE DEF decision
<1>8. CASE decision = "use_pinned"
    BY <1>1, <1>2, <1>6, <1>7, <1>8, Serves
<1>9. CASE decision = "use_current"
  <2>1. q.current # None /\ q.policy.strategy = "allow_stale"
      BY <1>6, <1>9
  <2>2. q.policy.maxAge > 0 => clock - snapshots[q.current].at <= q.policy.maxAge
      BY <1>2, <1>4, <1>6, <1>9, <2>1
  <2> QED
      BY <1>1, <1>2, <1>3, <1>7, <1>9, <2>1, <2>2, Serves
<1>10. CASE decision = "fetch"
  <2> DEFINE p == [q EXCEPT !.pc = "fetch", !.now = clock, !.decision = "fetch"]
  <2>1. /\ p \in Resolves /\ p.pc = "fetch" /\ p.uri = q.uri /\ p.ref = q.ref
        /\ p.now = clock /\ p.decision = "fetch"
      BY <1>1, <1>2 DEF Resolves, Decisions
  <2>2. Becomes(c, p)
      BY <1>7, <1>10
  <2>3. q.ref = None /\ resources[q.uri] # None
      BY <1>1 DEF Knows
  <2> HIDE DEF p
  <2>4. IsRequest(p)
      BY <2>1 DEF IsRequest, Fetched, Delivering
  <2>5. Knows(p)
      BY <1>2, <2>1, <2>3 DEF Knows, Fetched, Delivering
  <2> QED
      BY <1>1, <2>2, <2>4, <2>5, Quiet
<1> QED
    BY <1>6, <1>8, <1>9, <1>10

LEMMA FetchKeeps ==
    ASSUME IInv, NEW c \in Clients, Fetch(c)
    PROVE  IInv'
<1> DEFINE q == req[c]
           p == [q EXCEPT !.pc = "put", !.content = source[q.uri]]
<1>1. /\ q \in Resolves /\ Knows(q) /\ q.pc = "fetch"
      /\ UNCHANGED <<world, db, blobs, delivered>>
    BY ResolveType DEF IInv, Fetch
<1>2. Becomes(c, p) \/ Answer(c, "failed")
    BY DEF Fetch
<1>3. q.uri \in Uris /\ q.now \in Nat /\ source[q.uri] \in Contents /\ clock \in Nat
    BY <1>1 DEF Resolves, IInv, TypeOK
<1>4. /\ p \in Resolves /\ p.pc = "put" /\ p.uri = q.uri /\ p.ref = q.ref
      /\ p.now = q.now /\ p.decision = q.decision /\ p.content = source[q.uri]
    BY <1>1, <1>3 DEF Resolves, Fetched
<1>5. lastLive[q.uri][source[q.uri]] = clock
    BY <1>3 DEF IInv, LiveNow
<1>6. /\ q.ref = None /\ resources[q.uri] # None
      /\ q.now <= clock /\ q.decision = "fetch"
    BY <1>1 DEF Knows
<1> HIDE DEF p
<1>7. IsRequest(p)
    BY <1>3, <1>4, <1>6 DEF IsRequest, Fetched, Delivering, Decisions
<1>8. Knows(p)
    BY <1>4, <1>5, <1>6 DEF Knows, Fetched, Delivering
<1> QED
    BY <1>1, <1>2, <1>7, <1>8, Quiet, AnswerQuiet

LEMMA FindMaterializationKeeps ==
    ASSUME IInv, NEW c \in Clients, FindMaterialization(c)
    PROVE  IInv'
<1> DEFINE q == req[c]
           pc == IF mats[q.snap] = None THEN "put_mat" ELSE "answer"
           p == [q EXCEPT !.pc = pc]
<1>1. /\ q \in Resolves /\ Knows(q) /\ IsRequest(q) /\ q.pc = "find_mat"
      /\ UNCHANGED <<world, db, blobs, delivered>> /\ Becomes(c, p)
    BY ResolveType DEF IInv, TypeOK, FindMaterialization, Delivering
<1>2. q.snap \in SnapIds /\ q.content \in Contents /\ q.decision \in Decisions
    BY <1>1 DEF IsRequest, FreeRequests, TagRequests, Delivering
<1>3. /\ p \in Resolves /\ p.pc = pc /\ p.uri = q.uri /\ p.ref = q.ref
      /\ p.policy = q.policy /\ p.now = q.now /\ p.decision = q.decision
      /\ p.snap = q.snap /\ p.content = q.content
    BY <1>1 DEF Resolves, Delivering
<1>4. pc = "answer" => mats[q.snap] = q.content
    BY <1>1, <1>2 DEF IInv, MaterializedIsObserved, Knows, Delivering
<1>5. pc \in {"put_mat", "answer"}
    OBVIOUS
<1> HIDE DEF p, pc
<1>6. IsRequest(p)
    BY <1>2, <1>3, <1>5 DEF IsRequest
<1>7. Knows(p)
    BY <1>1, <1>3, <1>4, <1>5 DEF Knows, Fetched, Delivering
<1> QED
    BY <1>1, <1>6, <1>7, Quiet

LEMMA SetTagKeeps ==
    ASSUME IInv, NEW c \in Clients, NEW u \in Uris, NEW name \in Tags,
           NEW s \in SnapIds, SetTag(c, u, name, s)
    PROVE  IInv'
<1> DEFINE p == Tagging("set_tag", u, name, s)
<1>1. \/ Answer(c, "not_found") \/ Answer(c, "mismatch")
      \/ snapshots[s] # None /\ snapshots[s].uri = u /\ Becomes(c, p)
    BY DEF SetTag
<1>2. UNCHANGED <<world, db, blobs, delivered>>
    BY DEF SetTag
<1>3. /\ IsRequest(p) /\ p.pc = "set_tag" /\ p.uri = u /\ p.snap = s
    BY DEF IsRequest, TagRequests, Tagging
<1> HIDE DEF p
<1>4. snapshots[s] # None /\ snapshots[s].uri = u => Knows(p)
    BY <1>3, NoneIsNoValue DEF Knows, Exists, Fetched, Delivering
<1> QED
    BY <1>1, <1>2, <1>3, <1>4, Quiet, AnswerQuiet

LEMMA ReadTagKeeps ==
    ASSUME IInv, NEW c \in Clients, ReadTag(c)
    PROVE  IInv'
<1>1. Answer(c, "not_found") \/ Answer(c, "ok")
    BY DEF ReadTag
<1> QED
    BY <1>1, AnswerQuiet DEF ReadTag

LEMMA FailKeeps ==
    ASSUME IInv, NEW c \in Clients, Fail(c)
    PROVE  IInv'
BY AnswerQuiet DEF Fail

\* The steps that write: the others know what they knew.
LEMMA OthersKnow ==
    ASSUME IInv, Grows, NEW c \in Clients, NEW p, IsRequest(p), Becomes(c, p),
           clock' = clock, lastLive' = lastLive, Knows(req[c])'
    PROVE  \A d \in Clients : Knows(req[d])'
<1> SUFFICES ASSUME NEW d \in Clients, d # c PROVE Knows(req[d])'
    OBVIOUS
<1>1. req'[d] = req[d]
    BY BecomesType DEF IInv
<1>2. clock' \in Nat /\ lastLive' \in [Uris -> [Contents -> Int]]
    BY DEF IInv, TypeOK
<1> QED
    BY <1>1, <1>2, Kept

LEMMA StillLive ==
    ASSUME IInv, clock' = clock, lastLive' = lastLive
    PROVE  /\ clock <= clock'
           /\ \A u \in Uris, x \in Contents : lastLive[u][x] <= lastLive'[u][x]
<1>1. clock \in Nat /\ \A u \in Uris, x \in Contents : lastLive[u][x] \in Int
    BY DEF IInv, TypeOK
<1> QED
    BY <1>1

\* Bytes are stored before anything names them.
LEMMA StoreKeeps ==
    ASSUME IInv, NEW c \in Clients, NEW p, IsRequest(p), Becomes(c, p),
           NEW x \in Contents, blobs' = blobs \cup {x},
           UNCHANGED <<world, db, delivered>>, Knows(req[c])'
    PROVE  IInv'
<1> USE DEF world, db
<1>1. Grows
    BY StillLive DEF Grows
<1>2. TypeOK'
    BY BecomesType DEF IInv, TypeOK
<1>3. \A d \in Clients : Knows(req[d])'
    BY <1>1, OthersKnow
<1>4. RowsHaveTheirBytes' /\ MaterializedIsObserved' /\ ObservedAtIsHonest'
    BY DEF IInv, RowsHaveTheirBytes, MaterializedIsObserved, ObservedAtIsHonest, Exists
<1>5. PointersAreOwn'
    BY DEF IInv, PointersAreOwn, Exists
<1>6. DeliveredReplays'
  <2> SUFFICES ASSUME NEW d \in delivered PROVE Replay(d.snap)' = d.content
      BY DEF DeliveredReplays
  <2>1. d.content \in Contents
      BY DEF IInv, TypeOK
  <2>2. mats[d.snap] \in blobs /\ mats[d.snap] = d.content
      BY <2>1, NoneIsNoValue DEF IInv, DeliveredReplays, Replay
  <2> QED
      BY <2>2 DEF Replay
<1>7. LiveNow'
    BY DEF IInv, LiveNow
<1> QED
    BY <1>2, <1>3, <1>4, <1>5, <1>6, <1>7 DEF IInv

LEMMA PutBlobKeeps ==
    ASSUME IInv, NEW c \in Clients, PutBlob(c)
    PROVE  IInv'
<1> DEFINE q == req[c]
           p == [q EXCEPT !.pc = "insert"]
<1>1. /\ q \in Resolves /\ Knows(q) /\ IsRequest(q) /\ q.pc = "put"
      /\ blobs' = blobs \cup {q.content} /\ Becomes(c, p)
      /\ UNCHANGED <<world, db, delivered>>
    BY ResolveType DEF IInv, TypeOK, PutBlob, Fetched
<1>2. q.content \in Contents /\ q.decision \in Decisions
    BY <1>1 DEF IsRequest, FreeRequests, TagRequests, Fetched
<1>3. /\ p \in Resolves /\ p.pc = "insert" /\ p.uri = q.uri /\ p.ref = q.ref
      /\ p.now = q.now /\ p.decision = q.decision /\ p.content = q.content
    BY <1>1 DEF Resolves, Fetched
<1> HIDE DEF p
<1>4. IsRequest(p)
    BY <1>2, <1>3 DEF IsRequest, Delivering
<1>5. req'[c] = p
    BY <1>1, <1>4, BecomesType DEF IInv
<1>6. Knows(req[c])'
    BY <1>1, <1>3, <1>5 DEF Knows, world, db, Fetched, Delivering
<1> QED
    BY <1>1, <1>2, <1>4, <1>6, StoreKeeps

LEMMA PutMaterializationKeeps ==
    ASSUME IInv, NEW c \in Clients, PutMaterialization(c)
    PROVE  IInv'
<1> DEFINE q == req[c]
           p == [q EXCEPT !.pc = "insert_mat"]
<1>1. /\ q \in Resolves /\ Knows(q) /\ IsRequest(q) /\ q.pc = "put_mat"
      /\ blobs' = blobs \cup {q.content} /\ Becomes(c, p)
      /\ UNCHANGED <<world, db, delivered>>
    BY ResolveType DEF IInv, TypeOK, PutMaterialization, Delivering
<1>2. q.content \in Contents /\ q.decision \in Decisions /\ q.snap \in SnapIds
    BY <1>1 DEF IsRequest, FreeRequests, TagRequests, Delivering
<1>3. /\ p \in Resolves /\ p.pc = "insert_mat" /\ p.uri = q.uri /\ p.ref = q.ref
      /\ p.policy = q.policy /\ p.now = q.now /\ p.decision = q.decision
      /\ p.snap = q.snap /\ p.content = q.content
    BY <1>1 DEF Resolves, Delivering
<1> HIDE DEF p
<1>4. IsRequest(p)
    BY <1>2, <1>3 DEF IsRequest
<1>5. req'[c] = p
    BY <1>1, <1>4, BecomesType DEF IInv
<1>6. Knows(req[c])'
    BY <1>1, <1>3, <1>5 DEF Knows, Exists, world, db, Fetched, Delivering
<1> QED
    BY <1>1, <1>2, <1>4, <1>6, StoreKeeps

LEMMA ReplyKeeps ==
    ASSUME IInv, NEW c \in Clients, Reply(c)
    PROVE  IInv'
<1> USE DEF world, db
<1> DEFINE q == req[c]
           p == Free("ok")
<1>1. /\ q \in Resolves /\ Knows(q) /\ IsRequest(q) /\ q.pc = "answer"
      /\ delivered' = delivered \cup {[snap |-> q.snap, content |-> q.content]}
      /\ Becomes(c, p) /\ UNCHANGED <<world, db, blobs>>
    BY ResolveType DEF IInv, TypeOK, Reply, Answer, Delivering
<1>2. q.content \in Contents /\ q.snap \in SnapIds
    BY <1>1 DEF IsRequest, FreeRequests, TagRequests, Delivering
<1>3. mats[q.snap] = q.content /\ q.content \in blobs
    BY <1>1 DEF Knows, Delivering
<1>4. IsRequest(p) /\ p.pc = "idle"
    BY FreeType
<1> HIDE DEF p
<1>5. Grows
    BY <1>1, StillLive DEF Grows
<1>6. req'[c] = p
    BY <1>1, <1>4, BecomesType DEF IInv
<1>7. Knows(req[c])'
    BY <1>4, <1>6 DEF Knows, Fetched, Delivering
<1>8. \A d \in Clients : Knows(req[d])'
    BY <1>1, <1>4, <1>5, <1>7, OthersKnow
<1>9. TypeOK'
    BY <1>1, <1>2, <1>4, BecomesType DEF IInv, TypeOK
<1>10. RowsHaveTheirBytes' /\ MaterializedIsObserved' /\ ObservedAtIsHonest'
    BY <1>1 DEF IInv, RowsHaveTheirBytes, MaterializedIsObserved, ObservedAtIsHonest, Exists
<1>11. PointersAreOwn' /\ LiveNow'
    BY <1>1 DEF IInv, PointersAreOwn, LiveNow, Exists
<1>12. DeliveredReplays'
    BY <1>1, <1>3 DEF IInv, DeliveredReplays, Replay
<1> QED
    BY <1>8, <1>9, <1>10, <1>11, <1>12 DEF IInv

LEMMA InsertSnapshotKeeps ==
    ASSUME IInv, NEW c \in Clients, InsertSnapshot(c)
    PROVE  IInv'
<1> USE DEF world
<1> DEFINE q == req[c]
           row == [uri |-> q.uri, content |-> q.content, at |-> q.now]
<1>1. /\ q \in Resolves /\ Knows(q) /\ IsRequest(q) /\ q.pc = "insert"
      /\ UNCHANGED <<world, resources, mats, tags, blobs, delivered>>
    BY ResolveType DEF IInv, TypeOK, InsertSnapshot, Fetched
<1>2. PICK s \in SnapIds :
          /\ snapshots[s] = None
          /\ snapshots' = [snapshots EXCEPT ![s] = row]
          /\ Becomes(c, [q EXCEPT !.pc = "point", !.snap = s])
    BY DEF InsertSnapshot, ObservedAt
<1> DEFINE p == [q EXCEPT !.pc = "point", !.snap = s]
<1>3. q.content \in Contents /\ q.decision \in Decisions /\ q.uri \in Uris /\ q.now \in Nat
    BY <1>1 DEF IsRequest, FreeRequests, TagRequests, Resolves, Fetched
<1>4. row \in SnapshotRows /\ row # None
    BY <1>3, NoneIsNoValue DEF SnapshotRows
<1>5. /\ p \in Resolves /\ p.pc = "point" /\ p.uri = q.uri /\ p.ref = q.ref
      /\ p.now = q.now /\ p.decision = q.decision /\ p.content = q.content
      /\ p.snap = s
    BY <1>1 DEF Resolves, Fetched
<1>6. row.uri = q.uri /\ row.content = q.content /\ row.at = q.now
    OBVIOUS
<1> HIDE DEF p, row
<1>7. snapshots' \in [SnapIds -> SnapshotRows \cup {None}] /\ snapshots'[s] = row
    BY <1>2, <1>4 DEF IInv, TypeOK
<1>8. \A t \in SnapIds \ {s} : snapshots'[t] = snapshots[t]
    BY <1>2 DEF IInv, TypeOK
<1>9. Grows
    BY <1>1, <1>2, <1>8, StillLive DEF Grows
<1>10. IsRequest(p)
    BY <1>3, <1>5 DEF IsRequest, Delivering
<1>11. Becomes(c, p)
    BY <1>2 DEF p
<1>12. req'[c] = p
    BY <1>10, <1>11, BecomesType DEF IInv
<1>13. Knows(req[c])'
    BY <1>1, <1>2, <1>3, <1>4, <1>5, <1>6, <1>7, <1>12, NoneIsNoValue
       DEF Knows, Exists, Fetched, Delivering, Decisions
<1>14. \A d \in Clients : Knows(req[d])'
    BY <1>1, <1>9, <1>10, <1>11, <1>13, OthersKnow
<1>15. TypeOK'
    BY <1>1, <1>7, <1>10, <1>11, BecomesType DEF IInv, TypeOK
<1>16. RowsHaveTheirBytes'
    BY <1>1, <1>6, <1>7, <1>8 DEF IInv, RowsHaveTheirBytes, Knows
<1>17. MaterializedIsObserved'
    BY <1>1, <1>2, <1>8 DEF IInv, MaterializedIsObserved, Exists
<1>18. PointersAreOwn'
  <2>1. \A t \in SnapIds : snapshots[t] # None => snapshots'[t] = snapshots[t]
      BY <1>2, <1>8
  <2>2. /\ \A u \in Uris : resources[u] # None => resources[u].current \in SnapIds \cup {None}
        /\ \A u \in Uris, n \in Tags : tags[u][n] \in SnapIds \cup {None}
      BY DEF IInv, TypeOK, ResourceRows
  <2> QED
      BY <1>1, <2>1, <2>2 DEF IInv, PointersAreOwn, Exists
<1>19. ObservedAtIsHonest'
  <2>1. q.now <= lastLive[q.uri][q.content]
      BY <1>1 DEF Knows, Fetched
  <2> QED
      BY <1>1, <1>6, <1>7, <1>8, <2>1 DEF IInv, ObservedAtIsHonest
<1>20. DeliveredReplays' /\ LiveNow'
    BY <1>1 DEF IInv, DeliveredReplays, LiveNow, Replay
<1> QED
    BY <1>14, <1>15, <1>16, <1>17, <1>18, <1>19, <1>20 DEF IInv

LEMMA PointCurrentKeeps ==
    ASSUME IInv, NEW c \in Clients, PointCurrent(c)
    PROVE  IInv'
<1> USE DEF world
<1> DEFINE q == req[c]
           p == [q EXCEPT !.pc = "find_mat"]
           row == [resources[q.uri] EXCEPT !.current = q.snap]
<1>1. /\ q \in Resolves /\ Knows(q) /\ IsRequest(q) /\ q.pc = "point"
      /\ UNCHANGED <<world, snapshots, mats, tags, blobs, delivered>>
      /\ resources' = [resources EXCEPT ![q.uri] = row] /\ Becomes(c, p)
    BY ResolveType DEF IInv, TypeOK, PointCurrent, Fetched
<1>2. /\ q.content \in Contents /\ q.decision \in Decisions
      /\ q.snap \in SnapIds /\ q.uri \in Uris
    BY <1>1 DEF IsRequest, FreeRequests, TagRequests, Resolves, Fetched
<1>3. /\ Exists(q.snap) /\ snapshots[q.snap].uri = q.uri /\ resources[q.uri] # None
    BY <1>1 DEF Knows, Fetched
<1>4. resources[q.uri] \in ResourceRows
    BY <1>2, <1>3 DEF IInv, TypeOK
<1>5. row \in ResourceRows /\ row # None /\ row.current = q.snap
    BY <1>2, <1>4, NoneIsNoValue DEF ResourceRows
<1>6. /\ p \in Resolves /\ p.pc = "find_mat" /\ p.uri = q.uri /\ p.ref = q.ref
      /\ p.policy = q.policy /\ p.now = q.now /\ p.decision = q.decision
      /\ p.content = q.content /\ p.snap = q.snap
    BY <1>1 DEF Resolves, Delivering
<1> HIDE DEF p, row
<1>7. /\ resources' \in [Uris -> ResourceRows \cup {None}]
      /\ resources'[q.uri] = row /\ \A u \in Uris \ {q.uri} : resources'[u] = resources[u]
    BY <1>1, <1>2, <1>5 DEF IInv, TypeOK
<1>8. Grows
    BY <1>1, <1>5, <1>7, StillLive DEF Grows
<1>9. IsRequest(p)
    BY <1>2, <1>6 DEF IsRequest
<1>10. req'[c] = p
    BY <1>1, <1>9, BecomesType DEF IInv
<1>11. Knows(req[c])'
    BY <1>1, <1>3, <1>5, <1>6, <1>7, <1>10 DEF Knows, Exists, Fetched, Delivering
<1>12. \A d \in Clients : Knows(req[d])'
    BY <1>1, <1>8, <1>9, <1>11, OthersKnow
<1>13. TypeOK'
    BY <1>1, <1>7, <1>9, BecomesType DEF IInv, TypeOK
<1>14. RowsHaveTheirBytes' /\ MaterializedIsObserved' /\ ObservedAtIsHonest'
    BY <1>1 DEF IInv, RowsHaveTheirBytes, MaterializedIsObserved, ObservedAtIsHonest, Exists
<1>15. PointersAreOwn'
    BY <1>1, <1>3, <1>5, <1>7 DEF IInv, PointersAreOwn, Exists
<1>16. DeliveredReplays' /\ LiveNow'
    BY <1>1 DEF IInv, DeliveredReplays, LiveNow, Replay
<1> QED
    BY <1>12, <1>13, <1>14, <1>15, <1>16 DEF IInv

LEMMA InsertMaterializationKeeps ==
    ASSUME IInv, NEW c \in Clients, InsertMaterialization(c)
    PROVE  IInv'
<1> USE DEF world
<1> DEFINE q == req[c]
           p == [q EXCEPT !.pc = "answer"]
<1>1. /\ q \in Resolves /\ Knows(q) /\ IsRequest(q) /\ q.pc = "insert_mat"
      /\ UNCHANGED <<world, resources, snapshots, tags, blobs, delivered>>
    BY ResolveType DEF IInv, TypeOK, InsertMaterialization, Delivering
<1>2. CASE mats[q.snap] # None
    BY <1>1, <1>2, AnswerQuiet DEF InsertMaterialization, db
<1>3. CASE mats[q.snap] = None
  <2>1. mats' = [mats EXCEPT ![q.snap] = q.content] /\ Becomes(c, p)
      BY <1>3 DEF InsertMaterialization
  <2>2. q.content \in Contents /\ q.decision \in Decisions /\ q.snap \in SnapIds
      BY <1>1 DEF IsRequest, FreeRequests, TagRequests, Delivering
  <2>3. /\ Exists(q.snap) /\ snapshots[q.snap].content = q.content
        /\ q.content \in blobs
      BY <1>1 DEF Knows, Delivering
  <2>4. /\ p \in Resolves /\ p.pc = "answer" /\ p.uri = q.uri /\ p.ref = q.ref
        /\ p.policy = q.policy /\ p.now = q.now /\ p.decision = q.decision
        /\ p.content = q.content /\ p.snap = q.snap
      BY <1>1 DEF Resolves, Delivering
  <2> HIDE DEF p
  <2>5. /\ mats' \in [SnapIds -> Contents \cup {None}] /\ mats'[q.snap] = q.content
        /\ \A t \in SnapIds \ {q.snap} : mats'[t] = mats[t]
      BY <2>1, <2>2 DEF IInv, TypeOK
  <2>6. Grows
      BY <1>1, <1>3, <2>5, StillLive DEF Grows
  <2>7. IsRequest(p)
      BY <2>2, <2>4 DEF IsRequest
  <2>8. req'[c] = p
      BY <2>1, <2>7, BecomesType DEF IInv
  <2>9. Knows(req[c])'
      BY <1>1, <2>4, <2>5, <2>8 DEF Knows, Exists, Fetched, Delivering
  <2>10. \A d \in Clients : Knows(req[d])'
      BY <1>1, <2>1, <2>6, <2>7, <2>9, OthersKnow
  <2>11. TypeOK'
      BY <1>1, <2>1, <2>5, <2>7, BecomesType DEF IInv, TypeOK
  <2>12. RowsHaveTheirBytes' /\ MaterializedIsObserved' /\ ObservedAtIsHonest'
      BY <1>1, <2>3, <2>5
         DEF IInv, RowsHaveTheirBytes, MaterializedIsObserved, ObservedAtIsHonest, Exists
  <2>13. PointersAreOwn' /\ LiveNow'
      BY <1>1 DEF IInv, PointersAreOwn, LiveNow, Exists
  <2>14. DeliveredReplays'
    <3> SUFFICES ASSUME NEW d \in delivered PROVE Replay(d.snap)' = d.content
        BY <1>1 DEF DeliveredReplays
    <3>1. d.content \in Contents /\ d.snap \in SnapIds
        BY DEF IInv, TypeOK
    <3>2. mats[d.snap] \in blobs /\ mats[d.snap] = d.content
        BY <3>1, NoneIsNoValue DEF IInv, DeliveredReplays, Replay
    <3>3. mats'[d.snap] = mats[d.snap]
        BY <1>3, <2>5, <3>1, <3>2, NoneIsNoValue
    <3> QED
        BY <1>1, <3>2, <3>3 DEF Replay
  <2> QED
      BY <2>10, <2>11, <2>12, <2>13, <2>14 DEF IInv
<1> QED
    BY <1>2, <1>3

\* A tag that is set or deleted.
LEMMA TagsKeep ==
    ASSUME IInv, NEW u \in Uris, NEW n \in Tags, NEW s \in SnapIds \cup {None},
           s = None \/ (Exists(s) /\ snapshots[s].uri = u),
           tags' = [tags EXCEPT ![u][n] = s],
           UNCHANGED <<resources, snapshots>>
    PROVE  PointersAreOwn' /\ tags' \in [Uris -> [Tags -> SnapIds \cup {None}]]
<1>1. tags \in [Uris -> [Tags -> SnapIds \cup {None}]]
    BY DEF IInv, TypeOK
<1>2. /\ tags' \in [Uris -> [Tags -> SnapIds \cup {None}]]
      /\ tags'[u][n] = s
      /\ \A v \in Uris, m \in Tags : v # u \/ m # n => tags'[v][m] = tags[v][m]
    BY <1>1
<1> QED
    BY <1>2 DEF IInv, PointersAreOwn, Exists

LEMMA UpsertTagKeeps ==
    ASSUME IInv, NEW c \in Clients, UpsertTag(c)
    PROVE  IInv'
<1> USE DEF world
<1> DEFINE q == req[c]
           p == [q EXCEPT !.pc = "read_tag"]
<1>1. /\ q \in TagRequests /\ Knows(q) /\ q.pc = "set_tag"
      /\ UNCHANGED <<world, resources, snapshots, mats, blobs, delivered>>
      /\ tags' = [tags EXCEPT ![q.uri][q.ref] = q.snap] /\ Becomes(c, p)
    BY TaggingType DEF IInv, UpsertTag
<1>2. q.uri \in Uris /\ q.ref \in Tags /\ q.snap \in SnapIds
    BY <1>1 DEF TagRequests
<1>3. Exists(q.snap) /\ snapshots[q.snap].uri = q.uri
    BY <1>1 DEF Knows
<1>4. p \in TagRequests /\ p.pc = "read_tag"
    BY <1>1 DEF TagRequests
<1> HIDE DEF p
<1>5. IsRequest(p)
    BY <1>4 DEF IsRequest
<1>6. Grows
    BY <1>1, StillLive DEF Grows
<1>7. req'[c] = p
    BY <1>1, <1>5, BecomesType DEF IInv
<1>8. Knows(req[c])'
    BY <1>4, <1>7 DEF Knows, Fetched, Delivering
<1>9. \A d \in Clients : Knows(req[d])'
    BY <1>1, <1>5, <1>6, <1>8, OthersKnow
<1>10. PointersAreOwn' /\ tags' \in [Uris -> [Tags -> SnapIds \cup {None}]]
    BY <1>1, <1>2, <1>3, TagsKeep
<1>11. TypeOK'
    BY <1>1, <1>5, <1>10, BecomesType DEF IInv, TypeOK
<1>12. RowsHaveTheirBytes' /\ MaterializedIsObserved' /\ ObservedAtIsHonest'
    BY <1>1 DEF IInv, RowsHaveTheirBytes, MaterializedIsObserved, ObservedAtIsHonest, Exists
<1>13. DeliveredReplays' /\ LiveNow'
    BY <1>1 DEF IInv, DeliveredReplays, LiveNow, Replay
<1> QED
    BY <1>9, <1>10, <1>11, <1>12, <1>13 DEF IInv

-----------------------------------------------------------------------------
(* The steps of the world *)

LEMMA TickKeeps == IInv /\ Tick => IInv'
<1> SUFFICES ASSUME IInv, Tick PROVE IInv'
    OBVIOUS
<1> USE DEF db
<1>1. /\ clock' = clock + 1 /\ UNCHANGED <<source, db, blobs, req, delivered>>
      /\ lastLive' = [u \in Uris |-> [lastLive[u] EXCEPT ![source[u]] = clock + 1]]
    BY DEF Tick
<1>2. clock \in Nat /\ source \in [Uris -> Contents] /\ lastLive \in [Uris -> [Contents -> Int]]
    BY DEF IInv, TypeOK
<1>3. \A u \in Uris, x \in Contents :
          lastLive'[u][x] = IF x = source[u] THEN clock + 1 ELSE lastLive[u][x]
    BY <1>1, <1>2
<1>4. clock' \in Nat /\ lastLive' \in [Uris -> [Contents -> Int]]
    BY <1>1, <1>2
<1>5. \A u \in Uris, x \in Contents : lastLive[u][x] \in Int /\ lastLive[u][x] <= clock
    BY <1>2 DEF IInv, LiveNow
<1>6. \A u \in Uris, x \in Contents : lastLive[u][x] <= lastLive'[u][x]
    BY <1>2, <1>3, <1>5
<1>7. Grows
    BY <1>1, <1>2, <1>6 DEF Grows
<1>8. \A c \in Clients : Knows(req[c])'
    BY <1>1, <1>4, <1>7, Kept
<1>9. TypeOK'
    BY <1>1, <1>4 DEF IInv, TypeOK
<1>10. RowsHaveTheirBytes' /\ MaterializedIsObserved' /\ PointersAreOwn' /\ DeliveredReplays'
    BY <1>1 DEF IInv, RowsHaveTheirBytes, MaterializedIsObserved, PointersAreOwn,
                DeliveredReplays, Replay, Exists
<1>11. ObservedAtIsHonest'
  <2> SUFFICES ASSUME NEW s \in SnapIds, snapshots[s] # None
               PROVE  snapshots[s].at <= lastLive'[snapshots[s].uri][snapshots[s].content]
      BY <1>1 DEF ObservedAtIsHonest
  <2>1. snapshots[s] \in SnapshotRows
      BY DEF IInv, TypeOK
  <2>2. snapshots[s].uri \in Uris /\ snapshots[s].content \in Contents /\ snapshots[s].at \in Nat
      BY <2>1 DEF SnapshotRows
  <2>3. snapshots[s].at <= lastLive[snapshots[s].uri][snapshots[s].content]
      BY DEF IInv, ObservedAtIsHonest
  <2> QED
      BY <1>2, <1>4, <1>6, <2>2, <2>3
<1>12. LiveNow'
    BY <1>1, <1>2, <1>3, <1>5 DEF LiveNow
<1> QED
    BY <1>8, <1>9, <1>10, <1>11, <1>12 DEF IInv

LEMMA SourceChangesKeeps ==
    ASSUME IInv, NEW u \in Uris, NEW x \in Contents, SourceChanges(u, x)
    PROVE  IInv'
<1> USE DEF db
<1>1. /\ source' = [source EXCEPT ![u] = x] /\ lastLive' = [lastLive EXCEPT ![u][x] = clock]
      /\ UNCHANGED <<clock, db, blobs, req, delivered>>
    BY DEF SourceChanges
<1>2. clock \in Nat /\ source \in [Uris -> Contents] /\ lastLive \in [Uris -> [Contents -> Int]]
    BY DEF IInv, TypeOK
<1>3. \A v \in Uris, y \in Contents :
          lastLive'[v][y] = IF v = u /\ y = x THEN clock ELSE lastLive[v][y]
    BY <1>1, <1>2
<1>4. lastLive' \in [Uris -> [Contents -> Int]] /\ source' \in [Uris -> Contents]
    BY <1>1, <1>2
<1>5. \A v \in Uris, y \in Contents : lastLive[v][y] \in Int /\ lastLive[v][y] <= clock
    BY <1>2 DEF IInv, LiveNow
<1>6. \A v \in Uris, y \in Contents : lastLive[v][y] <= lastLive'[v][y]
    BY <1>2, <1>3, <1>5
<1>7. Grows
    BY <1>1, <1>2, <1>6 DEF Grows
<1>8. \A c \in Clients : Knows(req[c])'
    BY <1>1, <1>2, <1>4, <1>7, Kept
<1>9. TypeOK'
    BY <1>1, <1>4 DEF IInv, TypeOK
<1>10. RowsHaveTheirBytes' /\ MaterializedIsObserved' /\ PointersAreOwn' /\ DeliveredReplays'
    BY <1>1 DEF IInv, RowsHaveTheirBytes, MaterializedIsObserved, PointersAreOwn,
                DeliveredReplays, Replay, Exists
<1>11. ObservedAtIsHonest'
  <2> SUFFICES ASSUME NEW s \in SnapIds, snapshots[s] # None
               PROVE  snapshots[s].at <= lastLive'[snapshots[s].uri][snapshots[s].content]
      BY <1>1 DEF ObservedAtIsHonest
  <2>1. snapshots[s] \in SnapshotRows
      BY DEF IInv, TypeOK
  <2>2. snapshots[s].uri \in Uris /\ snapshots[s].content \in Contents /\ snapshots[s].at \in Nat
      BY <2>1 DEF SnapshotRows
  <2>3. snapshots[s].at <= lastLive[snapshots[s].uri][snapshots[s].content]
      BY DEF IInv, ObservedAtIsHonest
  <2> QED
      BY <1>2, <1>4, <1>6, <2>2, <2>3
<1>12. LiveNow'
  <2>1. \A v \in Uris : source'[v] = IF v = u THEN x ELSE source[v]
      BY <1>1, <1>2
  <2>2. \A v \in Uris : lastLive[v][source[v]] = clock
      BY DEF IInv, LiveNow
  <2> QED
      BY <1>1, <1>2, <1>3, <1>5, <2>1, <2>2 DEF LiveNow
<1> QED
    BY <1>8, <1>9, <1>10, <1>11, <1>12 DEF IInv

LEMMA RegisterKeeps ==
    ASSUME IInv, NEW u \in Uris, NEW p \in Policies, Register(u, p)
    PROVE  IInv'
<1> USE DEF world
<1> DEFINE row == [policy |-> [p EXCEPT !.maxAge = StoredAge(@)], current |-> None]
<1>1. /\ resources[u] = None /\ resources' = [resources EXCEPT ![u] = row]
      /\ UNCHANGED <<world, snapshots, mats, tags, blobs, req, delivered>>
    BY DEF Register
<1>2. \A age \in Nat : StoredAge(age) \in Nat
    BY SecondIsPositive DEF StoredAge
<1>3. row.policy \in AskedPolicy
    BY <1>2, PoliciesAreAsked DEF AskedPolicy
<1>4. row \in ResourceRows /\ row.current = None
    BY <1>3 DEF ResourceRows
<1>5. row # None
    BY <1>4, NoneIsNoValue
<1> HIDE DEF row
<1>6. /\ resources' \in [Uris -> ResourceRows \cup {None}]
      /\ resources'[u] = row /\ \A v \in Uris \ {u} : resources'[v] = resources[v]
    BY <1>1, <1>4 DEF IInv, TypeOK
<1>7. Grows
    BY <1>1, <1>6, StillLive DEF Grows
<1>8. clock' \in Nat /\ lastLive' \in [Uris -> [Contents -> Int]]
    BY <1>1 DEF IInv, TypeOK
<1>9. \A c \in Clients : Knows(req[c])'
    BY <1>1, <1>7, <1>8, Kept
<1>10. TypeOK'
    BY <1>1, <1>6 DEF IInv, TypeOK
<1>11. RowsHaveTheirBytes' /\ MaterializedIsObserved' /\ ObservedAtIsHonest'
    BY <1>1 DEF IInv, RowsHaveTheirBytes, MaterializedIsObserved, ObservedAtIsHonest, Exists
<1>12. PointersAreOwn'
    BY <1>1, <1>4, <1>6 DEF IInv, PointersAreOwn, Exists
<1>13. DeliveredReplays' /\ LiveNow'
    BY <1>1 DEF IInv, DeliveredReplays, LiveNow, Replay
<1> QED
    BY <1>9, <1>10, <1>11, <1>12, <1>13 DEF IInv

LEMMA DeleteTagKeeps ==
    ASSUME IInv, NEW u \in Uris, NEW n \in Tags, DeleteTag(u, n)
    PROVE  IInv'
<1> USE DEF world
<1>1. /\ tags' = [tags EXCEPT ![u][n] = None]
      /\ UNCHANGED <<world, resources, snapshots, mats, blobs, req, delivered>>
    BY DEF DeleteTag
<1>2. Grows
    BY <1>1, StillLive DEF Grows
<1>3. clock' \in Nat /\ lastLive' \in [Uris -> [Contents -> Int]]
    BY <1>1 DEF IInv, TypeOK
<1>4. \A c \in Clients : Knows(req[c])'
    BY <1>1, <1>2, <1>3, Kept
<1>5. PointersAreOwn' /\ tags' \in [Uris -> [Tags -> SnapIds \cup {None}]]
    BY <1>1, TagsKeep
<1>6. TypeOK'
    BY <1>1, <1>5 DEF IInv, TypeOK
<1>7. RowsHaveTheirBytes' /\ MaterializedIsObserved' /\ ObservedAtIsHonest'
    BY <1>1 DEF IInv, RowsHaveTheirBytes, MaterializedIsObserved, ObservedAtIsHonest, Exists
<1>8. DeliveredReplays' /\ LiveNow'
    BY <1>1 DEF IInv, DeliveredReplays, LiveNow, Replay
<1> QED
    BY <1>4, <1>5, <1>6, <1>7, <1>8 DEF IInv

-----------------------------------------------------------------------------
(* The theorems *)

LEMMA NextKeepsIInv == IInv /\ [Next]_vars => IInv'
<1> SUFFICES ASSUME IInv, [Next]_vars PROVE IInv'
    OBVIOUS
<1>1. CASE Outside
    BY <1>1, TickKeeps, SourceChangesKeeps, RegisterKeeps, DeleteTagKeeps DEF Outside
<1>2. CASE \E c \in Clients : Ask(c)
    BY <1>2, LookupKeeps, SetTagKeeps DEF Ask
<1>3. CASE \E c \in Clients : Step(c)
    BY <1>3, UseTagKeeps, DecideKeeps, FetchKeeps, PutBlobKeeps, InsertSnapshotKeeps,
       PointCurrentKeeps, FindMaterializationKeeps, PutMaterializationKeeps,
       InsertMaterializationKeeps, ReplyKeeps, UpsertTagKeeps, ReadTagKeeps DEF Step
<1>4. CASE \E c \in Clients : Fail(c)
    BY <1>4, FailKeeps
<1>5. CASE UNCHANGED vars
  <2> USE <1>5 DEF vars, world, db
  <2>1. Grows
      BY StillLive DEF Grows
  <2>2. \A c \in Clients : Knows(req[c])'
      BY <2>1, Kept DEF IInv, TypeOK
  <2>3. TypeOK' /\ LiveNow'
      BY DEF IInv, TypeOK, LiveNow
  <2>4. RowsHaveTheirBytes' /\ MaterializedIsObserved' /\ ObservedAtIsHonest'
      BY DEF IInv, RowsHaveTheirBytes, MaterializedIsObserved, ObservedAtIsHonest, Exists
  <2>5. PointersAreOwn' /\ DeliveredReplays'
      BY DEF IInv, PointersAreOwn, DeliveredReplays, Replay, Exists
  <2> QED
      BY <2>2, <2>3, <2>4, <2>5 DEF IInv
<1> QED
    BY <1>1, <1>2, <1>3, <1>4, <1>5 DEF Next

\* Whatever the requests, the sources, the tags and the clock do, the tables
\* and what the requests under way know of them stay consistent.
THEOREM Invariance == Spec => []IInv
<1>1. Init => IInv
    BY InitIInv
<1>2. IInv /\ [Next]_vars => IInv'
    BY NextKeepsIInv
<1> QED
    BY <1>1, <1>2, PTL DEF Spec

\* Every variable keeps its type, whatever step a request dies at.
THEOREM TypeCorrect == Spec => []TypeOK
<1>1. IInv => TypeOK
    BY DEF IInv
<1> QED
    BY <1>1, Invariance, PTL

\* A snapshot or materialization row never names bytes that are not stored,
\* whichever request dies between the write of the blob and that of the row.
THEOREM Stored == Spec => []RowsHaveTheirBytes
<1>1. IInv => RowsHaveTheirBytes
    BY DEF IInv
<1> QED
    BY <1>1, Invariance, PTL

\* A materialization is of its snapshot's bytes, whichever of the requests
\* that race for it inserts it (Materializations.Create under UNIQUE).
THEOREM Materialized == Spec => []MaterializedIsObserved
<1>1. IInv => MaterializedIsObserved
    BY DEF IInv
<1> QED
    BY <1>1, Invariance, PTL

\* The current pointer and the tags of a resource name its own snapshots,
\* although the owner is checked some steps before the tag is written.
THEOREM Pointers == Spec => []PointersAreOwn
<1>1. IInv => PointersAreOwn
    BY DEF IInv
<1> QED
    BY <1>1, Invariance, PTL

\* The source still held a snapshot's content at its observed_at or later,
\* however long the fetch that read it took.
THEOREM Honest == Spec => []ObservedAtIsHonest
<1>1. IInv => ObservedAtIsHonest
    BY DEF IInv
<1> QED
    BY <1>1, Invariance, PTL

\* What was answered once replays to the same bytes for ever.
THEOREM Replayable == Spec => []DeliveredReplays
<1>1. IInv => DeliveredReplays
    BY DEF IInv
<1> QED
    BY <1>1, Invariance, PTL

\* An answer names rows that record its very bytes, of the resource asked for
\* unless a policy pinned another's snapshot.
THEOREM Recorded == Spec => []AnswerIsRecorded
<1>1. IInv => AnswerIsRecorded
    BY DEF IInv, AnswerIsRecorded, Knows, Delivering
<1> QED
    BY <1>1, Invariance, PTL

\* An answer is as fresh as the policy its request read demands, whatever the
\* other requests did to the current pointer in the meantime.
THEOREM Fresh == Spec => []AnswerIsFresh
<1>1. ASSUME IInv, NEW c \in Clients, req[c].pc = "answer", req[c].ref = None
      PROVE  /\ req[c].policy.strategy = "require_fresh" =>
                    lastLive[req[c].uri][req[c].content] >= req[c].now
             /\ req[c].policy.strategy = "allow_stale" /\ req[c].policy.maxAge > 0 =>
                    lastLive[req[c].uri][req[c].content] >= req[c].now - req[c].policy.maxAge
  <2> DEFINE q == req[c]
             row == snapshots[q.snap]
  <2>1. q \in Resolves /\ Knows(q) /\ IsRequest(q)
      BY <1>1, ResolveType DEF IInv, TypeOK, Delivering
  <2>2. q.snap \in SnapIds /\ q.decision \in Decisions
      BY <1>1, <2>1 DEF IsRequest, FreeRequests, TagRequests, Delivering
  <2>3. q.now \in Nat /\ q.policy.maxAge \in Nat
      BY <2>1 DEF Resolves, AskedPolicy
  <2>4. row # None /\ row \in SnapshotRows /\ row.content = q.content
      BY <1>1, <2>1, <2>2 DEF IInv, TypeOK, Knows, Exists, Delivering
  <2>5. row.at \in Nat /\ row.at <= lastLive[row.uri][row.content]
      BY <1>1, <2>2, <2>4 DEF IInv, ObservedAtIsHonest, SnapshotRows
  <2>6. lastLive[row.uri][row.content] \in Int
      BY <1>1, <2>4 DEF IInv, TypeOK, SnapshotRows
  <2>7. q.decision # "use_pinned" => row.uri = q.uri
      BY <1>1, <2>1 DEF Knows, Delivering
  <2>8. /\ q.decision = "fetch" => row.at = q.now
        /\ q.decision = "use_pinned" => q.policy.strategy = "pinned"
        /\ q.decision = "use_current" =>
              /\ q.policy.strategy = "allow_stale"
              /\ q.policy.maxAge > 0 => q.now - row.at <= q.policy.maxAge
        /\ q.decision # "use_tag"
      BY <1>1, <2>1 DEF Knows, Delivering
  <2> HIDE DEF row
  <2>9. CASE q.decision = "fetch"
      BY <2>3, <2>4, <2>5, <2>6, <2>7, <2>8, <2>9
  <2>10. CASE q.decision = "use_current"
      BY <2>3, <2>4, <2>5, <2>6, <2>7, <2>8, <2>10
  <2>11. CASE q.decision = "use_pinned"
      BY <2>8, <2>11
  <2> QED
      BY <2>2, <2>8, <2>9, <2>10, <2>11 DEF Decisions
<1>2. IInv => AnswerIsFresh
    BY <1>1 DEF AnswerIsFresh
<1> QED
    BY <1>2, Invariance, PTL
=============================================================================
