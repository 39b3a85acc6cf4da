------------------------- MODULE Projections_proofs -------------------------
(***************************************************************************)
(* Proofs about MCProjections: what its run checks of the inputs of the    *)
(* functions, and of Evidence for every set of entries and contents.       *)
(***************************************************************************)
EXTENDS MCProjections, Views_proofs

(***************************************************************************)
(* The inputs that are compared                                            *)
(***************************************************************************)

LEMMA BoundedSeqsAre ==
    ASSUME NEW S, NEW n, NEW s \in BoundedSeq(S, n)
    PROVE  s \in Seq(S)
<1>1. PICK m \in 0 .. n : s \in [1 .. m -> S]
    BY DEF BoundedSeq, SeqOf
<1>2. m \in Nat
    OBVIOUS
<1> QED
    BY <1>1, <1>2, SeqDef

NumberedEntries(S) ==
    {[position |-> p, uri |-> e.uri, ref |-> e.ref, snapshot |-> e.snapshot,
      materialization |-> e.materialization, hash |-> e.hash] : p \in Nat, e \in S}

LEMMA NumberedIs ==
    ASSUME NEW S, NEW s \in Seq(S)
    PROVE  /\ Numbered(s) \in Seq(NumberedEntries(S)) /\ Len(Numbered(s)) = Len(s)
           /\ DOMAIN Numbered(s) = DOMAIN s /\ DOMAIN s = 1 .. Len(s) /\ Len(s) \in Nat
           /\ \A i \in DOMAIN s :
                 /\ s[i] \in S
                 /\ Numbered(s)[i] =
                       [position |-> i - 1, uri |-> s[i].uri, ref |-> s[i].ref,
                        snapshot |-> s[i].snapshot,
                        materialization |-> s[i].materialization, hash |-> s[i].hash]
           /\ InOrder(Numbered(s))
<1>1. DOMAIN s = 1 .. Len(s) /\ Len(s) \in Nat /\ \A i \in 1 .. Len(s) : s[i] \in S
    OBVIOUS
<1>2. /\ Numbered(s) = [i \in 1 .. Len(s) |-> Numbered(s)[i]]
      /\ \A i \in 1 .. Len(s) :
            Numbered(s)[i] =
                [position |-> i - 1, uri |-> s[i].uri, ref |-> s[i].ref,
                 snapshot |-> s[i].snapshot, materialization |-> s[i].materialization,
                 hash |-> s[i].hash]
    BY <1>1 DEF Numbered
<1>3. PICK t : t = Numbered(s)
    OBVIOUS
<1>4. ASSUME NEW i \in 1 .. Len(s) PROVE t[i] \in NumberedEntries(S)
    <2>1. i - 1 \in Nat /\ s[i] \in S
        BY <1>1
    <2> QED
        BY <1>2, <1>3, <2>1 DEF NumberedEntries
<1>5. t \in [1 .. Len(s) -> NumberedEntries(S)]
    BY <1>2, <1>3, <1>4
<1>6. t \in Seq(NumberedEntries(S)) /\ Len(t) = Len(s)
    BY <1>1, <1>5, SeqDef
<1>7. InOrder(Numbered(s))
    BY <1>1, <1>2 DEF InOrder
<1> QED
    BY <1>1, <1>2, <1>3, <1>6, <1>7

InputIsTyped ==
    /\ input.part = "reads" => input \in ReadInputs
    /\ input.part = "diff" => input \in DiffInputs
    /\ input.part = "content" => input \in ContentInputs
    /\ input.part = "policy" => input \in PolicyInputs
    /\ input.part = "reference" => input \in ReferenceInputs
    /\ input.part = "client" => input \in ClientInputs
    /\ input.part = "history" => input \in HistoryInputs

LEMMA InputsAreTyped == Spec => []InputIsTyped
<1>1. Init => InputIsTyped
    <2> SUFFICES ASSUME Init PROVE InputIsTyped
        OBVIOUS
    <2>1. CASE input = [part |-> "evidence"]
        BY <2>1 DEF InputIsTyped
    <2>2. CASE input \in ReadInputs
        <3>1. input.part = "reads"
            BY <2>2 DEF ReadInputs
        <3> QED
            BY <2>2, <3>1 DEF InputIsTyped
    <2>3. CASE input \in DiffInputs
        <3>1. input.part = "diff"
            BY <2>3 DEF DiffInputs
        <3> QED
            BY <2>3, <3>1 DEF InputIsTyped
    <2>4. CASE input \in ContentInputs
        <3>1. input.part = "content"
            BY <2>4 DEF ContentInputs
        <3> QED
            BY <2>4, <3>1 DEF InputIsTyped
    <2>5. CASE input \in PolicyInputs
        <3>1. input.part = "policy"
            BY <2>5 DEF PolicyInputs
        <3> QED
            BY <2>5, <3>1 DEF InputIsTyped
    <2>6. CASE input \in ReferenceInputs
        <3>1. input.part = "reference"
            BY <2>6 DEF ReferenceInputs
        <3> QED
            BY <2>6, <3>1 DEF InputIsTyped
    <2>7. CASE input \in ClientInputs
        <3>1. input.part = "client"
            BY <2>7 DEF ClientInputs
        <3> QED
            BY <2>7, <3>1 DEF InputIsTyped
    <2>8. CASE input \in HistoryInputs
        <3>1. input.part = "history"
            BY <2>8 DEF HistoryInputs
        <3> QED
            BY <2>8, <3>1 DEF InputIsTyped
    <2> QED
        BY <2>1, <2>2, <2>3, <2>4, <2>5, <2>6, <2>7, <2>8 DEF Init
<1>2. InputIsTyped /\ [Next]_<<evidenceVars, input>> => InputIsTyped'
    BY DEF InputIsTyped, Next
<1> QED
    BY <1>1, <1>2, PTL DEF Spec

\* Whatever the bound on their length, two compared manifests have one root exactly when
\* they record the same reads in the same order (internal/merkle).
THEOREM ReadsAreBound == Spec => []RootBindsReads
<1>1. InputIsTyped => RootBindsReads
    <2> SUFFICES ASSUME InputIsTyped, input.part = "reads"
                 PROVE  RootBinds(input.a, input.b)
        BY DEF RootBindsReads
    <2>1. PICK s \in BoundedSeq(MCEntries, MaxReads),
               t \in BoundedSeq(MCEntries, MaxReads) :
                  input.a = Numbered(s) /\ input.b = Numbered(t)
        BY DEF InputIsTyped, ReadInputs
    <2>2. s \in Seq(MCEntries) /\ t \in Seq(MCEntries)
        BY BoundedSeqsAre
    <2>3. /\ input.a \in Seq(NumberedEntries(MCEntries)) /\ InOrder(input.a)
          /\ input.b \in Seq(NumberedEntries(MCEntries)) /\ InOrder(input.b)
        BY <2>1, <2>2, NumberedIs
    <2>4. PICK x, y : x = input.a /\ y = input.b
        OBVIOUS
    <2>5. RootBinds(x, y)
        BY <2>3, <2>4, RootsBind
    <2> QED
        BY <2>4, <2>5
<1> QED
    BY <1>1, InputsAreTyped, PTL

\* Whatever the bound on its length and on the cap, the server and the plugin show
\* of a content what fits (internal/mcp/content.go, content.ts).
THEOREM ContentIsChecked == Spec => []ContentShown
<1>1. InputIsTyped => ContentShown
    <2> SUFFICES ASSUME InputIsTyped, input.part = "content"
                 PROVE  ContentIsShown(input.content, input.contentType, input.cap)
        BY DEF ContentShown
    <2>1. /\ input.content \in BoundedSeq(ByteClasses \ {"lead2"}, MaxBytes)
          /\ input.cap \in 0 .. MaxBytes - 1
        BY DEF InputIsTyped, ContentInputs
    <2>2. input.content \in Seq(ByteClasses \ {"lead2"})
        BY <2>1, BoundedSeqsAre
    <2>3. PICK b, type, cap : b = input.content /\ type = input.contentType /\ cap = input.cap
        OBVIOUS
    <2>4. b \in Seq(ByteClasses) /\ cap \in Int
        BY <2>1, <2>2, <2>3
    <2>5. ContentIsShown(b, type, cap)
        BY <2>4, ContentsAreShown
    <2> QED
        BY <2>3, <2>5
<1> QED
    BY <1>1, InputsAreTyped, PTL

\* The histories enumerated are newest first, but for two observations within a
\* second of which the older's digits begin the newer's (sqlite/snapshots.go).
THEOREM HistoryIsChecked == Spec => []HistoryNewestFirst
<1>1. InputIsTyped => HistoryNewestFirst
    <2> SUFFICES ASSUME InputIsTyped, input.part = "history"
                 PROVE  HistoryIsOrdered(input.instants, Digits)
        BY DEF HistoryNewestFirst
    <2>1. PICK a \in Instants, b \in Instants, c \in Instants : input.instants = {a, b, c}
        BY DEF InputIsTyped, HistoryInputs
    <2>2. PICK S : S = {a, b, c}
        OBVIOUS
    <2>3. IsFiniteSet(S)
        <3>1. IsFiniteSet({}) /\ S = (({} \cup {a}) \cup {b}) \cup {c}
            BY <2>2, FS_EmptySet
        <3>2. IsFiniteSet({} \cup {a})
            BY <3>1, FS_AddElement
        <3>3. IsFiniteSet(({} \cup {a}) \cup {b})
            BY <3>2, FS_AddElement
        <3> QED
            BY <3>1, <3>3, FS_AddElement
    <2>4. ASSUME NEW x \in Instants PROVE x \in [second : Int, fraction : [1 .. Digits -> 0 .. 9]]
        <3>1. x = [second |-> x.second, fraction |-> x.fraction]
            BY DEF Instants
        <3>2. x.second \in Int /\ x.fraction \in [1 .. Digits -> {0, 1, 2}]
            BY DEF Instants
        <3>3. x.fraction \in [1 .. Digits -> 0 .. 9]
            BY <3>2
        <3> QED
            BY <3>1, <3>2, <3>3
    <2>5. S \in SUBSET [second : Int, fraction : [1 .. Digits -> 0 .. 9]]
        BY <2>2, <2>4
    <2>6. HistoryIsOrdered(S, Digits)
        BY <2>3, <2>5, DigitsAreCounted, HistoriesAreOrdered
    <2> QED
        BY <2>1, <2>2, <2>6
<1> QED
    BY <1>1, InputsAreTyped, PTL

\* The resources and results enumerated have policies that the store returns.
LEMMA PoliciesAreStored ==
    ASSUME NEW q \in Policies
    PROVE  Stored(StoredPolicy(q))
<1>1. /\ q.MaxAge \in Int /\ q.MaxAge < Half
      /\ q = [Strategy |-> q.Strategy, MaxAge |-> q.MaxAge, Pinned |-> q.Pinned]
    BY DurationsAreInt64 DEF Policies
<1>2. PICK n \in Int : n = q.MaxAge
    BY <1>1
<1>3. n < Half
    BY <1>1, <1>2
<1>4. PICK p : p = StoredPolicy(q)
    OBVIOUS
<1>5. p.MaxAge = IF n > 0 THEN (n \div Second) * Second ELSE 0
    <2>1. p = [Strategy |-> q.Strategy, Pinned |-> q.Pinned,
               MaxAge |-> IF n > 0 THEN (n \div Second) * Second ELSE 0]
        BY <1>1, <1>2, <1>4 DEF StoredPolicy
    <2> QED
        BY <2>1
<1>6. CASE n > 0
    <2>1. PICK k \in Nat : k = n \div Second
        BY <1>6, WholeSeconds
    <2>2. k * Second <= n
        BY <1>6, <2>1, WholeSeconds
    <2>3. k * Second < Half
        <3>1. PICK x \in Nat : x = k * Second
            BY MultiplesOfSecond
        <3>2. Half \in Nat
            BY DurationsAreInt64
        <3> QED
            BY <1>3, <2>2, <3>1, <3>2
    <2>4. p.MaxAge = k * Second
        BY <1>5, <1>6, <2>1
    <2> QED
        BY <1>4, <2>3, <2>4 DEF Stored
<1>7. CASE ~(n > 0)
    <2>1. p.MaxAge = 0
        BY <1>5, <1>7
    <2>2. 0 \in Nat /\ 0 * Second = 0 /\ 0 < Half
        BY DurationsAreInt64
    <2> QED
        BY <1>4, <2>1, <2>2 DEF Stored
<1> QED
    BY <1>6, <1>7

\* Times, of snapshots and of the sides of differences.
LEMMA InstantsAre ==
    ASSUME NEW id
    PROVE  InstantOf(id) \in Instant
<1>1. PICK f : f = [i \in 1 .. Digits |-> CASE id = "empty" -> 0
                                            [] id = "bin"   -> IF i = 1 THEN 5 ELSE 0
                                            [] OTHER        -> 3]
    OBVIOUS
<1>2. f \in [1 .. Digits -> 0 .. 9]
    <2>1. ASSUME NEW i \in 1 .. Digits
          PROVE  (CASE id = "empty" -> 0 [] id = "bin" -> IF i = 1 THEN 5 ELSE 0
                    [] OTHER -> 3) \in 0 .. 9
        OBVIOUS
    <2> QED
        BY <1>1, <2>1
<1>3. InstantOf(id) = [second |-> 7, fraction |-> f]
    BY <1>1 DEF InstantOf
<1> QED
    BY <1>2, <1>3 DEF Instant

LEMMA SnapshotsAre ==
    ASSUME NEW id
    PROVE  SnapshotTyped(ASnapshot(id))
BY InstantsAre DEF SnapshotTyped, ASnapshot

LEMMA TagsAre ==
    ASSUME NEW tags \in TagLists, NEW i \in DOMAIN tags
    PROVE  tags[i].UpdatedAt \in Instant
<1>1. \A name, id : ATag(name, id).UpdatedAt \in Instant
    BY InstantsAre DEF ATag
<1>2. \E name, id : tags[i] = ATag(name, id)
    BY DEF TagLists
<1> QED
    BY <1>1, <1>2

\* Of the entries of a URI, the one that counts is an entry.
LEMMA ByUriIsEntry ==
    ASSUME NEW E, NEW a \in Seq(E), NEW u \in DOMAIN EntriesByUri(a)
    PROVE  EntriesByUri(a)[u] \in E
<1>1. PICK S : S = {i \in DOMAIN a : a[i].uri = u}
    OBVIOUS
<1>2. /\ DOMAIN a = 1 .. Len(a) /\ Len(a) \in Nat
      /\ \A i \in DOMAIN a : a[i] \in E
    OBVIOUS
<1>3. u \in UrisOf(a) /\ EntriesByUri(a)[u] = a[Max(S)]
    BY <1>1 DEF EntriesByUri
<1>4. S # {} /\ S \in SUBSET Int /\ \A i \in S : i <= Len(a)
    BY <1>1, <1>2, <1>3 DEF UrisOf
<1>5. Max(S) \in S
    <2>1. PICK n \in Nat : n = Len(a)
        BY <1>2
    <2>2. n \in Int /\ S \in SUBSET Int /\ S # {} /\ \A i \in S : i <= n
        BY <1>4, <2>1
    <2> QED
        BY <2>2, GreatestIs
<1> QED
    BY <1>1, <1>2, <1>3, <1>5

LEMMA SidesAre ==
    ASSUME NEW s \in BoundedSeq(MCEntries, 2), NEW u
    PROVE  LET side == SideOf(DatedStore, EntriesByUri(Numbered(s)), u)
           IN  side.snapshot # None => side.provenance.ObservedAt \in Instant
<1>1. PICK a : a = Numbered(s)
    OBVIOUS
<1>2. a \in Seq(NumberedEntries(MCEntries))
    BY <1>1, BoundedSeqsAre, NumberedIs
<1>3. PICK A : A = EntriesByUri(a)
    OBVIOUS
<1>4. CASE u \notin DOMAIN A
    <2>1. SideOf(DatedStore, A, u) = Absent
        BY <1>4 DEF SideOf
    <2> QED
        BY <1>1, <1>3, <2>1 DEF Absent
<1>5. CASE u \in DOMAIN A
    <2>1. A[u] \in NumberedEntries(MCEntries)
        BY <1>2, <1>3, <1>5, ByUriIsEntry
    <2>2. A[u].snapshot \in {"text", "bin", "empty"}
        BY <2>1 DEF NumberedEntries, MCEntries, Entry
    <2>3. PICK id \in {"text", "bin", "empty"} : id = A[u].snapshot
        BY <2>2
    <2>4. DatedStore.snapshots =
             [i \in {"text", "bin", "empty"} |->
                 [Revision |-> <<"revision", i>>, ObservedAt |-> InstantOf(i)]]
        BY DEF DatedStore, WholeStore
    <2>5. DatedStore.snapshots[id].ObservedAt = InstantOf(id)
        BY <2>3, <2>4
    <2>6. SideOf(DatedStore, A, u).provenance = DatedStore.snapshots[id]
        BY <1>5, <2>3 DEF SideOf
    <2>7. SideOf(DatedStore, A, u).provenance.ObservedAt \in Instant
        BY <2>5, <2>6, InstantsAre
    <2> QED
        BY <1>1, <1>3, <2>7
<1> QED
    BY <1>4, <1>5

LEMMA DiffsAre ==
    ASSUME NEW d \in DiffsOf(ManifestsOf(BoundedSeq(MCEntries, 2))), d.Entries # Failed
    PROVE  SidesTyped(d.Entries)
<1> DEFINE Ms == ManifestsOf(BoundedSeq(MCEntries, 2))
<1>1. PICK x \in Ms, y \in Ms : d.Entries = Diff(DatedStore, x.Entries, y.Entries)
    <2>1. DiffsOf(Ms) = {[ManifestA |-> x, ManifestB |-> y,
                          Entries |-> Diff(DatedStore, x.Entries, y.Entries)] :
                            x \in Ms, y \in Ms}
        BY DEF DiffsOf
    <2>2. d \in DiffsOf(Ms)
        OBVIOUS
    <2> HIDE DEF Ms
    <2> QED
        BY <2>1, <2>2
<1>2. PICK s \in BoundedSeq(MCEntries, 2), t \in BoundedSeq(MCEntries, 2) :
         x.Entries = Numbered(s) /\ y.Entries = Numbered(t)
    BY DEF ManifestsOf
<1>3. PICK A, B, es : /\ A = EntriesByUri(Numbered(s)) /\ B = EntriesByUri(Numbered(t))
                      /\ es = d.Entries
    OBVIOUS
<1>4. es = [u \in UnionUris(A, B) |-> EntryDiff(DatedStore, A, B, u)]
    BY <1>1, <1>2, <1>3 DEF Diff
<1>5. ASSUME NEW u \in DOMAIN es
      PROVE  /\ es[u].a = SideOf(DatedStore, A, u) /\ es[u].b = SideOf(DatedStore, B, u)
    BY <1>4, <1>5 DEF EntryDiff
<1>6. ASSUME NEW u
      PROVE  /\ SideOf(DatedStore, A, u).snapshot # None =>
                   SideOf(DatedStore, A, u).provenance.ObservedAt \in Instant
             /\ SideOf(DatedStore, B, u).snapshot # None =>
                   SideOf(DatedStore, B, u).provenance.ObservedAt \in Instant
    BY <1>3, SidesAre
<1> QED
    BY <1>3, <1>5, <1>6 DEF SidesTyped

LEMMA ResultsAre ==
    ASSUME NEW r \in Results
    PROVE  ResultTyped(r) /\ r.Content \in {"text", "empty"}
<1>1. \E q \in Resources, id \in {"text", "empty"},
         d \in {[decision |-> x, ref |-> None] : x \in {"fetch", "use_current", "use_pinned"}}
                  \cup {[decision |-> "use_tag", ref |-> "prod"]} :
         r = [Resource |-> q, Snapshot |-> ASnapshot(id), Materialization |-> id,
              Content |-> id, Decision |-> d.decision, Ref |-> d.ref]
    BY SMT DEF Results
<1>2. PICK id \in {"text", "empty"}, decision \in Decisions :
         r.Decision = decision /\ r.Content = id /\ r.Snapshot = ASnapshot(id)
    BY <1>1 DEF Decisions
<1> QED
    BY <1>2, SnapshotsAre DEF ResultTyped

LEMMA ValuesAreTyped ==
    ASSUME NEW m \in Methods, NEW v \in Values(m)
    PROVE  ValueTyped(m, v)
<1>1. ASSUME NEW r \in Resources PROVE Stored(r.Policy)
    BY <1>1, PoliciesAreStored DEF Resources
<1>2. ASSUME m = "ListResources", NEW i \in DOMAIN v PROVE Stored(v[i].Policy)
    <2>1. v \in {<<r>> : r \in Resources} \cup {<<>>}
        BY <1>2 DEF Values
    <2>2. PICK r \in Resources : v = <<r>>
        BY <1>2, <2>1
    <2>3. v[i] = r
        BY <1>2, <2>2
    <2> QED
        BY <1>1, <2>3
<1>3. ASSUME m = "GetResource" PROVE Stored(v.Policy)
    <2>1. v \in Resources
        BY <1>3 DEF Values
    <2> QED
        BY <1>1, <2>1
<1>4. ASSUME m = "Resolve" PROVE ResultTyped(v)
    <2>1. v \in Results
        BY <1>4 DEF Values
    <2> QED
        BY <2>1, ResultsAre
<1>5. ASSUME m = "RunMount" PROVE ResultTyped(v.Result)
    <2>1. v \in [Position : {0, 1}, Result : Results]
        BY <1>5 DEF Values
    <2>2. v.Result \in Results
        BY <2>1
    <2> QED
        BY <2>2, ResultsAre
<1>6. ASSUME m = "History", NEW i \in DOMAIN v PROVE SnapshotTyped(v[i])
    <2>1. v \in {<<>>, <<ASnapshot("text")>>, <<ASnapshot("text"), ASnapshot("bin")>>}
        BY <1>6 DEF Values
    <2>2. v[i] \in {ASnapshot("text"), ASnapshot("bin")}
        BY <1>6, <2>1
    <2> QED
        BY <2>2, SnapshotsAre
<1>7. ASSUME m = "GetSnapshot" PROVE SnapshotTyped(v)
    <2>1. v = ASnapshot("text")
        BY <1>7 DEF Values
    <2> QED
        BY <2>1, SnapshotsAre
<1>8. ASSUME m = "SetTag" PROVE v.UpdatedAt \in Instant
    <2>1. v = ATag("prod", "text")
        BY <1>8 DEF Values
    <2> QED
        BY <2>1, InstantsAre DEF ATag
<1>9. ASSUME m = "ListTags", NEW i \in DOMAIN v PROVE v[i].UpdatedAt \in Instant
    <2>1. v \in TagLists
        BY <1>9 DEF Values
    <2> QED
        BY <1>9, <2>1, TagsAre
<1>10. ASSUME m \in {"RunCommit", "GetManifest"} PROVE v.CreatedAt \in Instant
    <2>1. v \in ManifestsOf(BoundedSeq(MCEntries, 2))
        BY <1>10 DEF Values
    <2>2. v.CreatedAt = InstantOf("text")
        BY <2>1 DEF ManifestsOf
    <2> QED
        BY <2>2, InstantsAre
<1>11. ASSUME m = "Diff" PROVE SidesTyped(v.Entries)
    <2>1. v \in {d \in DiffsOf(ManifestsOf(BoundedSeq(MCEntries, 2))) : d.Entries # Failed}
        BY <1>11 DEF Values
    <2> QED
        BY <2>1, DiffsAre
<1> QED
    BY <1>2, <1>3, <1>4, <1>5, <1>6, <1>7, <1>8, <1>9, <1>10, <1>11 DEF ValueTyped

\* What the domain is enumerated to do: fail in one of the calls, or return a value.
LEMMA OutcomesAre ==
    ASSUME NEW c \in ClientInputs
    PROVE  /\ c.method \in Methods
           /\ OutcomeTyped(c.method, c.outcome)
           /\ ~Failing(c.method, c.outcome) => c.outcome.value \in Values(c.method)
<1>1. PICK m \in Methods :
         /\ c.method = m
         /\ c.outcome \in Failures(m)
                \cup {[failed |-> None, error |-> None, value |-> v] : v \in Values(m)}
    BY DEF ClientInputs
<1>2. PICK o : o = c.outcome
    OBVIOUS
<1>3. CASE o \in Failures(m)
    <2>1. PICK call \in {HandlerOf(m)[i].call : i \in DOMAIN HandlerOf(m)} :
             o.failed = call /\ o.error \in CallErrors(call)
        BY <1>3 DEF Failures
    <2>2. Failing(m, o)
        BY <2>1 DEF Failing
    <2> QED
        BY <1>1, <1>2, <2>1, <2>2 DEF OutcomeTyped
<1>4. CASE o \in {[failed |-> None, error |-> None, value |-> v] : v \in Values(m)}
    <2>1. PICK v \in Values(m) : o.failed = None /\ o.value = v
        BY <1>4
    <2>2. ~Failing(m, o)
        BY <2>1, NoneIsNoCall DEF Failing
    <2>3. ValueTyped(m, v)
        BY ValuesAreTyped
    <2> QED
        BY <1>1, <1>2, <2>1, <2>2, <2>3 DEF OutcomeTyped
<1> QED
    BY <1>1, <1>2, <1>3, <1>4

\* Of every operation and every policy of the instance, whatever the durations, the
\* remote client answers as the local one (internal/client, internal/api,
\* internal/wire).
THEOREM RemoteIsChecked == Spec => []RemoteIsLocal
<1>1. InputIsTyped => RemoteIsLocal
    <2> SUFFICES ASSUME InputIsTyped PROVE RemoteIsLocal
        OBVIOUS
    <2>1. ASSUME input.part = "client" PROVE ClientsAgree(input.method, input.outcome)
        <3>1. input \in ClientInputs
            BY <2>1 DEF InputIsTyped
        <3>2. PICK m, o : m = input.method /\ o = input.outcome
            OBVIOUS
        <3>3. m \in Methods /\ OutcomeTyped(m, o)
            BY <3>1, <3>2, OutcomesAre
        <3>4. ClientsAgree(m, o)
            BY <3>3, ClientsAgreeOnOutcomes
        <3> QED
            BY <3>2, <3>4
    <2>2. ASSUME input.part = "policy" PROVE AgesAgree(input.policy)
        <3>1. PICK p \in Policies : p = input.policy
            BY <2>2 DEF InputIsTyped, PolicyInputs
        <3>2. PICK age : age = p.MaxAge
            OBVIOUS
        <3>3. /\ age \in Int /\ age < Half
              /\ p = [Strategy |-> p.Strategy, MaxAge |-> age, Pinned |-> p.Pinned]
            BY <3>2, DurationsAreInt64 DEF Policies
        <3>4. AgesAgree(p)
            BY <3>3, AgesAgreeOfPolicies
        <3> QED
            BY <3>1, <3>4
    <2> QED
        BY <2>1, <2>2 DEF RemoteIsLocal
<1> QED
    BY <1>1, InputsAreTyped, PTL

\* In the stores enumerated, a materialization is missing or of its entry's bytes.
LEMMA StoresAre ==
    ASSUME Entries = MCEntries, NEW w \in Stores, NEW e \in NumberedEntries(MCEntries)
    PROVE  w.mats[e.materialization] \in {None, e.hash}
<1> DEFINE Ms == {d.materialization : d \in Entries}
           m == e.materialization
<1>1. \A d \in Entries : d.materialization = d.hash
    BY DEF MCEntries, Entry
<1>2. e.materialization = e.hash /\ m \in Ms
    <2>1. PICK p \in Nat, d \in MCEntries :
             e = [position |-> p, uri |-> d.uri, ref |-> d.ref, snapshot |-> d.snapshot,
                  materialization |-> d.materialization, hash |-> d.hash]
        BY DEF NumberedEntries
    <2> QED
        BY <1>1, <2>1
<1>3. /\ WholeStore.mats = [x \in Ms |-> (CHOOSE d \in Entries : d.materialization = x).hash]
      /\ DOMAIN WholeStore = {"snapshots", "mats", "blobs", "resources"}
    BY DEF WholeStore
<1>4. WholeStore.mats[m] = m
    <2>1. \E d \in Entries : d.materialization = m
        BY <1>2
    <2> HIDE DEF m
    <2> QED
        BY <1>1, <1>2, <1>3, <2>1
<1>5. DOMAIN WholeStore.mats = Ms
    BY <1>3
<1> DEFINE W == WholeStore
<1>6. CASE w.mats = W.mats
    BY <1>2, <1>4, <1>6
<1>7. CASE \E k \in Contents : w.mats = [W.mats EXCEPT ![k] = None]
    <2> HIDE DEF m
    <2> QED
        BY <1>2, <1>4, <1>5, <1>7 DEF m
<1>8. \/ w.mats = W.mats
      \/ \E k \in Contents : w.mats = [W.mats EXCEPT ![k] = None]
    <2>1. \/ w = W
          \/ \E h \in Contents, x \in {None, Torn, Empty} : w = [W EXCEPT !.blobs[h] = x]
          \/ \E k \in Contents : w = [W EXCEPT !.mats[k] = None]
          \/ \E i \in Contents : w = [W EXCEPT !.snapshots[i] = None]
        BY DEF Stores
    <2> HIDE DEF W
    <2> QED
        BY <1>3, <2>1 DEF W
<1> QED
    BY <1>6, <1>7, <1>8

\* Whatever the bound on their length, of two manifests of the instance and each store
\* that lacks a row or whose blob is damaged, a difference says what they read
\* differently (internal/diff).
THEOREM DifferencesChecked ==
    ASSUME Entries = MCEntries, ~IsFunctionValue(Failed)
    PROVE  Spec => []DiffIsExact
<1>1. InputIsTyped => DiffIsExact
    <2> SUFFICES ASSUME InputIsTyped, input.part = "diff"
                 PROVE  DiffIs(input.store, input.a, input.b)
        BY DEF DiffIsExact
    <2>1. /\ input.store \in Stores
          /\ \E s \in BoundedSeq(MCEntries, MaxMounts) : input.a = Numbered(s)
          /\ \E t \in BoundedSeq(MCEntries, MaxMounts) : input.b = Numbered(t)
        BY DEF InputIsTyped, DiffInputs
    <2>2. /\ input.a \in Seq(NumberedEntries(MCEntries))
          /\ input.b \in Seq(NumberedEntries(MCEntries))
        BY <2>1, BoundedSeqsAre, NumberedIs
    <2>3. PICK w, x, y : w = input.store /\ x = input.a /\ y = input.b
        OBVIOUS
    <2>4. \A e \in NumberedEntries(MCEntries) : w.mats[e.materialization] \in {None, e.hash}
        BY <2>1, <2>3, StoresAre
    <2>5. DiffIs(w, x, y)
        BY <2>2, <2>3, <2>4, DifferencesAreExact
    <2> QED
        BY <2>3, <2>5
<1> QED
    BY <1>1, InputsAreTyped, PTL

\* Entries that are made of the instance's read the materialization they record,
\* and a text if they record one, also where the blob of "text" is torn.
LEMMA TextIsRead ==
    ASSUME Entries = MCEntries, Torn # None,
           NEW w \in {WholeStore, [WholeStore EXCEPT !.blobs["text"] = Torn]},
           NEW e \in NumberedEntries({d \in MCEntries : d.hash \notin Binary})
    PROVE  ReplayedContent(w, e) # None /\ ReplayedContent(w, e) \notin Binary
<1> DEFINE Ms == {d.materialization : d \in Entries}
           Bs == Contents \cup {Torn}
<1>1. \A d \in Entries : d.materialization = d.hash /\ d.hash \in Contents
    BY EntriesAreTyped DEF MCEntries, Entry
<1>2. PICK p \in Nat, d \in MCEntries :
         /\ d.hash \notin Binary
         /\ e = [position |-> p, uri |-> d.uri, ref |-> d.ref, snapshot |-> d.snapshot,
                 materialization |-> d.materialization, hash |-> d.hash]
    BY DEF NumberedEntries
<1>3. PICK h : h = e.materialization
    OBVIOUS
<1>4. h = d.hash /\ d.materialization = h /\ d \in Entries
    BY <1>1, <1>2, <1>3
<1>5. h \in Contents /\ h \notin Binary /\ h \in Ms
    BY <1>1, <1>2, <1>4
<1>6. h # None /\ h # Torn /\ Torn \notin Binary
    BY <1>5, ContentsAreTyped
<1>7. PICK mats, blobs : mats = WholeStore.mats /\ blobs = WholeStore.blobs
    OBVIOUS
<1>8. /\ mats = [x \in Ms |-> (CHOOSE y \in Entries : y.materialization = x).hash]
      /\ blobs = [x \in Bs |-> IF x = Torn THEN None ELSE x]
      /\ DOMAIN WholeStore = {"snapshots", "mats", "blobs", "resources"}
    BY <1>7 DEF WholeStore
<1>9. mats[h] = h
    <2>1. \E y \in Entries : y.materialization = h
        BY <1>4
    <2>2. PICK y \in Entries : /\ y = CHOOSE z \in Entries : z.materialization = h
                               /\ y.materialization = h
        BY <2>1
    <2> QED
        BY <1>1, <1>5, <1>8, <2>2
<1>10. blobs[h] = h
    BY <1>5, <1>6, <1>8
<1>11. w.mats = mats /\ (w.blobs = blobs \/ w.blobs = [blobs EXCEPT !["text"] = Torn])
    <2>1. CASE w = WholeStore
        BY <1>7, <2>1
    <2>2. CASE w = [WholeStore EXCEPT !.blobs["text"] = Torn]
        BY <1>7, <1>8, <2>2
    <2> QED
        BY <2>1, <2>2
<1>12. w.blobs[h] = h \/ w.blobs[h] = Torn
    <2>1. h \in DOMAIN blobs
        BY <1>5, <1>8
    <2> QED
        BY <1>10, <1>11, <2>1
<1>13. ReplayedContent(w, e) = w.blobs[h]
    BY <1>3, <1>6, <1>9, <1>11 DEF ReplayedContent
<1> QED
    BY <1>5, <1>6, <1>12, <1>13

LEMMA ValuesAreTexts ==
    ASSUME Entries = MCEntries, Torn # None, {"text", "empty"} \cap Binary = {},
           NEW m \in Methods, NEW v \in Values(m)
    PROVE  ShownAsText(m, v)
<1>1. ASSUME m = "Resolve" PROVE v.Content \notin Binary
    <2>1. v \in Results
        BY <1>1 DEF Values
    <2> QED
        BY <2>1, ResultsAre
<1>2. ASSUME m = "RunMount" PROVE v.Result.Content \notin Binary
    <2>1. v \in [Position : {0, 1}, Result : Results]
        BY <1>2 DEF Values
    <2>2. v.Result \in Results
        BY <2>1
    <2> QED
        BY <2>2, ResultsAre
<1>3. ASSUME m = "Replay" PROVE AreTexts(v.Entries)
    <2> DEFINE Texts == {d \in MCEntries : d.hash \notin Binary}
               Ws == {WholeStore, [WholeStore EXCEPT !.blobs["text"] = Torn]}
               Ms == ManifestsOf(BoundedSeq(Texts, 2))
    <2>1. PICK a \in Ms, w \in Ws : v = [Manifest |-> a, Entries |-> Replay(w, a.Entries)]
        <3>1. Values(m) = {[Manifest |-> a, Entries |-> Replay(w, a.Entries)] :
                              a \in Ms, w \in Ws}
            BY <1>3 DEF Values
        <3> HIDE DEF Ms, Ws
        <3> QED
            BY <3>1
    <2>2. PICK s \in BoundedSeq(Texts, 2) : a.Entries = Numbered(s)
        BY DEF ManifestsOf
    <2>3. PICK es : es = Numbered(s)
        OBVIOUS
    <2>4. es \in Seq(NumberedEntries(Texts))
        <3> HIDE DEF Texts
        <3> QED
            BY <2>3, BoundedSeqsAre, NumberedIs
    <2>5. \A i \in DOMAIN es : es[i] \in NumberedEntries(Texts)
        <3> PICK T : T = NumberedEntries(Texts)
            OBVIOUS
        <3>1. es \in Seq(T)
            BY <2>4
        <3>2. \A i \in DOMAIN es : es[i] \in T
            BY <3>1
        <3> QED
            BY <3>2
    <2>6. ASSUME NEW i \in DOMAIN es
          PROVE  ReplayedContent(w, es[i]) # None /\ ReplayedContent(w, es[i]) \notin Binary
        <3>1. es[i] \in NumberedEntries(Texts)
            BY <2>5, <2>6
        <3> QED
            BY <3>1, TextIsRead
    <2>7. Replay(w, es) = [i \in DOMAIN es |-> ReplayEntry(w, es[i])]
        BY <2>6 DEF Replay
    <2>8. ASSUME NEW i \in DOMAIN es
          PROVE  /\ ReplayEntry(w, es[i]) =
                       [f \in DOMAIN ReplayEntry(w, es[i]) |-> ReplayEntry(w, es[i])[f]]
                 /\ ReplayEntry(w, es[i]).content \notin Binary
        <3>1. PICK content : content = ReplayedContent(w, es[i])
            OBVIOUS
        <3>2. ReplayEntry(w, es[i]) =
                 [position |-> es[i].position, uri |-> es[i].uri, recorded |-> es[i].hash,
                  replayed |-> content, content |-> content, match |-> es[i].hash = content]
            BY <3>1 DEF ReplayEntry
        <3>3. content \notin Binary
            BY <2>6, <2>8, <3>1
        <3> QED
            BY <3>2, <3>3
    <2>9. v.Entries = Replay(w, es)
        BY <2>1, <2>2, <2>3
    <2> QED
        BY <2>7, <2>8, <2>9 DEF AreTexts
<1> QED
    BY <1>1, <1>2, <1>3 DEF ShownAsText

\* Of every operation of the instance the plugin shows what the MCP server shows, but
\* for the fractions of times that the server drops, and of every reference it finds
\* the same resource (payloads.ts, internal/mcp/types.go).
THEOREM SurfacesChecked ==
    ASSUME Entries = MCEntries, Torn # None, {"text", "empty"} \cap Binary = {}
    PROVE  Spec => []SurfacesAgree
<1>1. InputIsTyped => SurfacesAgree
    <2> SUFFICES ASSUME InputIsTyped PROVE SurfacesAgree
        OBVIOUS
    <2>1. ASSUME input.part = "client"
          PROVE  ToolsAgree(input.method, input.outcome, input.tags)
        <3>1. input \in ClientInputs
            BY <2>1 DEF InputIsTyped
        <3>2. PICK m, o, tags : m = input.method /\ o = input.outcome /\ tags = input.tags
            OBVIOUS
        <3>3. m \in Methods /\ OutcomeTyped(m, o) /\ (~Failing(m, o) => o.value \in Values(m))
            BY <3>1, <3>2, OutcomesAre
        <3>4. ~Failing(m, o) => ShownAsText(m, o.value)
            BY <3>3, ValuesAreTexts
        <3>5. ToolsAgree(m, o, tags)
            BY <3>3, <3>4, ToolsAgreeOnOutcomes
        <3> QED
            BY <3>2, <3>5
    <2>2. ReferencesAgree(input.raw)
        BY ReferencesAgreeOnAll
    <2> QED
        BY <2>1, <2>2 DEF SurfacesAgree
<1> QED
    BY <1>1, InputsAreTyped, PTL

(***************************************************************************)
(* Evidence: what the manifest and an answered replay are                  *)
(***************************************************************************)

LEMMA ManifestHas ==
    ASSUME ManifestIs
    PROVE  /\ manifest.id = "manifest" /\ manifest.run = "run"
           /\ manifest.entries \in Seq(NumberedEntries(Entries))
           /\ DOMAIN manifest.entries = 1 .. Len(manifest.entries)
           /\ Len(manifest.entries) \in Nat
           /\ \A i \in DOMAIN manifest.entries :
                 /\ manifest.entries[i].position = i - 1
                 /\ manifest.entries[i].hash \in Contents
                 /\ \E e \in Entries :
                       /\ manifest.entries[i].materialization = e.materialization
                       /\ manifest.entries[i].hash = e.hash
<1>1. PICK s \in BoundedSeq(Entries, MaxEntries) :
         manifest = [id |-> "manifest", run |-> "run", entries |-> Numbered(s)]
    BY DEF ManifestIs
<1>2. s \in Seq(Entries)
    BY BoundedSeqsAre
<1>3. manifest.id = "manifest" /\ manifest.run = "run" /\ manifest.entries = Numbered(s)
    BY <1>1
<1>4. /\ Numbered(s) \in Seq(NumberedEntries(Entries)) /\ Len(Numbered(s)) = Len(s)
      /\ DOMAIN Numbered(s) = DOMAIN s /\ DOMAIN s = 1 .. Len(s) /\ Len(s) \in Nat
    BY <1>2, NumberedIs
<1>5. ASSUME NEW i \in DOMAIN s
      PROVE  /\ s[i] \in Entries /\ Numbered(s)[i].position = i - 1
             /\ Numbered(s)[i].materialization = s[i].materialization
             /\ Numbered(s)[i].hash = s[i].hash
    <2>1. /\ s[i] \in Entries
          /\ Numbered(s)[i] =
                [position |-> i - 1, uri |-> s[i].uri, ref |-> s[i].ref,
                 snapshot |-> s[i].snapshot,
                 materialization |-> s[i].materialization, hash |-> s[i].hash]
        BY <1>2, NumberedIs
    <2> QED
        BY <2>1
<1>6. \A e \in Entries : e.hash \in Contents
    BY EntriesAreTyped
<1> QED
    BY <1>3, <1>4, <1>5, <1>6

LEMMA ReplayIsReplay ==
    ASSUME NEW st, NEW entries
    PROVE  IsReplay(Replay(st, entries), entries)
<1>1. CASE Replay(st, entries) = Failed
    BY <1>1 DEF IsReplay
<1>2. CASE Replay(st, entries) # Failed
    <2>1. Replay(st, entries) = [i \in DOMAIN entries |-> ReplayEntry(st, entries[i])]
        BY <1>2 DEF Replay
    <2>2. \A i \in DOMAIN entries :
             /\ Replay(st, entries)[i].content = ReplayedContent(st, entries[i])
             /\ ReplayEntry(st, entries[i]) =
                  [position |-> entries[i].position, uri |-> entries[i].uri,
                   recorded |-> entries[i].hash,
                   replayed |-> ReplayedContent(st, entries[i]),
                   content |-> ReplayedContent(st, entries[i]),
                   match |-> entries[i].hash = ReplayedContent(st, entries[i])]
        BY <2>1 DEF ReplayEntry
    <2> QED
        BY <2>1, <2>2 DEF IsReplay
<1> QED
    BY <1>1, <1>2

\* What an answered replay is of an entry.
LEMMA ReplayHas ==
    ASSUME ManifestIs, NEW r, IsReplay(r, manifest.entries), r # Failed
    PROVE  /\ DOMAIN r = DOMAIN manifest.entries
           /\ Len(r) = Len(manifest.entries)
           /\ \A i \in DOMAIN r :
                 /\ r[i].position = i - 1
                 /\ r[i].match <=> manifest.entries[i].hash = r[i].content
                 /\ {j \in DOMAIN r : r[j].position = i - 1} = {i}
<1> DEFINE es == manifest.entries
           n == Len(es)
<1>1. DOMAIN es = 1 .. n /\ n \in Nat /\ \A i \in DOMAIN es : es[i].position = i - 1
    BY ManifestHas
<1>2. r = [i \in DOMAIN es |->
              [position |-> es[i].position, uri |-> es[i].uri,
               recorded |-> es[i].hash, replayed |-> r[i].content,
               content |-> r[i].content, match |-> es[i].hash = r[i].content]]
    BY DEF IsReplay
<1> HIDE DEF es, n
<1>3. DOMAIN r = DOMAIN es
    BY <1>2
<1>4. ASSUME NEW i \in DOMAIN r
      PROVE  r[i].position = i - 1 /\ (r[i].match <=> es[i].hash = r[i].content)
    <2>1. PICK c : c = r[i].content
        OBVIOUS
    <2>2. r[i] = [position |-> es[i].position, uri |-> es[i].uri,
                  recorded |-> es[i].hash, replayed |-> c,
                  content |-> c, match |-> es[i].hash = c]
        BY <1>2, <1>3, <2>1
    <2>3. r[i].match = (es[i].hash = c) /\ r[i].position = es[i].position
        BY <2>2
    <2> QED
        BY <1>1, <1>3, <2>1, <2>3
<1>5. r \in [1 .. n -> {r[i] : i \in 1 .. n}]
    <2>1. r = [i \in 1 .. n |-> r[i]]
        BY <1>1, <1>2
    <2> QED
        BY <2>1
<1>6. r \in Seq({r[i] : i \in 1 .. n}) /\ Len(r) = n
    BY <1>1, <1>5, SeqDef
<1>7. ASSUME NEW i \in DOMAIN r
      PROVE  {j \in DOMAIN r : r[j].position = i - 1} = {i}
    <2>1. \A j \in DOMAIN r : j \in Nat
        BY <1>1, <1>3
    <2>2. \A j \in DOMAIN r : r[j].position = i - 1 => j = i
        BY <1>4, <2>1
    <2> QED
        BY <1>4, <2>2
<1> QED
    BY <1>3, <1>4, <1>6, <1>7 DEF es, n

(***************************************************************************)
(* What the two exporters write                                            *)
(***************************************************************************)

LEMMA SameResources == \A got : BuildResources(got) = buildResources(got)
    BY RedactedTwice DEF BuildResources, buildResources

LEMMA SameReplay ==
    ASSUME NEW r
    PROVE  BuildReplay(r) = buildReplay(r).section
<1>1. CASE r = Failed
    BY <1>1 DEF BuildReplay, buildReplay
<1>2. CASE r # Failed
    <2>1. (AllMatch(r) /\ Len(r) = Len(manifest.entries))
             = (~(Len(r) # Len(manifest.entries)) /\ \A i \in DOMAIN r : r[i].match)
        BY DEF AllMatch
    <2> QED
        BY <1>2, <2>1 DEF BuildReplay, buildReplay
<1> QED
    BY <1>1, <1>2

\* The content that each embeds of an entry.
LEMMA EmbeddedByGo ==
    ASSUME ManifestIs, NEW x, IsReplay(x.replayed, manifest.entries),
           NEW i \in DOMAIN manifest.entries
    PROVE  ContentOf(manifest.entries[i], x) =
               IF ~x.withContent \/ x.replayed = Failed THEN None
               ELSE IF x.replayed[i].content = Empty THEN None
               ELSE x.replayed[i].content
<1> DEFINE e == manifest.entries[i]
           r == x.replayed
<1>1. e.position = i - 1
    BY ManifestHas
<1>2. CASE ~x.withContent \/ r = Failed
    BY <1>2 DEF ContentOf
<1>3. CASE x.withContent /\ r # Failed
    <2>1. i \in DOMAIN r /\ {j \in DOMAIN r : r[j].position = i - 1} = {i}
        BY <1>3, ReplayHas
    <2>2. {j \in DOMAIN r : r[j].position = e.position} = {i}
        BY <1>1, <2>1
    <2>3. (CHOOSE j \in {i} : TRUE) = i
        OBVIOUS
    <2> HIDE DEF e, r
    <2>4. ContentOf(e, x) = IF r[i].content = Empty THEN None ELSE r[i].content
        BY <1>3, <2>2, <2>3 DEF ContentOf, r
    <2> QED
        BY <1>3, <2>4 DEF e, r
<1> QED
    BY <1>2, <1>3

LEMMA EmbeddedByTypeScript ==
    ASSUME ManifestIs, NEW x, IsReplay(x.replayed, manifest.entries),
           NEW i \in DOMAIN manifest.entries
    PROVE  LET byPosition == buildReplay(x.replayed).contentByPosition
               p == manifest.entries[i].position
           IN  (IF x.withContent /\ p \in DOMAIN byPosition THEN byPosition[p] ELSE None)
                  = IF ~x.withContent \/ x.replayed = Failed THEN None
                    ELSE Decoded(x.replayed[i].content)
<1> DEFINE p == manifest.entries[i].position
           r == x.replayed
           byPosition == buildReplay(r).contentByPosition
<1>1. p = i - 1
    BY ManifestHas
<1>2. CASE ~x.withContent
    BY <1>2
<1>3. CASE r = Failed
    <2>1. byPosition = <<>>
        BY <1>3 DEF buildReplay
    <2>2. p \notin DOMAIN byPosition
        BY <2>1
    <2> QED
        BY <1>3, <2>2
<1>4. CASE x.withContent /\ r # Failed
    <2>1. i \in DOMAIN r /\ {j \in DOMAIN r : r[j].position = i - 1} = {i}
        BY <1>4, ReplayHas
    <2>2. \A j \in DOMAIN r : r[j].position = p <=> j = i
        BY <1>1, <2>1
    <2>3. byPosition = [q \in {r[j].position : j \in DOMAIN r} |->
                           Decoded(r[CHOOSE j \in DOMAIN r : r[j].position = q].content)]
        BY <1>4 DEF buildReplay
    <2> HIDE DEF p, r, byPosition
    <2>4. p \in DOMAIN byPosition
        BY <2>1, <2>2, <2>3
    <2>5. (CHOOSE j \in DOMAIN r : r[j].position = p) = i
        BY <2>1, <2>2
    <2>6. byPosition[p] = Decoded(r[i].content)
        BY <2>3, <2>4, <2>5
    <2> QED
        BY <1>4, <2>4, <2>6 DEF p, r, byPosition
<1> QED
    BY <1>2, <1>3, <1>4

\* The entries of both bundles.
ExportedEntries(entries, provenances, contents) ==
    [i \in DOMAIN entries |->
        [position |-> entries[i].position, uri |-> entries[i].uri,
         ref |-> entries[i].ref, snapshot |-> entries[i].snapshot,
         materialization |-> entries[i].materialization,
         hash |-> entries[i].hash, provenance |-> provenances[i],
         content |-> contents[i]]]

GoContents(x) ==
    [i \in DOMAIN manifest.entries |->
        IF ~x.withContent \/ x.replayed = Failed THEN None
        ELSE IF x.replayed[i].content = Empty THEN None
        ELSE x.replayed[i].content]

TypeScriptContents(x) ==
    [i \in DOMAIN manifest.entries |->
        IF ~x.withContent \/ x.replayed = Failed THEN None
        ELSE Decoded(x.replayed[i].content)]

LEMMA WrittenEntries ==
    ASSUME ManifestIs, NEW x, IsReplay(x.replayed, manifest.entries)
    PROVE  /\ BuildEntries(x) =
                 ExportedEntries(manifest.entries, x.snapshots, GoContents(x))
           /\ buildEntries(x, buildReplay(x.replayed).contentByPosition) =
                 ExportedEntries(manifest.entries, x.snapshots, TypeScriptContents(x))
<1>1. \A i \in DOMAIN manifest.entries :
         ContentOf(manifest.entries[i], x) = GoContents(x)[i]
    BY EmbeddedByGo DEF GoContents
<1>2. BuildEntries(x) = ExportedEntries(manifest.entries, x.snapshots, GoContents(x))
    BY <1>1 DEF BuildEntries, ExportedEntries
<1> DEFINE byPosition == buildReplay(x.replayed).contentByPosition
<1>3. \A i \in DOMAIN manifest.entries :
         (IF x.withContent /\ manifest.entries[i].position \in DOMAIN byPosition
          THEN byPosition[manifest.entries[i].position] ELSE None)
            = TypeScriptContents(x)[i]
    BY EmbeddedByTypeScript DEF TypeScriptContents
<1> HIDE DEF byPosition
<1>4. buildEntries(x, byPosition) =
          ExportedEntries(manifest.entries, x.snapshots, TypeScriptContents(x))
    BY <1>3 DEF buildEntries, ExportedEntries
<1> QED
    BY <1>2, <1>4 DEF byPosition

\* A root depends on positions, URIs and hashes only.
LEMMA RootOfExported ==
    ASSUME NEW entries, NEW v, NEW c, NEW w, NEW d
    PROVE  MerkleRoot(ExportedEntries(entries, v, c)) = MerkleRoot(ExportedEntries(entries, w, d))
<1>1. \A i \in DOMAIN entries :
         /\ ExportedEntries(entries, v, c)[i].position = ExportedEntries(entries, w, d)[i].position
         /\ ExportedEntries(entries, v, c)[i].uri = ExportedEntries(entries, w, d)[i].uri
         /\ ExportedEntries(entries, v, c)[i].hash = ExportedEntries(entries, w, d)[i].hash
    BY DEF ExportedEntries
<1>2. /\ DOMAIN ExportedEntries(entries, v, c) = DOMAIN entries
      /\ DOMAIN ExportedEntries(entries, w, d) = DOMAIN entries
    BY DEF ExportedEntries
<1>3. LeavesOf(ExportedEntries(entries, v, c)) = LeavesOf(ExportedEntries(entries, w, d))
    BY <1>1, <1>2 DEF LeavesOf
<1> QED
    BY <1>3 DEF MerkleRoot, LeavesOf

LEMMA StatementHas ==
    ASSUME NEW entries, NEW resources, NEW replay
    PROVE  /\ Statement(entries, resources, replay).entries = entries
           /\ Statement(entries, resources, replay).resources = resources
           /\ Statement(entries, resources, replay).replay = replay
    BY DEF Statement

\* The bundles, with what they share.
LEMMA BuiltAs ==
    ASSUME ManifestIs, NEW x, IsReplay(x.replayed, manifest.entries)
    PROVE  /\ Build(x) =
                 Statement(ExportedEntries(manifest.entries, x.snapshots, GoContents(x)),
                           BuildResources(x.resources), BuildReplay(x.replayed))
           /\ buildEvidence(x) =
                 Statement(ExportedEntries(manifest.entries, x.snapshots,
                                           TypeScriptContents(x)),
                           BuildResources(x.resources), BuildReplay(x.replayed))
    BY WrittenEntries, SameResources, SameReplay DEF Build, buildEvidence

\* A content that was embedded is the one recorded exactly when the replay in the bundle
\* says so, and, of TypeScript, the content is text.
LEMMA EmbeddedTells ==
    ASSUME ManifestIs, NEW x, IsReplay(x.replayed, manifest.entries),
           NEW i \in DOMAIN manifest.entries, NEW c, c \notin {None, Empty},
           NEW by \in {"go", "ts"},
           c = IF by = "go" THEN GoContents(x)[i] ELSE TypeScriptContents(x)[i]
    PROVE  c = manifest.entries[i].hash <=>
              /\ BuildReplay(x.replayed).entries[i].match
              /\ ~(by = "ts" /\ manifest.entries[i].hash \in Binary)
<1> DEFINE r == x.replayed
           h == manifest.entries[i].hash
<1>1. r # Failed
    BY DEF GoContents, TypeScriptContents
<1>2. i \in DOMAIN r /\ (r[i].match <=> h = r[i].content)
    BY <1>1, ReplayHas
<1>3. BuildReplay(r).entries[i].match = r[i].match
    BY <1>1, <1>2 DEF BuildReplay
<1>4. h \in Contents /\ h # Mojibake
    BY ManifestHas, ContentsAreTyped
<1>5. CASE by = "go"
    <2>1. c = r[i].content
        BY <1>5 DEF GoContents
    <2> QED
        BY <1>2, <1>3, <1>5, <2>1
<1>6. CASE by = "ts"
    <2>1. c = Decoded(r[i].content)
        BY <1>6 DEF TypeScriptContents
    <2>2. c = IF r[i].content \in Binary THEN Mojibake ELSE r[i].content
        BY <2>1 DEF Decoded
    <2> HIDE DEF r, h
    <2>3. c = h <=> r[i].match /\ h \notin Binary
        BY <1>2, <1>4, <2>2
    <2>4. BuildReplay(r).entries[i].match <=> r[i].match
        BY <1>3
    <2> QED
        BY <1>6, <2>3, <2>4 DEF r, h
<1> QED
    BY <1>5, <1>6

LEMMA ExportedHas ==
    ASSUME NEW entries, NEW v, NEW c, NEW i \in DOMAIN entries
    PROVE  /\ ExportedEntries(entries, v, c)[i].content = c[i]
           /\ ExportedEntries(entries, v, c)[i].hash = entries[i].hash
    BY DEF ExportedEntries

LEMMA WrittenIsExported ==
    ASSUME ManifestIs, ExportIs, export.pc = "write", NEW o,
           o = IF export.by = "go" THEN Build(export) ELSE buildEvidence(export)
    PROVE  /\ o = Statement(o.entries, o.resources, o.replay)
           /\ EntriesAreExported(o)
<1> DEFINE C == IF export.by = "go" THEN GoContents(export) ELSE TypeScriptContents(export)
           es == manifest.entries
           X == ExportedEntries(es, export.snapshots, C)
<1>1. IsReplay(export.replayed, es) /\ export.by \in {"go", "ts"}
    BY DEF ExportIs
<1>2. o = Statement(X, BuildResources(export.resources), BuildReplay(export.replayed))
    BY <1>1, BuiltAs
<1>3. /\ o.entries = X /\ o.resources = BuildResources(export.resources)
      /\ o.replay = BuildReplay(export.replayed)
    BY <1>2, StatementHas
<1>4. \A i \in DOMAIN es : X[i].content = C[i] /\ X[i].hash = es[i].hash
    BY ExportedHas
<1>5. DOMAIN X = DOMAIN es
    BY DEF ExportedEntries
<1>6. ASSUME NEW i \in DOMAIN es, X[i].content \notin {None, Empty}
      PROVE  X[i].content = X[i].hash <=>
                /\ BuildReplay(export.replayed).entries[i].match
                /\ ~(export.by = "ts" /\ X[i].hash \in Binary)
    <2>1. PICK c, by : c = C[i] /\ by = export.by
        OBVIOUS
    <2>2. c \notin {None, Empty} /\ by \in {"go", "ts"}
        BY <1>1, <1>4, <1>6, <2>1
    <2>3. c = IF by = "go" THEN GoContents(export)[i] ELSE TypeScriptContents(export)[i]
        BY <2>1
    <2>4. c = es[i].hash <=>
             /\ BuildReplay(export.replayed).entries[i].match
             /\ ~(by = "ts" /\ es[i].hash \in Binary)
        BY <1>1, <2>2, <2>3, EmbeddedTells
    <2> QED
        BY <1>4, <2>1, <2>4
<1>7. X = [i \in DOMAIN es |->
              [position |-> es[i].position, uri |-> es[i].uri,
               ref |-> es[i].ref, snapshot |-> es[i].snapshot,
               materialization |-> es[i].materialization, hash |-> es[i].hash,
               provenance |-> X[i].provenance, content |-> X[i].content]]
    BY DEF ExportedEntries
<1> HIDE DEF X, C
<1>8. EntriesAreExported(o)
    BY <1>3, <1>5, <1>6, <1>7 DEF EntriesAreExported, Embedded
<1> QED
    BY <1>2, <1>3, <1>8

\* From the same answers the exporters write the same bundle, up to the embedded bytes
\* of binary and of empty contents.
LEMMA ExportersWriteTheSame ==
    ASSUME EvidenceIInv
    PROVE  ExportersAgree
<1> SUFFICES ASSUME export.pc = "write"
             PROVE  /\ WithoutContent(Build(export)) = WithoutContent(buildEvidence(export))
                    /\ \A i \in DOMAIN Build(export).entries :
                          \/ Build(export).entries[i].content
                                = buildEvidence(export).entries[i].content
                          \/ Build(export).entries[i].content \in Binary
                          \/ buildEvidence(export).entries[i].content = Empty
    BY DEF ExportersAgree
<1> DEFINE es == manifest.entries
           G == ExportedEntries(es, export.snapshots, GoContents(export))
           T == ExportedEntries(es, export.snapshots, TypeScriptContents(export))
           rs == BuildResources(export.resources)
           rp == BuildReplay(export.replayed)
<1>1. Build(export) = Statement(G, rs, rp) /\ buildEvidence(export) = Statement(T, rs, rp)
    <2>1. ManifestIs /\ IsReplay(export.replayed, es)
        BY DEF EvidenceIInv, ExportIs
    <2> QED
        BY <2>1, BuiltAs
<1>2. MerkleRoot(G) = MerkleRoot(T)
    BY RootOfExported
<1>3. DOMAIN G = DOMAIN es /\ DOMAIN T = DOMAIN es
    BY DEF ExportedEntries
<1>4. \A i \in DOMAIN es : [G[i] EXCEPT !.content = None] = [T[i] EXCEPT !.content = None]
    BY DEF ExportedEntries
<1>5. \A i \in DOMAIN es :
         /\ G[i].content = GoContents(export)[i]
         /\ T[i].content = TypeScriptContents(export)[i]
    BY ExportedHas
<1>6. \A i \in DOMAIN es :
         \/ GoContents(export)[i] = TypeScriptContents(export)[i]
         \/ GoContents(export)[i] \in Binary
         \/ TypeScriptContents(export)[i] = Empty
    BY ContentsAreTyped DEF GoContents, TypeScriptContents, Decoded
<1> HIDE DEF G, T, rs, rp
<1>7. WithoutContent(Statement(G, rs, rp)) = WithoutContent(Statement(T, rs, rp))
    <2>1. [i \in DOMAIN G |-> [G[i] EXCEPT !.content = None]]
             = [i \in DOMAIN T |-> [T[i] EXCEPT !.content = None]]
        BY <1>3, <1>4
    <2>2. PICK N : N = [i \in DOMAIN G |-> [G[i] EXCEPT !.content = None]]
        OBVIOUS
    <2>3. /\ WithoutContent(Statement(G, rs, rp)) = [Statement(G, rs, rp) EXCEPT !.entries = N]
          /\ WithoutContent(Statement(T, rs, rp)) = [Statement(T, rs, rp) EXCEPT !.entries = N]
        <3>1. PICK g : g = Statement(G, rs, rp)
            OBVIOUS
        <3>2. PICK t : t = Statement(T, rs, rp)
            OBVIOUS
        <3>3. g.entries = G /\ t.entries = T
            BY <3>1, <3>2, StatementHas
        <3>4. /\ [i \in DOMAIN g.entries |-> [g.entries[i] EXCEPT !.content = None]] = N
              /\ [i \in DOMAIN t.entries |-> [t.entries[i] EXCEPT !.content = None]] = N
            BY <2>1, <2>2, <3>3, Zenon
        <3>5. /\ WithoutContent(g) = [g EXCEPT !.entries = N]
              /\ WithoutContent(t) = [t EXCEPT !.entries = N]
            BY <3>4, Zenon DEF WithoutContent
        <3> QED
            BY <3>1, <3>2, <3>5
    <2>4. [Statement(G, rs, rp) EXCEPT !.entries = N] = [Statement(T, rs, rp) EXCEPT !.entries = N]
        BY <1>2 DEF Statement
    <2> QED
        BY <2>3, <2>4
<1> QED
    BY <1>1, <1>3, <1>5, <1>6, <1>7, StatementHas

(***************************************************************************)
(* The inductive invariant of Evidence                                     *)
(***************************************************************************)

LEMMA EvidenceStarts == EvidenceInit => EvidenceIInv
<1> SUFFICES ASSUME EvidenceInit PROVE EvidenceIInv
    OBVIOUS
<1>1. StoreIs
    <2> DEFINE Ms == {e.materialization : e \in Entries}
               f == [m \in Ms |-> (CHOOSE e \in Entries : e.materialization = m).hash]
    <2>1. /\ store.mats = f
          /\ store = [snapshots |-> store.snapshots, mats |-> store.mats,
                      blobs |-> store.blobs, resources |-> store.resources]
        BY DEF EvidenceInit, WholeStore
    <2>2. ASSUME NEW e \in Entries PROVE f[e.materialization] = e.hash
        <3>1. PICK m : m = e.materialization
            OBVIOUS
        <3>2. m \in Ms
            BY <3>1
        <3> DEFINE d == CHOOSE d \in Entries : d.materialization = m
        <3>3. d \in Entries /\ d.materialization = m
            BY <3>1
        <3>4. f[m] = d.hash
            BY <3>2
        <3>5. d.hash = e.hash
            <4> HIDE DEF d
            <4> QED
                BY <3>1, <3>3, EntriesAreTyped
        <3> QED
            BY <3>1, <3>4, <3>5
    <2>3. DOMAIN f = Ms
        OBVIOUS
    <2> HIDE DEF f
    <2> QED
        BY <2>1, <2>2, <2>3 DEF StoreIs
<1>2. ManifestIs
    BY DEF EvidenceInit, ManifestIs
<1>3. ExportIs
    <2>1. PICK by \in {"go", "ts"}, withContent \in BOOLEAN :
             export = Exporting("replay", by, withContent)
        BY DEF EvidenceInit
    <2> QED
        BY <2>1 DEF ExportIs, Exporting
<1>4. export.pc = "replay"
    BY DEF EvidenceInit, Exporting
<1>5. report = NoFile
    BY DEF EvidenceInit
<1> QED
    BY <1>1, <1>2, <1>3, <1>4, <1>5 DEF EvidenceIInv, OriginalIs, BundleIs, ReportIs

\* What is said of the manifest, the export and the bundles is not about the store.
LEMMA BundlesKept ==
    ASSUME EvidenceIInv, UNCHANGED <<manifest, export, original, bundle>>
    PROVE  ManifestIs' /\ ExportIs' /\ OriginalIs' /\ BundleIs'
<1>1. manifest' = manifest /\ export' = export /\ original' = original /\ bundle' = bundle
    OBVIOUS
<1>2. ManifestIs' /\ ExportIs' /\ BundleIs'
    BY <1>1 DEF EvidenceIInv, ManifestIs, ExportIs, BundleIs
<1>3. OriginalIs'
    BY <1>1 DEF EvidenceIInv, OriginalIs, EntriesAreExported, Embedded, Statement
<1> QED
    BY <1>2, <1>3

LEMMA StoreKept ==
    ASSUME StoreIs, StoreChanges
    PROVE  StoreIs'
<1>1. \/ \E h, x : store' = [store EXCEPT !.blobs[h] = x]
      \/ \E m : store' = [store EXCEPT !.mats[m] = None]
      \/ \E s : store' = [store EXCEPT !.snapshots[s] = None]
      \/ \E u : store' = [store EXCEPT !.resources[u] = None]
    BY DEF StoreChanges, TearBlob, LoseBlob, FinishBlob, LoseMaterialization,
           LoseSnapshot, LoseResource, Damaged
<1>2. store = [snapshots |-> store.snapshots, mats |-> store.mats,
               blobs |-> store.blobs, resources |-> store.resources]
    BY DEF StoreIs
<1>3. /\ store' = [snapshots |-> store'.snapshots, mats |-> store'.mats,
                   blobs |-> store'.blobs, resources |-> store'.resources]
      /\ store'.mats = store.mats \/ \E m : store'.mats = [store.mats EXCEPT ![m] = None]
    BY <1>1, <1>2
<1>4. /\ DOMAIN store'.mats = DOMAIN store.mats
      /\ \A m \in DOMAIN store.mats : store'.mats[m] \in {store.mats[m], None}
    BY <1>3
<1>5. ASSUME NEW e \in Entries PROVE store'.mats[e.materialization] \in {None, e.hash}
    BY <1>4 DEF StoreIs
<1> QED
    BY <1>3, <1>4, <1>5 DEF StoreIs

\* A file and the report of it stay while nothing is verified.
LEMMA ReportKept ==
    ASSUME EvidenceIInv, UNCHANGED <<store, manifest, export, bundle, report>>
    PROVE  ReportIs'
    BY DEF EvidenceIInv, ReportIs, Verify, VerifyStatement, VerifyMerkle,
           VerifyEntryOrder, VerifyEmbeddedContent, VerifyAgainstStore

\* A call that is answered before the bundle is written.
LEMMA CallKept ==
    ASSUME EvidenceIInv, UNCHANGED <<store, manifest, original, report, bundle>>,
           export.pc \notin {"written", "edited"}, export'.pc \notin {"written", "edited"},
           ExportIs'
    PROVE  EvidenceIInv'
<1>1. StoreIs' /\ ManifestIs'
    BY DEF EvidenceIInv, StoreIs, ManifestIs
<1>2. OriginalIs' /\ BundleIs'
    BY DEF OriginalIs, BundleIs
<1>3. ReportIs'
    BY DEF EvidenceIInv, ReportIs
<1> QED
    BY <1>1, <1>2, <1>3 DEF EvidenceIInv

LEMMA Asked ==
    ASSUME EvidenceIInv, AskReplay \/ AskSnapshots \/ AskResources
    PROVE  EvidenceIInv'
<1>1. /\ UNCHANGED <<store, manifest, original, report, bundle>>
      /\ export.pc \in {"replay", "snapshots", "resources"}
    BY DEF AskReplay, AskSnapshots, AskResources, AtCall
<1>2. /\ export = [pc |-> export.pc, by |-> export.by, withContent |-> export.withContent,
                   replayed |-> export.replayed, snapshots |-> export.snapshots,
                   resources |-> export.resources]
      /\ export.by \in {"go", "ts"}
      /\ export.pc # "replay" => IsReplay(export.replayed, manifest.entries)
    BY DEF EvidenceIInv, ExportIs
<1>3. CASE AskReplay
    <2>1. export' = [export EXCEPT !.pc = "snapshots",
                                   !.replayed = Replay(store, manifest.entries)]
        BY <1>3 DEF AskReplay
    <2>2. IsReplay(Replay(store, manifest.entries), manifest.entries)
        BY ReplayIsReplay
    <2>3. ExportIs' /\ export'.pc = "snapshots"
        BY <1>1, <1>2, <2>1, <2>2 DEF ExportIs
    <2> QED
        BY <1>1, <2>3, CallKept
<1>4. CASE AskSnapshots
    <2>1. export.pc = "snapshots"
        BY <1>4 DEF AskSnapshots, AtCall
    <2>2. \/ export' = [export EXCEPT !.pc = "failed"]
          \/ \E got : export' = [export EXCEPT !.pc = "resources", !.snapshots = got]
        BY <1>4 DEF AskSnapshots
    <2>3. ExportIs' /\ export'.pc \in {"failed", "resources"}
        BY <1>1, <1>2, <2>1, <2>2 DEF ExportIs
    <2> QED
        BY <1>1, <2>3, CallKept
<1>5. CASE AskResources
    <2>1. export.pc = "resources"
        BY <1>5 DEF AskResources, AtCall
    <2>2. \E got : export' = [export EXCEPT !.pc = "write", !.resources = got]
        BY <1>5 DEF AskResources
    <2>3. ExportIs' /\ export'.pc = "write"
        BY <1>1, <1>2, <2>1, <2>2 DEF ExportIs
    <2> QED
        BY <1>1, <2>3, CallKept
<1> QED
    BY <1>3, <1>4, <1>5

LEMMA BundleWritten ==
    ASSUME EvidenceIInv, WriteBundle
    PROVE  EvidenceIInv'
<1>1. /\ UNCHANGED <<store, manifest, report>> /\ export.pc = "write"
      /\ export' = [export EXCEPT !.pc = "written"] /\ original' = bundle'
      /\ bundle' = IF export.by = "go" THEN Build(export) ELSE buildEvidence(export)
    BY DEF WriteBundle
<1>2. /\ export = [pc |-> export.pc, by |-> export.by, withContent |-> export.withContent,
                   replayed |-> export.replayed, snapshots |-> export.snapshots,
                   resources |-> export.resources]
      /\ export.by \in {"go", "ts"}
      /\ IsReplay(export.replayed, manifest.entries)
    BY <1>1 DEF EvidenceIInv, ExportIs
<1>3. StoreIs' /\ ManifestIs'
    BY <1>1 DEF EvidenceIInv, StoreIs, ManifestIs
<1>4. ExportIs' /\ export'.pc = "written" /\ export'.by = export.by
    BY <1>1, <1>2 DEF ExportIs
<1>5. PICK o : o = bundle'
    OBVIOUS
<1>6. o = Statement(o.entries, o.resources, o.replay) /\ EntriesAreExported(o)
    BY <1>1, <1>5, WrittenIsExported DEF EvidenceIInv
<1>7. OriginalIs' /\ BundleIs'
    <2>1. original' = o /\ bundle' = o /\ manifest' = manifest
        BY <1>1, <1>5
    <2>2. BundleIs'
        BY <1>4, <2>1 DEF BundleIs
    <2>3. OriginalIs'
        BY <1>4, <1>6, <2>1 DEF OriginalIs, EntriesAreExported, Embedded, Statement
    <2> QED
        BY <2>2, <2>3
<1>8. ReportIs'
    <2>1. report = NoFile
        BY <1>1 DEF EvidenceIInv, ReportIs
    <2> QED
        BY <1>1, <2>1 DEF ReportIs
<1> QED
    BY <1>3, <1>4, <1>7, <1>8 DEF EvidenceIInv

LEMMA BundleEdited ==
    ASSUME EvidenceIInv, EditBundle
    PROVE  EvidenceIInv'
<1>1. /\ UNCHANGED <<store, manifest, original, report>>
      /\ export.pc = "written" /\ report = NoFile /\ bundle' \in Edited(bundle)
      /\ export' = [export EXCEPT !.pc = "edited"]
    BY DEF EditBundle
<1>2. /\ export = [pc |-> export.pc, by |-> export.by, withContent |-> export.withContent,
                   replayed |-> export.replayed, snapshots |-> export.snapshots,
                   resources |-> export.resources]
      /\ export.by \in {"go", "ts"}
      /\ IsReplay(export.replayed, manifest.entries)
    BY <1>1 DEF EvidenceIInv, ExportIs
<1>3. StoreIs' /\ ManifestIs' /\ ReportIs'
    BY <1>1 DEF EvidenceIInv, StoreIs, ManifestIs, ReportIs
<1>4. ExportIs' /\ export'.pc = "edited" /\ export'.by = export.by
    BY <1>1, <1>2 DEF ExportIs
<1>5. BundleIs'
    BY <1>1, <1>4 DEF EvidenceIInv, BundleIs
<1>6. OriginalIs'
    BY <1>1, <1>4 DEF EvidenceIInv, OriginalIs, EntriesAreExported, Embedded, Statement
<1> QED
    BY <1>3, <1>4, <1>5, <1>6 DEF EvidenceIInv

LEMMA BundleVerified ==
    ASSUME EvidenceIInv, NEW online \in BOOLEAN, VerifyBundle(online)
    PROVE  EvidenceIInv'
<1>1. /\ UNCHANGED <<store, manifest, export, bundle, original>>
      /\ export.pc \in {"written", "edited"} /\ report' = Verify(bundle, online)
    BY DEF VerifyBundle
<1>2. StoreIs'
    BY <1>1 DEF EvidenceIInv, StoreIs
<1>3. ManifestIs' /\ ExportIs' /\ OriginalIs' /\ BundleIs'
    BY <1>1, BundlesKept
<1>4. Verify(bundle, online)' = Verify(bundle, online)
    BY <1>1 DEF Verify, VerifyStatement, VerifyMerkle,
           VerifyEntryOrder, VerifyEmbeddedContent, VerifyAgainstStore
<1>5. ReportIs'
    BY <1>1, <1>4 DEF ReportIs
<1> QED
    BY <1>2, <1>3, <1>5 DEF EvidenceIInv

\* The strengthened invariant of exporting, editing and verifying (internal/evidence).
THEOREM EvidenceInvariance == EvidenceSpec => []EvidenceIInv
<1>1. EvidenceIInv /\ [EvidenceNext]_evidenceVars => EvidenceIInv'
    <2> SUFFICES ASSUME EvidenceIInv, [EvidenceNext]_evidenceVars PROVE EvidenceIInv'
        OBVIOUS
    <2>1. CASE StoreChanges
        <3>1. UNCHANGED <<manifest, export, bundle, original, report>> /\ report = NoFile
            BY <2>1 DEF StoreChanges
        <3>2. StoreIs'
            BY <2>1, StoreKept DEF EvidenceIInv
        <3>3. ManifestIs' /\ ExportIs' /\ OriginalIs' /\ BundleIs'
            BY <3>1, BundlesKept
        <3> QED
            BY <3>1, <3>2, <3>3 DEF EvidenceIInv, ReportIs
    <2>2. CASE AskReplay \/ AskSnapshots \/ AskResources
        BY <2>2, Asked
    <2>3. CASE WriteBundle
        BY <2>3, BundleWritten
    <2>4. CASE EditBundle
        BY <2>4, BundleEdited
    <2>5. CASE \E online \in BOOLEAN : VerifyBundle(online)
        BY <2>5, BundleVerified
    <2>6. CASE UNCHANGED evidenceVars
        <3>1. UNCHANGED <<store, manifest, export, bundle, original, report>>
            BY <2>6 DEF evidenceVars
        <3>2. StoreIs'
            BY <3>1 DEF EvidenceIInv, StoreIs
        <3>3. ManifestIs' /\ ExportIs' /\ OriginalIs' /\ BundleIs'
            BY <3>1, BundlesKept
        <3>4. ReportIs'
            BY <3>1, ReportKept
        <3> QED
            BY <3>2, <3>3, <3>4 DEF EvidenceIInv
    <2> QED
        BY <2>1, <2>2, <2>3, <2>4, <2>5, <2>6 DEF EvidenceNext
<1> QED
    BY <1>1, EvidenceStarts, PTL DEF EvidenceSpec

\* For all entries and contents and any damage to the store between the calls, the
\* exporters write the same bundle (build.go, evidence.ts).
THEOREM ExportersWriteOneBundle == EvidenceSpec => []ExportersAgree
    BY EvidenceInvariance, ExportersWriteTheSame, PTL

(***************************************************************************)
(* What a damaged file differs in                                          *)
(***************************************************************************)

\* The fields of a bundle that are verified, besides its entries.
Fields(b) == <<b.type, b.predicateType, b.subject, b.manifest, b.root>>

Subject(name, digest) == <<[name |-> name, digest |-> digest]>>

LEMMA StatementFields ==
    ASSUME NEW es, NEW rs, NEW rp
    PROVE  LET o == Statement(es, rs, rp) IN
           /\ o.type = "statement" /\ o.predicateType = "evidence"
           /\ o.subject = Subject(manifest.id, MerkleRoot(es))
           /\ o.manifest = manifest.id /\ o.root = MerkleRoot(es) /\ o.run = manifest.run
           /\ o = [type |-> o.type, subject |-> o.subject,
                   predicateType |-> o.predicateType, run |-> o.run,
                   manifest |-> o.manifest, root |-> o.root, entries |-> o.entries,
                   resources |-> o.resources, replay |-> o.replay]
    BY DEF Statement, Subject

\* One field of a subject.
LEMMA SubjectEdited ==
    ASSUME NEW n, NEW d, NEW x
    PROVE  /\ [Subject(n, d) EXCEPT ![1].name = x] = Subject(x, d)
           /\ [Subject(n, d) EXCEPT ![1].digest = x] = Subject(n, x)
           /\ Len(Subject(n, d)) = 1 /\ Len(Subject(n, d) \o Subject(n, d)) = 2
           /\ Subject(n, d)[1].name = n /\ Subject(n, d)[1].digest = d
<1>1. PICK r : r = [name |-> n, digest |-> d]
    OBVIOUS
<1>2. Subject(n, d) = <<r>>
    BY <1>1 DEF Subject
<1>3. [r EXCEPT !.name = x] = [name |-> x, digest |-> d]
    BY <1>1
<1>4. [r EXCEPT !.digest = x] = [name |-> n, digest |-> x]
    BY <1>1
<1>5. \A q : [<<r>> EXCEPT ![1] = q] = <<q>>
    OBVIOUS
<1>6. [<<r>> EXCEPT ![1].name = x] = <<[name |-> x, digest |-> d]>>
    <2>1. [<<r>> EXCEPT ![1].name = x] = [<<r>> EXCEPT ![1] = [r EXCEPT !.name = x]]
        OBVIOUS
    <2> QED
        BY <1>3, <1>5, <2>1
<1>7. [<<r>> EXCEPT ![1].digest = x] = <<[name |-> n, digest |-> x]>>
    <2>1. [<<r>> EXCEPT ![1].digest = x] = [<<r>> EXCEPT ![1] = [r EXCEPT !.digest = x]]
        OBVIOUS
    <2> QED
        BY <1>4, <1>5, <2>1
<1>8. Len(<<r>>) = 1 /\ Len(<<r>> \o <<r>>) = 2 /\ <<r>>[1] = r
    OBVIOUS
<1>9. r.name = n /\ r.digest = d
    BY <1>1
<1> QED
    BY <1>2, <1>6, <1>7, <1>8, <1>9 DEF Subject

\* The shapes of an edited bundle: other entries, or another of its fields.
LEMMA EditsAre ==
    ASSUME NEW es, NEW rs, NEW rp, NEW o, o = Statement(es, rs, rp),
           NEW b, b = o \/ b \in Edited(o)
    PROVE  /\ b.run \in {o.run, None}
           /\ \/ Fields(b) = Fields(o) /\ b.entries \in EntriesEdited(o)
              \/ /\ b.entries = es
                 /\ \/ Fields(b) = Fields(o)
                    \/ Fields(b) = <<None, o.predicateType, o.subject, o.manifest, o.root>>
                    \/ Fields(b) = <<o.type, None, o.subject, o.manifest, o.root>>
                    \/ /\ Len(b.subject) # 1
                       /\ Fields(b) = <<o.type, o.predicateType, b.subject, o.manifest, o.root>>
                    \/ \E n, d : /\ n = None \/ d = None
                                 /\ n \in {manifest.id, None} /\ d \in {MerkleRoot(es), None}
                                 /\ Fields(b) = <<o.type, o.predicateType, Subject(n, d),
                                                  o.manifest, o.root>>
                    \/ Fields(b) = <<o.type, o.predicateType, o.subject, None, o.root>>
                    \/ Fields(b) = <<o.type, o.predicateType, o.subject, o.manifest, None>>
<1>1. /\ o.subject = Subject(manifest.id, MerkleRoot(es))
      /\ o = [type |-> o.type, subject |-> o.subject,
              predicateType |-> o.predicateType, run |-> o.run,
              manifest |-> o.manifest, root |-> o.root, entries |-> o.entries,
              resources |-> o.resources, replay |-> o.replay]
      /\ o.entries = es
    BY StatementFields, StatementHas
<1>2. CASE b = o
    BY <1>1, <1>2
<1>3. CASE \E x \in EntriesEdited(o) : b = [o EXCEPT !.entries = x]
    BY <1>1, <1>3 DEF Fields
<1>4. CASE b = [o EXCEPT !.type = None]
    BY <1>1, <1>4 DEF Fields
<1>5. CASE b = [o EXCEPT !.predicateType = None]
    BY <1>1, <1>5 DEF Fields
<1>6. CASE b = [o EXCEPT !.subject = <<>>]
    BY <1>1, <1>6 DEF Fields
<1>7. CASE b = [o EXCEPT !.subject = @ \o @]
    <2>1. Len(o.subject \o o.subject) = 2
        BY <1>1, SubjectEdited
    <2>2. PICK s : s = o.subject \o o.subject
        OBVIOUS
    <2>3. b = [o EXCEPT !.subject = s]
        BY <1>7, <2>2
    <2> QED
        BY <1>1, <2>1, <2>2, <2>3 DEF Fields
<1>8. CASE b = [o EXCEPT !.subject[1].name = None]
    <2>1. PICK s : s = Subject(None, MerkleRoot(es))
        OBVIOUS
    <2>2. b = [o EXCEPT !.subject = [o.subject EXCEPT ![1].name = None]]
        BY <1>8
    <2>3. b = [o EXCEPT !.subject = s]
        BY <1>1, <2>1, <2>2, SubjectEdited
    <2> QED
        BY <1>1, <2>1, <2>3 DEF Fields
<1>9. CASE b = [o EXCEPT !.subject[1].digest = None]
    <2>1. PICK s : s = Subject(manifest.id, None)
        OBVIOUS
    <2>2. b = [o EXCEPT !.subject = [o.subject EXCEPT ![1].digest = None]]
        BY <1>9
    <2>3. b = [o EXCEPT !.subject = s]
        BY <1>1, <2>1, <2>2, SubjectEdited
    <2> QED
        BY <1>1, <2>1, <2>3 DEF Fields
<1>10. CASE b = [o EXCEPT !.manifest = None]
    BY <1>1, <1>10 DEF Fields
<1>11. CASE b = [o EXCEPT !.root = None]
    BY <1>1, <1>11 DEF Fields
<1>12. CASE \/ b = [o EXCEPT !.run = None] \/ b = [o EXCEPT !.resources = <<>>]
            \/ b = [o EXCEPT !.replay.allMatch = ~@]
    <2>1. Fields(b) = Fields(o) /\ b.entries = o.entries /\ b.run \in {o.run, None}
        BY <1>1, <1>12 DEF Fields
    <2> QED
        BY <1>1, <2>1
<1> QED
    BY <1>2, <1>3, <1>4, <1>5, <1>6, <1>7, <1>8, <1>9, <1>10, <1>11, <1>12 DEF Edited

EntryRecord(e) ==
    e = [position |-> e.position, uri |-> e.uri, ref |-> e.ref, snapshot |-> e.snapshot,
         materialization |-> e.materialization, hash |-> e.hash,
         provenance |-> e.provenance, content |-> e.content]

LEMMA EntryEdited ==
    ASSUME NEW e, EntryRecord(e), NEW r,
           \/ r = [e EXCEPT !.position = @ + 1] \/ r = [e EXCEPT !.uri = None]
           \/ r = [e EXCEPT !.hash = Torn] \/ r = [e EXCEPT !.ref = Torn]
           \/ r = [e EXCEPT !.content = IF @ = None THEN None ELSE Torn]
           \/ r = [e EXCEPT !.content = None]
    PROVE  r.content \in {e.content, None, Torn}
    BY DEF EntryRecord

\* Edited entries are a list again; what commits to the same reads has as many entries,
\* and their contents are as they were, or gone, or torn.
LEMMA EditedEntries ==
    ASSUME NEW o, NEW S, o.entries \in Seq(S), InOrder(o.entries),
           \A e \in S : EntryRecord(e), NEW x \in EntriesEdited(o)
    PROVE  /\ \E E : x \in Seq(E) /\ o.entries \in Seq(E)
           /\ Committed(x) = Committed(o.entries) =>
                 /\ DOMAIN x = DOMAIN o.entries
                 /\ \A i \in DOMAIN x : x[i].content \in {o.entries[i].content, None, Torn}
<1> DEFINE es == o.entries
           n == Len(es)
<1>1. /\ n \in Nat /\ DOMAIN es = 1 .. n /\ (\A i \in 1 .. n : es[i] \in S)
      /\ es = [i \in 1 .. n |-> es[i]]
    OBVIOUS
<1>2. \A i \in 1 .. n : es[i].position = i - 1 /\ EntryRecord(es[i])
    BY <1>1 DEF InOrder
<1>3. n # 0
    BY DEF EntriesEdited
<1>4. \/ x \in {Front(es), Append(es, Last(es))}
      \/ \E i \in 1 .. n - 1 : x = [es EXCEPT ![i] = es[i + 1], ![i + 1] = es[i]]
      \/ \E i \in 1 .. n :
            \/ x = [es EXCEPT ![i].position = @ + 1] \/ x = [es EXCEPT ![i].uri = None]
            \/ x = [es EXCEPT ![i].hash = Torn] \/ x = [es EXCEPT ![i].ref = Torn]
            \/ x = [es EXCEPT ![i].content = IF @ = None THEN None ELSE Torn]
            \/ x = [es EXCEPT ![i].content = None]
    <2> HIDE DEF n, es
    <2>1. x \in {Front(es), Append(es, Last(es))}
            \cup {[es EXCEPT ![i] = es[i + 1], ![i + 1] = es[i]] : i \in 1 .. n - 1}
            \cup UNION {{[es EXCEPT ![i].position = @ + 1], [es EXCEPT ![i].uri = None],
                         [es EXCEPT ![i].hash = Torn], [es EXCEPT ![i].ref = Torn],
                         [es EXCEPT ![i].content = IF @ = None THEN None ELSE Torn],
                         [es EXCEPT ![i].content = None]} : i \in 1 .. n}
        BY <1>3, Zenon DEF EntriesEdited, es, n
    <2> QED
        BY <2>1
<1>5. DOMAIN Committed(x) = DOMAIN x /\ DOMAIN Committed(es) = DOMAIN es
    BY DEF Committed
<1>6. CASE x \in {Front(es), Append(es, Last(es))}
    <2>1. CASE x = Front(es)
        <3>1. x = SubSeq(es, 1, n - 1)
            BY <2>1 DEF Front
        <3>2. x \in Seq(S) /\ Len(x) = n - 1
            BY <1>1, <1>3, <3>1
        <3>3. DOMAIN x = 1 .. (n - 1) /\ n \notin DOMAIN x /\ n \in DOMAIN es
            BY <1>1, <1>3, <3>2
        <3> QED
            BY <1>5, <3>2, <3>3
    <2>2. CASE x = Append(es, Last(es))
        <3>1. Last(es) \in S
            BY <1>1, <1>3 DEF Last
        <3>2. PICK l \in S : x = Append(es, l)
            BY <2>2, <3>1
        <3>3. x \in Seq(S) /\ Len(x) = n + 1
            BY <1>1, <3>2
        <3>4. DOMAIN x = 1 .. (n + 1) /\ n + 1 \in DOMAIN x /\ n + 1 \notin DOMAIN es
            BY <1>1, <3>3
        <3> QED
            BY <1>5, <3>3, <3>4
    <2> QED
        BY <1>6, <2>1, <2>2
<1>7. CASE \E i \in 1 .. n - 1 : x = [es EXCEPT ![i] = es[i + 1], ![i + 1] = es[i]]
    <2>1. PICK i \in 1 .. n - 1 : x = [es EXCEPT ![i] = es[i + 1], ![i + 1] = es[i]]
        BY <1>7
    <2>2. i \in 1 .. n /\ i + 1 \in 1 .. n /\ i # i + 1
        BY <1>1, <2>1
    <2>3. PICK p, q : p = es[i] /\ q = es[i + 1]
        OBVIOUS
    <2>4. x = [es EXCEPT ![i] = q, ![i + 1] = p] /\ p \in S /\ q \in S
        BY <1>1, <2>1, <2>2, <2>3
    <2> HIDE DEF es, n
    <2>5. x \in [1 .. n -> S] /\ x[i] = q
        BY <1>1, <2>2, <2>4
    <2>6. x \in Seq(S) /\ DOMAIN x = DOMAIN es
        BY <1>1, <2>5, SeqDef
    <2>7. Committed(x)[i] = <<q.position, q.uri, q.hash>>
        BY <1>1, <2>2, <2>5, <2>6 DEF Committed
    <2>8. Committed(es)[i] = <<p.position, p.uri, p.hash>>
        BY <1>1, <2>2, <2>3 DEF Committed
    <2>9. p.position = i - 1 /\ q.position = i + 1 - 1
        BY <1>2, <2>2, <2>3
    <2>10. p.position # q.position
        BY <2>2, <2>9
    <2> QED
        BY <2>6, <2>7, <2>8, <2>10 DEF es
<1>8. CASE \E i \in 1 .. n :
              \/ x = [es EXCEPT ![i].position = @ + 1] \/ x = [es EXCEPT ![i].uri = None]
              \/ x = [es EXCEPT ![i].hash = Torn] \/ x = [es EXCEPT ![i].ref = Torn]
              \/ x = [es EXCEPT ![i].content = IF @ = None THEN None ELSE Torn]
              \/ x = [es EXCEPT ![i].content = None]
    <2>1. PICK i \in 1 .. n :
              \/ x = [es EXCEPT ![i].position = @ + 1] \/ x = [es EXCEPT ![i].uri = None]
              \/ x = [es EXCEPT ![i].hash = Torn] \/ x = [es EXCEPT ![i].ref = Torn]
              \/ x = [es EXCEPT ![i].content = IF @ = None THEN None ELSE Torn]
              \/ x = [es EXCEPT ![i].content = None]
        BY <1>8
    <2>2. PICK e : e = es[i]
        OBVIOUS
    <2> HIDE DEF es, n
    <2>3. \E r : /\ \/ r = [e EXCEPT !.position = @ + 1] \/ r = [e EXCEPT !.uri = None]
                    \/ r = [e EXCEPT !.hash = Torn] \/ r = [e EXCEPT !.ref = Torn]
                    \/ r = [e EXCEPT !.content = IF @ = None THEN None ELSE Torn]
                    \/ r = [e EXCEPT !.content = None]
                 /\ x = [es EXCEPT ![i] = r]
        BY <2>1, <2>2
    <2>4. PICK r : /\ \/ r = [e EXCEPT !.position = @ + 1] \/ r = [e EXCEPT !.uri = None]
                      \/ r = [e EXCEPT !.hash = Torn] \/ r = [e EXCEPT !.ref = Torn]
                      \/ r = [e EXCEPT !.content = IF @ = None THEN None ELSE Torn]
                      \/ r = [e EXCEPT !.content = None]
                   /\ x = [es EXCEPT ![i] = r]
        BY <2>3
    <2>5. EntryRecord(e)
        BY <1>2, <2>2
    <2>6. r.content \in {e.content, None, Torn}
        BY <2>4, <2>5, EntryEdited
    <2>7. /\ x \in [1 .. n -> S \cup {r}] /\ x[i] = r
          /\ \A j \in 1 .. n : j # i => x[j] = es[j]
        BY <1>1, <2>4
    <2>8. x \in Seq(S \cup {r}) /\ es \in Seq(S \cup {r}) /\ DOMAIN x = 1 .. n
        <3>1. es \in [1 .. n -> S \cup {r}]
            BY <1>1
        <3> QED
            BY <1>1, <2>7, <3>1, SeqDef
    <2>9. \A j \in 1 .. n : x[j].content \in {es[j].content, None, Torn}
        BY <2>2, <2>6, <2>7
    <2> QED
        BY <1>1, <2>8, <2>9 DEF es
<1> QED
    BY <1>4, <1>6, <1>7, <1>8

(***************************************************************************)
(* What verify accepts                                                     *)
(***************************************************************************)

LEMMA OriginalHas ==
    ASSUME EvidenceIInv, export.pc \in {"written", "edited"}
    PROVE  /\ original = Statement(original.entries, original.resources, original.replay)
           /\ DOMAIN original.entries = DOMAIN manifest.entries
           /\ Len(original.entries) = Len(manifest.entries)
           /\ \E S : original.entries \in Seq(S) /\ \A e \in S : EntryRecord(e)
           /\ InOrder(original.entries)
           /\ \A i \in DOMAIN original.entries :
                 /\ original.entries[i].hash = manifest.entries[i].hash
                 /\ original.entries[i].hash \in Contents
<1> DEFINE es == original.entries
           me == manifest.entries
           n == Len(me)
<1>1. /\ original = Statement(original.entries, original.resources, original.replay)
      /\ EntriesAreExported(original)
    BY DEF EvidenceIInv, OriginalIs
<1>2. /\ DOMAIN me = 1 .. n /\ n \in Nat
      /\ \A i \in DOMAIN me : me[i].position = i - 1 /\ me[i].hash \in Contents
    BY ManifestHas DEF EvidenceIInv
<1>3. es = [i \in DOMAIN me |->
              [position |-> me[i].position, uri |-> me[i].uri,
               ref |-> me[i].ref, snapshot |-> me[i].snapshot,
               materialization |-> me[i].materialization, hash |-> me[i].hash,
               provenance |-> es[i].provenance, content |-> es[i].content]]
    BY <1>1 DEF EntriesAreExported
<1> HIDE DEF es, me, n
<1>4. DOMAIN es = 1 .. n
    BY <1>2, <1>3
<1>5. ASSUME NEW i \in 1 .. n
      PROVE  EntryRecord(es[i]) /\ es[i].position = i - 1 /\ es[i].hash = me[i].hash
    <2>1. PICK p, c : p = es[i].provenance /\ c = es[i].content
        OBVIOUS
    <2>2. es[i] = [position |-> me[i].position, uri |-> me[i].uri,
                   ref |-> me[i].ref, snapshot |-> me[i].snapshot,
                   materialization |-> me[i].materialization, hash |-> me[i].hash,
                   provenance |-> p, content |-> c]
        BY <1>2, <1>3, <2>1
    <2> QED
        BY <1>2, <2>2 DEF EntryRecord
<1> DEFINE S == {es[i] : i \in 1 .. n}
<1>6. es \in [1 .. n -> S]
    <2>1. es = [i \in 1 .. n |-> es[i]]
        BY <1>2, <1>3
    <2> QED
        BY <2>1
<1>7. es \in Seq(S) /\ Len(es) = n /\ \A e \in S : EntryRecord(e)
    <2>1. \A e \in S : EntryRecord(e)
        BY <1>5
    <2> HIDE DEF S
    <2> QED
        BY <1>2, <1>6, <2>1, SeqDef
<1>8. InOrder(es)
    BY <1>4, <1>5 DEF InOrder
<1>9. \A i \in DOMAIN es : es[i].hash = me[i].hash /\ es[i].hash \in Contents
    BY <1>2, <1>4, <1>5
<1> HIDE DEF S
<1>10. (\E X : es \in Seq(X) /\ \A e \in X : EntryRecord(e)) /\ DOMAIN es = DOMAIN me
    BY <1>2, <1>4, <1>7
<1> QED
    BY <1>1, <1>7, <1>8, <1>9, <1>10 DEF es, me, n

LEMMA CommitmentsAre ==
    ASSUME NEW b, NEW o
    PROVE  Commitments(b) = Commitments(o) <=>
              Fields(b) = Fields(o) /\ Committed(b.entries) = Committed(o.entries)
    BY DEF Commitments, Fields

\* What the root commits to shows the order of the entries.
LEMMA CommittedInOrder ==
    ASSUME NEW a, NEW b, InOrder(a), Committed(b) = Committed(a)
    PROVE  /\ InOrder(b) /\ DOMAIN b = DOMAIN a
           /\ \A i \in DOMAIN a : /\ b[i].position = a[i].position /\ b[i].uri = a[i].uri
                                  /\ b[i].hash = a[i].hash
<1>1. /\ DOMAIN b = DOMAIN Committed(b) /\ DOMAIN a = DOMAIN Committed(a)
      /\ \A i \in DOMAIN a : Committed(a)[i] = <<a[i].position, a[i].uri, a[i].hash>>
      /\ \A i \in DOMAIN b : Committed(b)[i] = <<b[i].position, b[i].uri, b[i].hash>>
    BY DEF Committed
<1>2. DOMAIN b = DOMAIN a
    BY <1>1
<1>3. \A i \in DOMAIN a : /\ b[i].position = a[i].position /\ b[i].uri = a[i].uri
                          /\ b[i].hash = a[i].hash
    BY <1>1, <1>2
<1> QED
    BY <1>2, <1>3 DEF InOrder

Checked(b) == VerifyStatement(b) /\ VerifyMerkle(b) /\ VerifyEntryOrder(b)

\* Without the contents and the store, verify accepts exactly the commitments of the
\* export: an edit of the entries moves the root, or their order.
LEMMA CheckedAreCommitments ==
    ASSUME EvidenceIInv, export.pc \in {"written", "edited"},
           NEW b, b = original \/ b \in Edited(original)
    PROVE  Checked(b) <=> Commitments(b) = Commitments(original)
<1>1. PICK o : o = original
    OBVIOUS
<1> DEFINE es == o.entries
           root == MerkleRoot(es)
           id == manifest.id
<1>2. /\ o = Statement(o.entries, o.resources, o.replay) /\ InOrder(es)
      /\ \E S : es \in Seq(S) /\ \A e \in S : EntryRecord(e)
      /\ b = o \/ b \in Edited(o)
    BY <1>1, OriginalHas
<1>3. /\ o.type = "statement" /\ o.predicateType = "evidence"
      /\ o.subject = Subject(id, root) /\ o.manifest = id /\ o.root = root
    BY <1>2, StatementFields
<1>4. \/ Fields(b) = Fields(o) /\ b.entries \in EntriesEdited(o)
      \/ /\ b.entries = es
         /\ \/ Fields(b) = Fields(o)
            \/ Fields(b) = <<None, o.predicateType, o.subject, o.manifest, o.root>>
            \/ Fields(b) = <<o.type, None, o.subject, o.manifest, o.root>>
            \/ /\ Len(b.subject) # 1
               /\ Fields(b) = <<o.type, o.predicateType, b.subject, o.manifest, o.root>>
            \/ \E n, d : /\ n = None \/ d = None
                         /\ n \in {id, None} /\ d \in {root, None}
                         /\ Fields(b) = <<o.type, o.predicateType, Subject(n, d),
                                          o.manifest, o.root>>
            \/ Fields(b) = <<o.type, o.predicateType, o.subject, None, o.root>>
            \/ Fields(b) = <<o.type, o.predicateType, o.subject, o.manifest, None>>
    BY <1>2, EditsAre
<1> HIDE DEF root, id
<1>5. Checked(b) <=> /\ b.type = "statement" /\ b.predicateType = "evidence"
                     /\ Len(b.subject) = 1 /\ b.subject[1].name = b.manifest
                     /\ b.subject[1].digest = MerkleRoot(b.entries)
                     /\ b.root = MerkleRoot(b.entries) /\ InOrder(b.entries)
    BY DEF Checked, VerifyStatement, VerifyMerkle, VerifyEntryOrder, InOrder
<1>6. \A n, d : /\ Len(Subject(n, d)) = 1 /\ Subject(n, d)[1].name = n
                /\ Subject(n, d)[1].digest = d
    BY SubjectEdited
<1>7. Fields(b) = <<b.type, b.predicateType, b.subject, b.manifest, b.root>>
    BY DEF Fields
<1>8. Fields(o) = <<"statement", "evidence", Subject(id, root), id, root>>
    BY <1>3 DEF Fields
<1>9. Commitments(b) = Commitments(o) <=>
         Fields(b) = Fields(o) /\ Committed(b.entries) = Committed(es)
    BY CommitmentsAre
<1>10. CASE b.entries = es
    <2>1. MerkleRoot(b.entries) = root
        BY <1>10 DEF root
    <2>2. Checked(b) <=> /\ b.type = "statement" /\ b.predicateType = "evidence"
                         /\ Len(b.subject) = 1 /\ b.subject[1].name = b.manifest
                         /\ b.subject[1].digest = root /\ b.root = root
        BY <1>2, <1>5, <1>10, <2>1
    <2>3. Commitments(b) = Commitments(o) <=>
             /\ b.type = "statement" /\ b.predicateType = "evidence"
             /\ b.subject = Subject(id, root) /\ b.manifest = id /\ b.root = root
        BY <1>7, <1>8, <1>9, <1>10
    <2>4. CASE Fields(b) = Fields(o)
        BY <1>1, <1>6, <1>7, <1>8, <2>2, <2>3, <2>4
    <2>5. CASE \/ Fields(b) = <<None, o.predicateType, o.subject, o.manifest, o.root>>
               \/ Fields(b) = <<o.type, None, o.subject, o.manifest, o.root>>
        BY <1>1, <1>3, <1>6, <1>7, <2>2, <2>3, <2>5
    <2>6. CASE Len(b.subject) # 1
        BY <1>1, <1>6, <2>2, <2>3, <2>6
    <2>7. CASE \E n, d : Fields(b) = <<o.type, o.predicateType, Subject(n, d),
                                       o.manifest, o.root>>
        <3>1. PICK n, d : Fields(b) = <<o.type, o.predicateType, Subject(n, d),
                                        o.manifest, o.root>>
            BY <2>7
        <3>2. /\ b.type = "statement" /\ b.predicateType = "evidence"
              /\ b.subject = Subject(n, d) /\ b.manifest = id /\ b.root = root
            BY <1>3, <1>7, <3>1
        <3>3. Checked(b) <=> n = id /\ d = root
            BY <1>6, <2>2, <3>2
        <3>4. Subject(n, d) = Subject(id, root) <=> n = id /\ d = root
            BY <1>6
        <3> QED
            BY <1>1, <2>3, <3>2, <3>3, <3>4
    <2>8. CASE \/ Fields(b) = <<o.type, o.predicateType, o.subject, None, o.root>>
               \/ Fields(b) = <<o.type, o.predicateType, o.subject, o.manifest, None>>
        BY <1>1, <1>3, <1>6, <1>7, <2>2, <2>3, <2>8
    <2>9. \/ Fields(b) = Fields(o)
          \/ Fields(b) = <<None, o.predicateType, o.subject, o.manifest, o.root>>
          \/ Fields(b) = <<o.type, None, o.subject, o.manifest, o.root>>
          \/ Len(b.subject) # 1
          \/ \E n, d : Fields(b) = <<o.type, o.predicateType, Subject(n, d),
                                     o.manifest, o.root>>
          \/ Fields(b) = <<o.type, o.predicateType, o.subject, None, o.root>>
          \/ Fields(b) = <<o.type, o.predicateType, o.subject, o.manifest, None>>
        BY <1>4
    <2> QED
        BY <1>1, <2>4, <2>5, <2>6, <2>7, <2>8, <2>9
<1>11. CASE Fields(b) = Fields(o) /\ b.entries \in EntriesEdited(o)
    <2>1. PICK x : x = b.entries
        OBVIOUS
    <2>2. PICK y : y = es
        OBVIOUS
    <2>3. PICK E : x \in Seq(E) /\ y \in Seq(E)
        BY <1>2, <1>11, <2>1, <2>2, EditedEntries
    <2>4. InOrder(y)
        BY <1>2, <2>2
    <2>5. InOrder(x) => (MerkleRoot(x) = MerkleRoot(y) <=> Committed(x) = Committed(y))
        BY <2>3, <2>4, RootsBind DEF RootBinds
    <2>6. Committed(x) = Committed(y) => InOrder(x)
        BY <2>4, CommittedInOrder
    <2>7. Checked(b) <=> MerkleRoot(x) = MerkleRoot(y) /\ InOrder(x)
        <3>1. /\ b.type = "statement" /\ b.predicateType = "evidence"
              /\ b.subject = Subject(id, root) /\ b.manifest = id /\ b.root = root
            BY <1>7, <1>8, <1>11
        <3>2. MerkleRoot(b.entries) = MerkleRoot(x) /\ root = MerkleRoot(y)
            BY <2>1, <2>2 DEF root
        <3>3. InOrder(b.entries) <=> InOrder(x)
            BY <2>1
        <3> QED
            BY <1>5, <1>6, <3>1, <3>2, <3>3
    <2>8. Commitments(b) = Commitments(o) <=> Committed(x) = Committed(y)
        BY <1>9, <1>11, <2>1, <2>2
    <2> QED
        BY <1>1, <2>5, <2>6, <2>7, <2>8
<1> QED
    BY <1>4, <1>10, <1>11

\* Of entries that commit to the same reads, the embedded contents that verify looks at
\* are right exactly when they are the export's, and were right then.
LEMMA ContentsAreChecked ==
    ASSUME EvidenceIInv, export.pc \in {"written", "edited"},
           NEW b, b = original \/ b \in Edited(original),
           Commitments(b) = Commitments(original)
    PROVE  VerifyEmbeddedContent(b) <=>
              \A i \in DOMAIN b.entries :
                 Embedded(b, i) =>
                    /\ b.entries[i].content = original.entries[i].content
                    /\ original.replay.entries[i].match
                    /\ ~(export.by = "ts" /\ b.entries[i].hash \in Binary)
<1>1. PICK o : o = original
    OBVIOUS
<1>2. /\ o = Statement(o.entries, o.resources, o.replay) /\ InOrder(o.entries)
      /\ \E S : o.entries \in Seq(S) /\ \A e \in S : EntryRecord(e)
      /\ \A i \in DOMAIN o.entries : o.entries[i].hash \in Contents
      /\ b = o \/ b \in Edited(o)
    BY <1>1, OriginalHas
<1>3. Committed(b.entries) = Committed(o.entries)
    BY <1>1, CommitmentsAre
<1>4. /\ DOMAIN b.entries = DOMAIN o.entries
      /\ \A i \in DOMAIN o.entries : b.entries[i].hash = o.entries[i].hash
    BY <1>2, <1>3, CommittedInOrder
<1>5. \A i \in DOMAIN o.entries :
         b.entries[i].content \in {o.entries[i].content, None, Torn}
    <2>1. b.entries = o.entries \/ b.entries \in EntriesEdited(o)
        BY <1>2, EditsAre
    <2>2. CASE b.entries \in EntriesEdited(o)
        BY <1>2, <1>3, <1>4, <2>2, EditedEntries
    <2> QED
        BY <2>1, <2>2
<1>6. \A i \in DOMAIN o.entries :
         Embedded(o, i) =>
            (o.entries[i].content = o.entries[i].hash <=>
                /\ o.replay.entries[i].match
                /\ ~(export.by = "ts" /\ o.entries[i].hash \in Binary))
    BY <1>1 DEF EvidenceIInv, OriginalIs, EntriesAreExported
<1>7. ASSUME NEW i \in DOMAIN o.entries
      PROVE  b.entries[i].content \in {None, Empty, b.entries[i].hash} <=>
                (Embedded(b, i) =>
                    /\ b.entries[i].content = o.entries[i].content
                    /\ o.replay.entries[i].match
                    /\ ~(export.by = "ts" /\ b.entries[i].hash \in Binary))
    <2>1. PICK G \in BOOLEAN :
             G = (o.replay.entries[i].match
                     /\ ~(export.by = "ts" /\ o.entries[i].hash \in Binary))
        OBVIOUS
    <2>2. PICK h, c, d : /\ h = o.entries[i].hash /\ c = b.entries[i].content
                         /\ d = o.entries[i].content
        OBVIOUS
    <2>3. h \in Contents /\ c \in {d, None, Torn} /\ b.entries[i].hash = h
        BY <1>2, <1>4, <1>5, <2>2
    <2>4. d \notin {None, Empty} => (d = h <=> G)
        BY <1>6, <2>1, <2>2 DEF Embedded
    <2>5. Torn # h
        BY <2>3, ContentsAreTyped
    <2>6. c \in {None, Empty, h} <=> (c \notin {None, Empty} => c = d /\ G)
        BY <2>3, <2>4, <2>5
    <2>7. Embedded(b, i) <=> c \notin {None, Empty}
        BY <2>2 DEF Embedded
    <2> QED
        BY <2>1, <2>2, <2>3, <2>6, <2>7
<1>8. VerifyEmbeddedContent(b) <=>
         \A i \in DOMAIN b.entries :
            b.entries[i].content \in {None, Empty, b.entries[i].hash}
    BY DEF VerifyEmbeddedContent
<1> QED
    BY <1>1, <1>4, <1>7, <1>8

\* Replaying the manifest again finds the hashes that the file commits to exactly when
\* every byte that it recorded is in the store.
LEMMA StoreIsChecked ==
    ASSUME EvidenceIInv, export.pc \in {"written", "edited"}, ~IsFunctionValue(Failed),
           NEW b, b = original \/ b \in Edited(original),
           Commitments(b) = Commitments(original)
    PROVE  VerifyAgainstStore(b) <=> StoreHolds(manifest.entries)
<1> DEFINE es == manifest.entries
           R == Replay(store, es)
<1>1. PICK o : o = original
    OBVIOUS
<1>2. /\ o = Statement(o.entries, o.resources, o.replay) /\ InOrder(o.entries)
      /\ DOMAIN o.entries = DOMAIN es
      /\ \E S : o.entries \in Seq(S) /\ \A e \in S : EntryRecord(e)
      /\ \A i \in DOMAIN o.entries : o.entries[i].hash = es[i].hash
      /\ b = o \/ b \in Edited(o)
    BY <1>1, OriginalHas
<1>3. /\ Fields(b) = Fields(o) /\ Committed(b.entries) = Committed(o.entries)
    BY <1>1, CommitmentsAre
<1>4. /\ DOMAIN b.entries = DOMAIN es /\ InOrder(b.entries)
      /\ \A i \in DOMAIN es : b.entries[i].hash = es[i].hash
    BY <1>2, <1>3, CommittedInOrder
<1>5. /\ DOMAIN es = 1 .. Len(es) /\ Len(es) \in Nat
      /\ \A i \in DOMAIN es :
            /\ es[i].position = i - 1 /\ es[i].hash \in Contents
            /\ \E e \in Entries : /\ es[i].materialization = e.materialization
                                  /\ es[i].hash = e.hash
    BY ManifestHas DEF EvidenceIInv
<1>6. \A i \in DOMAIN es : store.mats[es[i].materialization] \in {None, es[i].hash}
    BY <1>5 DEF EvidenceIInv, StoreIs
<1>7. \A i \in DOMAIN es : b.entries[i].position = i - 1
    BY <1>4 DEF InOrder
<1>8. Len(b.entries) = Len(es)
    <2>1. b.entries = o.entries \/ b.entries \in EntriesEdited(o)
        BY <1>2, EditsAre
    <2>2. \E E : b.entries \in Seq(E)
        BY <1>2, <2>1, EditedEntries
    <2>3. PICK x : x = b.entries
        OBVIOUS
    <2>4. PICK E : x \in Seq(E)
        BY <2>2, <2>3
    <2>5. DOMAIN x = 1 .. Len(x) /\ Len(x) \in Nat
        BY <2>4
    <2>6. PICK k : k = Len(es)
        OBVIOUS
    <2>7. DOMAIN x = 1 .. k /\ k \in Nat
        BY <1>4, <1>5, <2>3, <2>6
    <2>8. PICK l : l = Len(x)
        OBVIOUS
    <2>9. l \in Nat /\ 1 .. l = 1 .. k
        BY <2>5, <2>7, <2>8
    <2>10. l = k
        <3> HIDE DEF es, R
        <3>1. \A i \in Nat : i \in 1 .. l <=> i \in 1 .. k
            BY <2>9
        <3>2. \A i \in Nat : 1 <= i => (i <= l <=> i <= k)
            BY <3>1, <2>7, <2>9
        <3> QED
            BY <3>2, <2>7, <2>9
    <2> QED
        BY <2>3, <2>6, <2>8, <2>10
<1>9. (IF b.manifest # None THEN b.manifest ELSE b.run) \in {manifest.id, manifest.run}
    <2>1. b.manifest = o.manifest
        BY <1>3 DEF Fields
    <2>2. o.manifest = manifest.id /\ o.run = manifest.run
        BY <1>2, StatementFields
    <2>3. b.run \in {o.run, None}
        BY <1>2, EditsAre
    <2> QED
        BY <2>1, <2>2, <2>3
<1>10. VerifyAgainstStore(b) <=>
          /\ R # Failed /\ Len(R) = Len(b.entries)
          /\ \A i \in DOMAIN b.entries :
                \E j \in DOMAIN R : /\ R[j].position = b.entries[i].position
                                    /\ R[j].replayed = b.entries[i].hash
    BY <1>9 DEF VerifyAgainstStore
<1>11. R # Failed <=> \A i \in DOMAIN es : ReplayedContent(store, es[i]) # None
    <2>1. IsFunctionValue([i \in DOMAIN es |-> ReplayEntry(store, es[i])])
        BY DEF IsFunctionValue
    <2>2. [i \in DOMAIN es |-> ReplayEntry(store, es[i])] # Failed
        BY <2>1
    <2> QED
        BY <2>2 DEF Replay
<1>12. ASSUME R # Failed
       PROVE  /\ DOMAIN R = DOMAIN es /\ Len(R) = Len(es)
              /\ \A i \in DOMAIN es : /\ R[i].position = i - 1
                                      /\ R[i].replayed = ReplayedContent(store, es[i])
    <2>1. R = [i \in DOMAIN es |-> ReplayEntry(store, es[i])]
        BY <1>12 DEF Replay
    <2>2. Len(R) = Len(es) /\ DOMAIN R = DOMAIN es
        BY <1>12, ReplayIsReplay, ReplayHas DEF EvidenceIInv
    <2> QED
        BY <1>5, <2>1, <2>2 DEF ReplayEntry
<1>13. VerifyAgainstStore(b) <=>
          \A i \in DOMAIN es : ReplayedContent(store, es[i]) = es[i].hash
    <2> HIDE DEF es, R
    <2>1. ASSUME VerifyAgainstStore(b), NEW i \in DOMAIN es
          PROVE  ReplayedContent(store, es[i]) = es[i].hash
        <3>1. PICK j \in DOMAIN R : /\ R[j].position = b.entries[i].position
                                    /\ R[j].replayed = b.entries[i].hash
            BY <1>4, <1>10, <2>1
        <3>2. j \in DOMAIN es /\ j - 1 = i - 1
            BY <1>7, <1>10, <1>12, <2>1, <3>1
        <3>3. j = i
            BY <1>5, <3>2
        <3> QED
            BY <1>4, <1>10, <1>12, <2>1, <3>1, <3>3
    <2>2. ASSUME \A i \in DOMAIN es : ReplayedContent(store, es[i]) = es[i].hash
          PROVE  VerifyAgainstStore(b)
        <3>1. R # Failed
            BY <1>5, <1>11, <2>2, ContentsAreTyped
        <3>2. \A i \in DOMAIN b.entries :
                 /\ i \in DOMAIN R /\ R[i].position = b.entries[i].position
                 /\ R[i].replayed = b.entries[i].hash
            BY <1>4, <1>7, <1>12, <2>2, <3>1
        <3> QED
            BY <1>8, <1>10, <1>12, <3>1, <3>2
    <2> QED
        BY <2>1, <2>2
<1>14. ASSUME NEW i \in DOMAIN es
       PROVE  ReplayedContent(store, es[i]) = es[i].hash <=>
                 /\ store.mats[es[i].materialization] = es[i].hash
                 /\ store.blobs[es[i].hash] = es[i].hash
    <2>1. es[i].hash # None
        BY <1>5, ContentsAreTyped
    <2>2. store.mats[es[i].materialization] \in {None, es[i].hash}
        BY <1>6
    <2> HIDE DEF es
    <2> QED
        BY <2>1, <2>2 DEF ReplayedContent
<1> QED
    BY <1>13, <1>14 DEF StoreHolds

\* Verify accepts a file exactly when what it commits to is what was exported, the bytes
\* embedded in it are, and the store, unless it is offline, still holds the manifest
\* byte for byte: for manifests of any length, whatever was lost or torn before the
\* export, between its calls or after it (verify.go).
THEOREM VerifyAcceptsExactly ==
    ASSUME ~IsFunctionValue(Failed)
    PROVE  EvidenceSpec => []VerifyIsExact
<1>1. EvidenceIInv => VerifyIsExact
    <2> SUFFICES ASSUME EvidenceIInv, report # NoFile
                 PROVE  report.ok <=>
                           /\ Commitments(bundle) = Commitments(original)
                           /\ \A i \in DOMAIN bundle.entries :
                                 Embedded(bundle, i) =>
                                    /\ bundle.entries[i].content = original.entries[i].content
                                    /\ original.replay.entries[i].match
                                    /\ ~(export.by = "ts" /\ bundle.entries[i].hash \in Binary)
                           /\ report.online => StoreHolds(manifest.entries)
        BY DEF VerifyIsExact
    <2>1. PICK online \in BOOLEAN : report = Verify(bundle, online)
        BY DEF EvidenceIInv, ReportIs
    <2>2. export.pc \in {"written", "edited"}
        BY DEF EvidenceIInv, ReportIs
    <2>3. PICK b : b = bundle
        OBVIOUS
    <2>4. b = original \/ b \in Edited(original)
        BY <2>2, <2>3 DEF EvidenceIInv, BundleIs
    <2>5. /\ report.online = online
          /\ report.ok <=> /\ Checked(b) /\ VerifyEmbeddedContent(b)
                           /\ online => VerifyAgainstStore(b)
        <3>1. report.ok = (/\ VerifyStatement(b) /\ VerifyMerkle(b) /\ VerifyEntryOrder(b)
                           /\ VerifyEmbeddedContent(b) /\ (online => VerifyAgainstStore(b)))
            BY <2>1, <2>3 DEF Verify
        <3>2. report.online = online
            BY <2>1 DEF Verify
        <3> QED
            BY <3>1, <3>2 DEF Checked
    <2>6. Checked(b) <=> Commitments(b) = Commitments(original)
        BY <2>2, <2>4, CheckedAreCommitments
    <2>7. Commitments(b) = Commitments(original) =>
             (VerifyEmbeddedContent(b) <=>
                 \A i \in DOMAIN b.entries :
                    Embedded(b, i) =>
                       /\ b.entries[i].content = original.entries[i].content
                       /\ original.replay.entries[i].match
                       /\ ~(export.by = "ts" /\ b.entries[i].hash \in Binary))
        BY <2>2, <2>4, ContentsAreChecked
    <2>8. Commitments(b) = Commitments(original) =>
             (VerifyAgainstStore(b) <=> StoreHolds(manifest.entries))
        BY <2>2, <2>4, StoreIsChecked
    <2> QED
        BY <2>3, <2>5, <2>6, <2>7, <2>8
<1> QED
    BY <1>1, EvidenceInvariance, PTL
=============================================================================
