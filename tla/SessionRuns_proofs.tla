------------------------ MODULE SessionRuns_proofs ------------------------
(***************************************************************************)
(* Proofs about SessionRuns: its inductive invariant, and the safety       *)
(* properties that follow from it, of every number of sessions and calls.  *)
(***************************************************************************)
EXTENDS SessionRuns, SequenceTheorems, FiniteSetTheorems, TLAPS

(* Calls, and what is known of their fields *)

LEMMA CallIs ==
    ASSUME Typed, NEW c \in Calls, calls[c].kind # "none"
    PROVE  /\ calls[c] \in CallRecords /\ calls[c] # Unused
           /\ calls[c].kind \in AllKinds /\ calls[c].pc \in Pcs
           /\ calls[c].session \in Sessions \cup {None}
           /\ calls[c].target \in RunIds \cup {None} /\ calls[c].run \in RunIds \cup {None}
           /\ calls[c].after \in Calls \cup {None} /\ calls[c].before \in SUBSET Calls
           /\ calls[c].epoch \in Nat /\ calls[c].left \in Nat /\ calls[c].told \in Nat
<1>1. calls[c] \in CallRecords /\ calls[c] # Unused
    BY DEF Typed, Unused
<1> QED
    BY <1>1 DEF CallRecords

LEMMA UsedIs ==
    ASSUME Typed, NEW c \in Calls
    PROVE  /\ calls[c] # Unused <=> calls[c].kind # "none"
           /\ calls[c] # Unused <=> calls[c].pc # "unused"
           /\ calls[c] = Unused => calls[c].kind = "none" /\ calls[c].pc = "unused"
<1>1. CASE calls[c] = Unused
    BY <1>1 DEF Unused
<1>2. CASE calls[c] # Unused
    <2>1. calls[c] \in CallRecords
        BY <1>2 DEF Typed
    <2> QED
        BY <1>2, <2>1 DEF CallRecords, AllKinds, Pcs
<1> QED
    BY <1>1, <1>2

\* A step of call c makes it q, which has the same kind, session and place in the
\* chain.
Advances(c, q) ==
    /\ calls[c].kind # "none" /\ calls[c].pc # "done"
    /\ q \in CallRecords /\ IsPlaced(q) /\ q.pc # "queued"
    /\ q.kind = calls[c].kind /\ q.session = calls[c].session
    /\ q.target = calls[c].target /\ q.after = calls[c].after /\ q.before = calls[c].before
    /\ calls' = [calls EXCEPT ![c] = q]

LEMMA AdvancesIs ==
    ASSUME Typed, Placed, NEW c \in Calls, NEW q, Advances(c, q)
    PROVE  /\ calls' \in [Calls -> {Unused} \cup CallRecords] /\ Placed'
           /\ calls'[c] = q /\ \A d \in Calls : d # c => calls'[d] = calls[d]
           /\ \A d \in Calls : /\ calls'[d].kind = calls[d].kind
                               /\ calls[d].kind # "none" =>
                                     /\ calls'[d].session = calls[d].session
                                     /\ calls'[d].target = calls[d].target
                                     /\ calls'[d].before = calls[d].before
           /\ \A s : Forgotten(s) => Forgotten(s)'
<1>1. calls \in [Calls -> {Unused} \cup CallRecords]
    BY DEF Typed
<1>2. /\ calls' \in [Calls -> {Unused} \cup CallRecords]
      /\ calls'[c] = q /\ \A d \in Calls : d # c => calls'[d] = calls[d]
    BY <1>1 DEF Advances
<1>3. Placed'
    BY <1>2 DEF Placed, Advances
<1>4. \A s : Forgotten(s) => Forgotten(s)'
    BY <1>2 DEF Forgotten, Advances
<1> QED
    BY <1>2, <1>3, <1>4 DEF Advances

-----------------------------------------------------------------------------
(* The chain of a session *)

\* Of a session that was not forgotten, one call at most has begun; the call that
\* may begin is the first of the chain.
LEMMA FirstOfChain ==
    ASSUME Typed, Chained, NEW s \in Sessions, ~Forgotten(s),
           NEW line \in Seq(Calls), IsChain(line, s),
           NEW c \in Calls, Of(c, s), Begins(c) \/ HasBegun(c)
    PROVE  line # <<>> /\ c = line[1] /\ Waits(c)
<1>1. Waits(c)
    BY DEF Begins, Waits, HasBegun
<1>2. PICK i \in DOMAIN line : line[i] = c
    BY <1>1 DEF IsChain
<1>3. ASSUME i # 1 PROVE FALSE
    <2>1. calls[c].pc = "queued" /\ calls[c].after = line[i - 1]
        BY <1>2, <1>3 DEF IsChain
    <2>2. i - 1 \in DOMAIN line /\ line[i - 1] \in Calls
        BY <1>2, <1>3
    <2>3. Waits(line[i - 1]) /\ calls[c].after # None
        BY <2>1, <2>2, NoneIsNothing DEF IsChain
    <2> QED
        BY <2>1, <2>3 DEF Begins, HasBegun, Settled, Waits
<1> QED
    BY <1>1, <1>2, <1>3

LEMMA OneAtATime ==
    ASSUME Typed, Chained, NEW s \in Sessions, ~Forgotten(s),
           NEW c \in Calls, Of(c, s), Begins(c) \/ HasBegun(c),
           NEW d \in Calls, Of(d, s), HasBegun(d)
    PROVE  d = c
<1>1. PICK line \in Seq(Calls) : IsChain(line, s)
    BY DEF Chained
<1> QED
    BY <1>1, FirstOfChain

\* What came before a disposal is settled when the disposal begins.
LEMMA BeforeIsSettled ==
    ASSUME Typed, Chained, NEW s \in Sessions, ~Forgotten(s),
           NEW e \in Calls, Of(e, s), Begins(e), calls[e].kind = "end",
           NEW c \in calls[e].before, c \in Calls, Of(c, s)
    PROVE  ~Waits(c)
<1> SUFFICES ASSUME Waits(c) PROVE FALSE
    OBVIOUS
<1>1. PICK line \in Seq(Calls) : IsChain(line, s)
    BY DEF Chained
<1>2. line # <<>> /\ e = line[1]
    BY <1>1, FirstOfChain
<1>3. PICK i \in DOMAIN line : line[i] = c
    BY <1>1 DEF IsChain
<1>4. 1 \in DOMAIN line /\ 1 <= i
    BY <1>2, <1>3
<1> QED
    BY <1>1, <1>2, <1>3, <1>4 DEF IsChain

LEMMA ChainStays ==
    ASSUME Chained, calls' = calls, tail' = tail
    PROVE  Chained'
<1> SUFFICES ASSUME NEW s \in Sessions, ~Forgotten(s)'
             PROVE  \E line \in Seq(Calls) : IsChain(line, s)'
    BY DEF Chained
<1>1. PICK line \in Seq(Calls) : IsChain(line, s)
    BY DEF Chained, Forgotten
<1>2. \A c \in Calls : Of(c, s)' /\ Waits(c)' <=> Of(c, s) /\ Waits(c)
    BY DEF Of, Waits, HasBegun
<1>3. Settled(tail[s])' <=> Settled(tail[s])
    BY DEF Settled
<1>4. IsChain(line, s)'
    BY <1>1, <1>2, <1>3 DEF IsChain
<1> QED
    BY <1>4

\* A call that arrives is the last of its session's chain.
LEMMA ChainGrows ==
    ASSUME Typed, Refers, Chained, NEW s \in Sessions,
           NEW c \in Calls, calls[c] = Unused, NEW q \in CallRecords,
           q.session = s, q.pc = "queued", q.after = tail[s], c \notin q.before,
           calls' = [calls EXCEPT ![c] = q], tail' = [tail EXCEPT ![s] = c]
    PROVE  Chained'
<1>0. /\ calls \in [Calls -> {Unused} \cup CallRecords] /\ tail \in [Sessions -> {None} \cup Calls]
      /\ calls[c].kind = "none" /\ calls[c].pc = "unused" /\ q.kind # "none"
    BY DEF Typed, Unused, CallRecords, AllKinds
<1>1. /\ calls'[c] = q /\ \A d \in Calls : d # c => calls'[d] = calls[d]
      /\ tail'[s] = c /\ \A t \in Sessions : t # s => tail'[t] = tail[t]
    BY <1>0
<1>2. \A d \in Calls : /\ d # c => (Waits(d)' <=> Waits(d)) /\ (Settled(d)' <=> Settled(d))
                       /\ ~Waits(c) /\ ~Settled(c) /\ Waits(c)'
    BY <1>0, <1>1 DEF Waits, HasBegun, Settled
<1>3. SUFFICES ASSUME NEW t \in Sessions, ~Forgotten(t)'
               PROVE  \E line \in Seq(Calls) : IsChain(line, t)'
    BY DEF Chained
<1>4. ~Forgotten(t)
    BY <1>0, <1>1, <1>3 DEF Forgotten
<1>5. PICK line \in Seq(Calls) : IsChain(line, t)
    BY <1>4 DEF Chained
<1>6. \A i \in DOMAIN line : line[i] \in Calls /\ line[i] # c
    BY <1>2, <1>5 DEF IsChain
<1>7. CASE t # s
    <2>1. \A d \in Calls : Of(d, t)' /\ Waits(d)' <=> Of(d, t) /\ Waits(d)
        BY <1>0, <1>1, <1>2, <1>7 DEF Of
    <2>2. tail'[t] = tail[t] /\ tail[t] \in {None} \cup Calls
        BY <1>0, <1>1, <1>7
    <2>3. IsChain(line, t)'
        <3>1. IF line = <<>> THEN tail'[t] = None \/ Settled(tail[t])' ELSE tail'[t] = line[Len(line)]
            BY <1>2, <1>5, <2>2, NoneIsNothing DEF IsChain
        <3>2. \A i \in DOMAIN line : i # 1 =>
                 calls'[line[i]].pc = "queued" /\ calls'[line[i]].after = line[i - 1]
            BY <1>1, <1>5, <1>6 DEF IsChain
        <3>3. \A i, j \in DOMAIN line : calls'[line[j]].kind = "end" /\ j <= i =>
                 line[i] \notin calls'[line[j]].before
            BY <1>1, <1>5, <1>6 DEF IsChain
        <3> QED
            BY <1>5, <2>1, <3>1, <3>2, <3>3 DEF IsChain
    <2> QED
        BY <2>3
<1>8. CASE t = s
    <2> DEFINE n == Len(line)
               longer == Append(line, c)
    <2>1. /\ longer \in Seq(Calls) /\ n \in Nat /\ Len(longer) = n + 1
          /\ DOMAIN longer = 1 .. n + 1 /\ DOMAIN line = 1 .. n
          /\ longer[n + 1] = c /\ \A i \in 1 .. n : longer[i] = line[i]
        OBVIOUS
    <2> HIDE DEF longer
    <2>2. \A i, j \in DOMAIN longer : longer[i] = longer[j] => i = j
        BY <1>5, <1>6, <2>1 DEF IsChain
    <2>3. \A d \in Calls : (\E i \in DOMAIN longer : longer[i] = d) <=> (Of(d, s) /\ Waits(d))'
        <3> SUFFICES ASSUME NEW d \in Calls
                     PROVE  (\E i \in DOMAIN longer : longer[i] = d) <=> (Of(d, s) /\ Waits(d))'
            OBVIOUS
        <3>1. CASE d = c
            BY <1>0, <1>1, <1>2, <2>1, <3>1 DEF Of
        <3>2. CASE d # c
            <4>1. (Of(d, s) /\ Waits(d))' <=> Of(d, s) /\ Waits(d)
                BY <1>1, <1>2, <3>2 DEF Of
            <4>2. (\E i \in DOMAIN longer : longer[i] = d) <=> \E i \in DOMAIN line : line[i] = d
                BY <2>1, <3>2
            <4> QED
                BY <1>5, <1>8, <4>1, <4>2 DEF IsChain
        <3> QED
            BY <3>1, <3>2
    <2>4. \A i \in DOMAIN longer : i # 1 =>
             calls'[longer[i]].pc = "queued" /\ calls'[longer[i]].after = longer[i - 1]
        <3> SUFFICES ASSUME NEW i \in 1 .. n + 1, i # 1
                     PROVE  /\ calls'[longer[i]].pc = "queued"
                            /\ calls'[longer[i]].after = longer[i - 1]
            BY <2>1
        <3>1. CASE i = n + 1
            <4>1. line # <<>> /\ i - 1 = n /\ n \in 1 .. n
                BY <2>1, <3>1
            <4>2. tail[s] = line[n]
                BY <1>5, <1>8, <4>1 DEF IsChain
            <4> QED
                BY <1>1, <2>1, <3>1, <4>1, <4>2
        <3>2. CASE i \in 1 .. n
            <4>1. i - 1 \in 1 .. n /\ longer[i] = line[i] /\ longer[i - 1] = line[i - 1]
                BY <2>1, <3>2
            <4>2. calls[line[i]].pc = "queued" /\ calls[line[i]].after = line[i - 1]
                BY <1>5, <2>1, <3>2 DEF IsChain
            <4> QED
                BY <1>1, <1>6, <2>1, <3>2, <4>1, <4>2
        <3> QED
            BY <2>1, <3>1, <3>2
    <2>5. longer # <<>> /\ tail'[s] = longer[Len(longer)]
        BY <1>1, <2>1
    <2>6. \A i, j \in DOMAIN longer : calls'[longer[j]].kind = "end" /\ j <= i =>
             longer[i] \notin calls'[longer[j]].before
        <3> SUFFICES ASSUME NEW i \in 1 .. n + 1, NEW j \in 1 .. n + 1, j <= i,
                            calls'[longer[j]].kind = "end"
                     PROVE  longer[i] \notin calls'[longer[j]].before
            BY <2>1
        <3>1. CASE i = n + 1 /\ j = n + 1
            BY <1>1, <2>1, <3>1
        <3>2. CASE i = n + 1 /\ j \in 1 .. n
            <4>1. longer[i] = c /\ calls'[longer[j]] = calls[line[j]] /\ line[j] \in Calls
                BY <1>1, <1>6, <2>1, <3>2
            <4>2. calls[line[j]] # Unused
                BY <4>1 DEF Unused
            <4> QED
                BY <1>0, <4>1, <4>2 DEF Refers
        <3>3. CASE i \in 1 .. n /\ j \in 1 .. n
            BY <1>1, <1>5, <1>6, <2>1, <3>3 DEF IsChain
        <3> QED
            BY <2>1, <3>1, <3>2, <3>3
    <2>7. IsChain(longer, s)'
        BY <2>2, <2>3, <2>4, <2>5, <2>6 DEF IsChain
    <2> QED
        BY <1>8, <2>1, <2>7
<1> QED
    BY <1>7, <1>8

\* A call that goes on leaves its session's chain as it is, or as its first.
LEMMA ChainMoves ==
    ASSUME Typed, Placed, Chained, NEW c \in Calls, NEW q, Advances(c, q),
           Waits(c) => Begins(c) \/ HasBegun(c),
           ~Waits(c) => q.pc \in {"direct", "get", "done"},
           \A s \in Sessions : ~Forgotten(s)' => tail'[s] = tail[s]
    PROVE  Chained'
<1> USE AdvancesIs
<1>0. /\ tail \in [Sessions -> {None} \cup Calls] /\ q.pc \in Pcs
      /\ calls[c].kind # "none" /\ calls[c].pc \in Pcs
    BY CallIs DEF Typed, Advances, CallRecords
<1>1. /\ calls'[c] = q /\ \A d \in Calls : d # c => calls'[d] = calls[d]
      /\ q.kind = calls[c].kind /\ q.session = calls[c].session /\ q.before = calls[c].before
      /\ q.pc # "queued"
    BY DEF Advances
<1>2. \A d \in Calls : d # c => (Waits(d)' <=> Waits(d)) /\ (Settled(d)' <=> Settled(d))
    BY <1>1 DEF Waits, HasBegun, Settled
<1>3. /\ Waits(c) <=> ~Settled(c)
      /\ Waits(c)' <=> ~Settled(c)'
      /\ ~Waits(c) => Settled(c)'
    BY <1>0, <1>1 DEF Waits, HasBegun, Settled, Pcs
<1>4. SUFFICES ASSUME NEW s \in Sessions, ~Forgotten(s)'
               PROVE  \E line \in Seq(Calls) : IsChain(line, s)'
    BY DEF Chained
<1>5. ~Forgotten(s) /\ tail'[s] = tail[s] /\ tail[s] \in {None} \cup Calls
    BY <1>0, <1>4
<1>6. PICK line \in Seq(Calls) : IsChain(line, s)
    BY <1>5 DEF Chained
<1>7. \A d \in Calls : Of(d, s)' <=> Of(d, s)
    BY <1>1 DEF Of
<1>8. \A i \in DOMAIN line : /\ line[i] \in Calls
                             /\ i # 1 => i - 1 \in DOMAIN line
    OBVIOUS
<1> HIDE AdvancesIs
<1>9. \A i, j \in DOMAIN line : calls'[line[j]].kind = "end" /\ j <= i =>
         line[i] \notin calls'[line[j]].before
    BY <1>1, <1>6, <1>8 DEF IsChain
<1>10. CASE ~(Of(c, s) /\ Waits(c)) \/ Waits(c)'
    <2>1. \A d \in Calls : (Of(d, s) /\ Waits(d))' <=> Of(d, s) /\ Waits(d)
        BY <1>2, <1>3, <1>7, <1>10
    <2>2. \A i \in DOMAIN line : i # 1 => line[i] # c
        <3> SUFFICES ASSUME NEW i \in DOMAIN line, i # 1, line[i] = c PROVE FALSE
            OBVIOUS
        <3>1. Of(c, s) /\ Waits(c)
            BY <1>6 DEF IsChain
        <3>2. c = line[1] /\ line # <<>>
            BY <1>5, <1>6, <3>1, FirstOfChain
        <3> QED
            BY <1>6, <3>2 DEF IsChain
    <2>3. \A i \in DOMAIN line : i # 1 =>
             calls'[line[i]].pc = "queued" /\ calls'[line[i]].after = line[i - 1]
        BY <1>1, <1>6, <1>8, <2>2 DEF IsChain
    <2>4. IF line = <<>> THEN tail'[s] = None \/ Settled(tail[s])' ELSE tail'[s] = line[Len(line)]
        BY <1>2, <1>3, <1>5, <1>6, NoneIsNothing DEF IsChain
    <2>5. IsChain(line, s)'
        BY <1>5, <1>6, <1>9, <2>1, <2>3, <2>4 DEF IsChain
    <2> QED
        BY <2>5
<1>11. CASE Of(c, s) /\ Waits(c) /\ ~Waits(c)'
    <2> DEFINE n == Len(line)
               rest == Tail(line)
    <2>1. line # <<>> /\ c = line[1]
        BY <1>5, <1>6, <1>11, FirstOfChain
    <2>2. /\ rest \in Seq(Calls) /\ n \in Nat \ {0} /\ Len(rest) = n - 1
          /\ DOMAIN rest = 1 .. n - 1 /\ DOMAIN line = 1 .. n
          /\ \A i \in 1 .. n - 1 : rest[i] = line[i + 1] /\ i + 1 \in 1 .. n
        BY <2>1
    <2> HIDE DEF rest, n
    <2>3. \A i \in 1 .. n - 1 : rest[i] # c
        <3> TAKE i \in 1 .. n - 1
        <3>1. rest[i] = line[i + 1] /\ i + 1 \in 1 .. n /\ 1 \in 1 .. n /\ i + 1 # 1
            BY <2>2
        <3> QED
            BY <1>6, <2>1, <2>2, <3>1 DEF IsChain
    <2>4. \A i, j \in DOMAIN rest : rest[i] = rest[j] => i = j
        BY <1>6, <2>2 DEF IsChain
    <2>5. \A d \in Calls : (\E i \in DOMAIN rest : rest[i] = d) <=> (Of(d, s) /\ Waits(d))'
        <3> SUFFICES ASSUME NEW d \in Calls
                     PROVE  (\E i \in DOMAIN rest : rest[i] = d) <=> (Of(d, s) /\ Waits(d))'
            OBVIOUS
        <3>1. CASE d = c
            <4>1. ~(Of(d, s) /\ Waits(d))'
                BY <1>11, <3>1
            <4>2. ~\E i \in DOMAIN rest : rest[i] = d
                BY <2>2, <2>3, <3>1
            <4> QED
                BY <4>1, <4>2
        <3>2. CASE d # c
            <4>1. (Of(d, s) /\ Waits(d))' <=> Of(d, s) /\ Waits(d)
                BY <1>2, <1>7, <3>2
            <4>2. (\E i \in DOMAIN rest : rest[i] = d) <=> \E i \in DOMAIN line : line[i] = d
                <5>1. ASSUME NEW i \in 1 .. n, line[i] = d PROVE \E j \in 1 .. n - 1 : rest[j] = d
                    <6>1. i # 1
                        BY <2>1, <3>2, <5>1
                    <6>2. i - 1 \in 1 .. n - 1 /\ (i - 1) + 1 = i
                        BY <2>2, <6>1
                    <6> QED
                        BY <2>2, <5>1, <6>2
                <5>2. ASSUME NEW i \in 1 .. n - 1, rest[i] = d PROVE \E j \in 1 .. n : line[j] = d
                    BY <2>2, <5>2
                <5> QED
                    BY <2>2, <5>1, <5>2
            <4> QED
                BY <1>6, <4>1, <4>2 DEF IsChain
        <3> QED
            BY <3>1, <3>2
    <2>6. \A i \in DOMAIN rest : i # 1 =>
             calls'[rest[i]].pc = "queued" /\ calls'[rest[i]].after = rest[i - 1]
        <3> SUFFICES ASSUME NEW i \in 1 .. n - 1, i # 1
                     PROVE  /\ calls'[rest[i]].pc = "queued"
                            /\ calls'[rest[i]].after = rest[i - 1]
            BY <2>2
        <3>1. i - 1 \in 1 .. n - 1 /\ (i - 1) + 1 = i /\ i + 1 # 1 /\ (i + 1) - 1 = i
            BY <2>2
        <3>2. rest[i] = line[i + 1] /\ rest[i - 1] = line[i] /\ i + 1 \in 1 .. n
            BY <2>2, <3>1
        <3>3. \A k \in DOMAIN line : k # 1 =>
                 calls[line[k]].pc = "queued" /\ calls[line[k]].after = line[k - 1]
            BY <1>6 DEF IsChain
        <3>4. calls[line[i + 1]].pc = "queued" /\ calls[line[i + 1]].after = line[i]
            <4> DEFINE k == i + 1
            <4>1. k \in DOMAIN line /\ k # 1 /\ k - 1 = i
                BY <2>2, <3>1, <3>2
            <4> HIDE DEF k
            <4>2. calls[line[k]].pc = "queued" /\ calls[line[k]].after = line[i]
                BY <3>3, <4>1
            <4> QED
                BY <4>2 DEF k
        <3>5. rest[i] \in Calls /\ rest[i] # c
            BY <2>2, <2>3
        <3> QED
            BY <1>1, <3>2, <3>4, <3>5
    <2>7. IF rest = <<>> THEN tail'[s] = None \/ Settled(tail[s])' ELSE tail'[s] = rest[Len(rest)]
        <3>1. tail[s] = line[n]
            BY <1>6, <2>1 DEF IsChain, n
        <3>2. CASE n = 1
            <4>1. rest = <<>> /\ tail[s] = c
                BY <2>1, <2>2, <3>1, <3>2
            <4>2. Settled(c)' /\ tail'[s] = c
                BY <1>3, <1>5, <1>11, <4>1
            <4>3. Settled(tail[s])'
                BY <4>2
            <4> QED
                BY <4>1, <4>3
        <3>3. CASE n # 1
            <4>1. n - 1 \in 1 .. n - 1 /\ (n - 1) + 1 = n
                BY <2>2, <3>3
            <4>2. rest[n - 1] = line[n] /\ rest # <<>>
                BY <2>2, <4>1
            <4> QED
                BY <1>5, <2>2, <3>1, <4>2
        <3> QED
            BY <3>2, <3>3
    <2>8. \A i, j \in DOMAIN rest : calls'[rest[j]].kind = "end" /\ j <= i =>
             rest[i] \notin calls'[rest[j]].before
        <3> SUFFICES ASSUME NEW i \in 1 .. n - 1, NEW j \in 1 .. n - 1, j <= i,
                            calls'[rest[j]].kind = "end"
                     PROVE  rest[i] \notin calls'[rest[j]].before
            BY <2>2
        <3>1. /\ rest[i] = line[i + 1] /\ i + 1 \in DOMAIN line
              /\ rest[j] = line[j + 1] /\ j + 1 \in DOMAIN line /\ j + 1 <= i + 1
            BY <2>2
        <3> QED
            BY <1>9, <3>1
    <2>9. IsChain(rest, s)'
        BY <2>4, <2>5, <2>6, <2>7, <2>8 DEF IsChain
    <2> QED
        BY <2>2, <2>9
<1> QED
    BY <1>10, <1>11

-----------------------------------------------------------------------------
(* Epochs *)

\* What calls have probed does not become less.
LEMMA EpochsGrow ==
    ASSUME \A c \in Calls : HasProbed(c) => HasProbed(c)'
    PROVE  /\ EpochsProbed \in Nat /\ EpochsProbed' \in Nat /\ EpochsProbed <= EpochsProbed'
           /\ EpochsProbed <= MaxProbe * Cardinality(Calls)
<1> DEFINE S == {c \in Calls : HasProbed(c)}
           T == {c \in Calls : HasProbed(c)'}
<1>1. S \in SUBSET T /\ T \in SUBSET Calls /\ S \in SUBSET Calls
    OBVIOUS
<1>2. IsFiniteSet(T)
    BY <1>1, CallsAreFinite, FS_Subset
<1>3. /\ Cardinality(S) \in Nat /\ Cardinality(T) \in Nat /\ Cardinality(Calls) \in Nat
      /\ Cardinality(S) <= Cardinality(T) /\ Cardinality(S) <= Cardinality(Calls)
    BY <1>1, <1>2, CallsAreFinite, FS_Subset, FS_CardinalityType
<1>4. EpochsProbed = MaxProbe * Cardinality(S) /\ EpochsProbed' = MaxProbe * Cardinality(T)
    BY DEF EpochsProbed
<1> HIDE DEF S, T
<1>5. \A k, m, n \in Nat : m <= n => k * m \in Nat /\ k * n \in Nat /\ k * m <= k * n
    OBVIOUS
<1> QED
    BY <1>3, <1>4, <1>5, ProbesArePositive

\* A resolve that begins may probe MaxProbe epochs more.
LEMMA EpochsOfOneMore ==
    ASSUME NEW c \in Calls, ~HasProbed(c), HasProbed(c)',
           \A d \in Calls : d # c => (HasProbed(d)' <=> HasProbed(d))
    PROVE  /\ EpochsProbed \in Nat /\ EpochsProbed' = EpochsProbed + MaxProbe
<1> DEFINE S == {d \in Calls : HasProbed(d)}
           T == {d \in Calls : HasProbed(d)'}
<1>1. T = S \cup {c} /\ S \in SUBSET Calls /\ c \notin S
    OBVIOUS
<1>2. IsFiniteSet(S)
    BY <1>1, CallsAreFinite, FS_Subset
<1>3. Cardinality(S) \in Nat /\ Cardinality(T) = Cardinality(S) + 1
    BY <1>1, <1>2, FS_AddElement, FS_CardinalityType
<1>4. EpochsProbed = MaxProbe * Cardinality(S) /\ EpochsProbed' = MaxProbe * Cardinality(T)
    BY DEF EpochsProbed
<1> HIDE DEF S, T
<1>5. \A k, n \in Nat : k * n \in Nat /\ k * (n + 1) = k * n + k
    OBVIOUS
<1> QED
    BY <1>3, <1>4, <1>5, ProbesArePositive

-----------------------------------------------------------------------------
(* Calls that arrive *)

LEMMA ArrivalIInv ==
    ASSUME SessionsIInv, NEW c \in Calls, calls[c] = Unused,
           NEW q \in CallRecords, IsPlaced(q), calls' = [calls EXCEPT ![c] = q],
           q.pc \in {"queued", "direct", "get"}, q.run = None, q.answer = None,
           \A d \in q.before : d \in Calls /\ calls[d].kind = "resolve",
           q.target # None => objs[q.target] # None,
           q.kind \in {"commit", "manifest"} =>
               \E d \in Calls : /\ IsUser(d, q.target)
                                /\ q.pc = "queued" => calls[d].session = q.session,
           q.pc = "direct" =>
               \A d \in Calls :
                   IsUser(d, q.target) /\ ~Forgotten(calls[d].session) => ~IsOpen(q.target),
           q.kind = "end" => /\ q.pc = "queued"
                             /\ MaxEnds = 1 =>
                                   \A e \in Calls : calls[e].kind = "end" =>
                                       calls[e].session # q.session,
           UNCHANGED <<server, objs, states>>, tail' \in [Sessions -> {None} \cup Calls],
           unloading' \in {None} \cup Unloadings,
           unloading' # None => unloading # None /\ unloading'.open = unloading.open,
           Chained', UnloadIsOnItsWay'
    PROVE  SessionsIInv'
<1> USE DEF SessionsIInv
<1>1. /\ calls \in [Calls -> {Unused} \cup CallRecords]
      /\ calls[c].kind = "none" /\ calls[c].pc = "unused" /\ q.kind \in AllKinds
    BY DEF Typed, Unused, CallRecords
<1>2. calls'[c] = q /\ \A d \in Calls : d # c => calls'[d] = calls[d]
    BY <1>1
<1>3. Typed'
    BY <1>1 DEF Typed
<1>4. Placed'
    BY <1>2 DEF Placed
<1>5. q.kind # "none" /\ q.pc \notin {"start", "mount", "append", "commit", "done"}
    BY <1>1 DEF AllKinds
<1>6. \A d \in Calls : calls[d].kind # "none" => d # c /\ calls'[d] = calls[d]
    BY <1>1, <1>2
<1>7. \A d \in Calls, r \in RunIds : IsUser(d, r)' <=> IsUser(d, r)
    BY <1>1, <1>2, NoneIsNothing DEF IsUser
<1>8. \A s : Forgotten(s)' <=> Forgotten(s)
    BY <1>1, <1>2, <1>5 DEF Forgotten
<1>9. Refers'
    BY <1>1, <1>2, <1>6 DEF Refers, Unused
<1>10. EpochsAreBounded'
    <2>1. EpochsProbed <= EpochsProbed' /\ EpochsProbed \in Nat /\ EpochsProbed' \in Nat
        BY <1>1, <1>2, EpochsGrow DEF HasProbed
    <2>2. \A r \in RunIds : objs[r] # None => objs[r].epoch \in 1 .. EpochsProbed'
        BY <2>1 DEF EpochsAreBounded
    <2>3. \A d \in Calls : calls'[d].pc = "start" =>
             /\ calls[d].pc = "start" /\ calls'[d] = calls[d]
             /\ calls[d].left \in Nat /\ calls[d].epoch \in Nat
        BY <1>2, <1>5, CallIs, UsedIs
    <2> QED
        BY <2>1, <2>2, <2>3, ProbesArePositive DEF EpochsAreBounded
<1>11. OwnersAgree'
    <2>1. \A d \in Calls, r \in RunIds : IsUser(d, r) => calls'[d] = calls[d]
        BY <1>6 DEF IsUser
    <2>2. \A r \in RunIds : \A d, e \in Calls :
             (IsUser(d, r) /\ IsUser(e, r))' => calls'[d].session = calls'[e].session
        BY <1>7, <2>1 DEF OwnersAgree
    <2>3. \A s \in Sessions : states[s] # None =>
             /\ states[s] \in RunIds
             /\ \A d \in Calls : IsUser(d, states[s])' => calls'[d].session = s
             /\ \A t \in Sessions : states[t] = states[s] => t = s
        <3> TAKE s \in Sessions
        <3>1. states[s] # None => states[s] \in RunIds
            BY DEF Typed
        <3> QED
            BY <1>7, <2>1, <3>1 DEF OwnersAgree
    <2>4. \A r \in RunIds : server[r] # None =>
             \A i \in DOMAIN server[r].mounts : IsUser(server[r].mounts[i], r)'
        <3> SUFFICES ASSUME NEW r \in RunIds, server[r] # None,
                            NEW i \in DOMAIN server[r].mounts
                     PROVE  IsUser(server[r].mounts[i], r)'
            OBVIOUS
        <3>1. server[r].mounts[i] \in Calls
            BY DEF Typed, ServerRuns
        <3> QED
            BY <1>7, <3>1 DEF OwnersAgree
    <2>5. \A p \in Calls : calls'[p].pc = "commit" =>
             /\ ~objs[calls[p].run].open /\ calls'[p] = calls[p]
             /\ \A d \in Calls : IsUser(d, calls[p].run)' => calls'[d].session = calls[p].session
        <3> SUFFICES ASSUME NEW p \in Calls, calls'[p].pc = "commit"
                     PROVE  /\ ~objs[calls[p].run].open /\ calls'[p] = calls[p]
                            /\ \A d \in Calls :
                                  IsUser(d, calls[p].run)' => calls'[d].session = calls[p].session
            OBVIOUS
        <3>1. calls'[p] = calls[p] /\ calls[p] # Unused
            BY <1>2, <1>5 DEF Unused
        <3>2. calls[p].run \in RunIds
            BY <3>1, CallIs, UsedIs DEF Placed, IsPlaced
        <3> QED
            BY <1>7, <2>1, <3>1, <3>2 DEF OwnersAgree
    <2>6. \A p \in Calls : calls'[p].kind \in {"commit", "manifest"} =>
             \E d \in Calls :
                /\ IsUser(d, calls[p].target)'
                /\ calls'[p].pc = "queued" => calls'[d].session = calls'[p].session
        <3> SUFFICES ASSUME NEW p \in Calls, calls'[p].kind \in {"commit", "manifest"}
                     PROVE  \E d \in Calls :
                               /\ IsUser(d, calls[p].target)'
                               /\ calls'[p].pc = "queued" =>
                                     calls'[d].session = calls'[p].session
            OBVIOUS
        <3>1. calls'[p] \in CallRecords /\ calls'[p].target \in RunIds
            <4>1. calls'[p] # Unused
                BY DEF Unused
            <4> QED
                BY <1>3, <1>4, <4>1 DEF Typed, Placed, IsPlaced, CallRecords
        <3>2. PICK d \in Calls :
                 /\ IsUser(d, calls'[p].target)
                 /\ calls'[p].pc = "queued" => calls[d].session = calls'[p].session
            <4>1. CASE p = c
                BY <1>2, <4>1
            <4>2. CASE p # c
                BY <1>2, <4>2 DEF OwnersAgree
            <4> QED
                BY <4>1, <4>2
        <3> QED
            BY <2>1, <3>1, <3>2 DEF IsUser
    <2> QED
        BY <2>2, <2>3, <2>4, <2>5, <2>6 DEF OwnersAgree
<1>12. \A d \in Calls : calls'[d].kind = "resolve" /\ ~Forgotten(calls[d].session)' =>
          \/ d = c /\ calls'[d].pc = "queued" /\ calls'[d].run = None /\ ~Read(d)'
          \/ /\ calls'[d] = calls[d] /\ calls[d].kind = "resolve" /\ (Read(d)' <=> Read(d))
             /\ ~Forgotten(calls[d].session)
             /\ calls[d].run # None => calls[d].run \in RunIds
    <2> SUFFICES ASSUME NEW d \in Calls, calls'[d].kind = "resolve",
                        ~Forgotten(calls[d].session)', d # c
                 PROVE  /\ calls'[d] = calls[d] /\ calls[d].kind = "resolve"
                        /\ (Read(d)' <=> Read(d)) /\ ~Forgotten(calls[d].session)
                        /\ calls[d].run # None => calls[d].run \in RunIds
        BY <1>2, <1>5 DEF IsPlaced, Read
    <2> QED
        BY <1>2, <1>8, CallIs DEF Read
<1>13. OpenRunsAreCurrent'
    <2>1. ASSUME NEW d \in Calls, calls'[d].kind = "resolve", ~Forgotten(calls[d].session)',
                 NEW p \in Calls, calls'[p].pc = "direct",
                 calls'[p].target = calls'[d].run
          PROVE  ~IsOpen(calls'[d].run)
        <3>1. CASE calls'[d].run = None
            BY <3>1 DEF IsOpen
        <3>2. CASE calls'[d].run # None /\ p # c
            BY <1>2, <1>12, <2>1, <3>2 DEF OpenRunsAreCurrent
        <3>3. CASE calls'[d].run # None /\ p = c
            BY <1>2, <1>12, <2>1, <3>3 DEF IsUser
        <3> QED
            BY <3>1, <3>2, <3>3
    <2>2. ASSUME NEW d \in Calls, calls'[d].kind = "resolve", ~Forgotten(calls[d].session)'
          PROVE  /\ calls'[d].pc = "start" => ~IsOpen(states[calls'[d].session])
                 /\ calls'[d].pc \in {"mount", "append"} => objs[calls'[d].run].open
                 /\ IsOpen(calls'[d].run) => states[calls'[d].session] = calls'[d].run
        BY <1>12, <2>2 DEF OpenRunsAreCurrent, IsOpen
    <2> QED
        BY <2>1, <2>2 DEF OpenRunsAreCurrent, IsOpen
<1>14. PositionsAreSo'
    BY <1>12 DEF PositionsAreSo
<1>15. ASSUME ClosedRunsAreCommitted PROVE ClosedRunsAreCommitted'
    <2> SUFFICES ASSUME NEW d \in Calls, Read(d)', ~Forgotten(calls[d].session)'
                 PROVE  IF objs[calls'[d].run].open THEN objs[calls'[d].run].entries # 0
                        ELSE \/ server[calls'[d].run].manifest # None
                             \/ \E p \in Calls : calls'[p].pc = "commit" /\ calls'[p].run = calls'[d].run
        BY DEF ClosedRunsAreCommitted
    <2>1. calls'[d] = calls[d] /\ Read(d) /\ ~Forgotten(calls[d].session)
        BY <1>12 DEF Read
    <2>2. \A p \in Calls : calls[p].pc = "commit" => calls'[p] = calls[p]
        BY <1>1, <1>2
    <2> QED
        BY <1>15, <2>1, <2>2 DEF ClosedRunsAreCommitted
<1>16. ASSUME MaxEnds = 1, DisposalCommits PROVE DisposalCommits'
    <2>1. \A d, e \in Calls :
             calls'[d].kind = "end" /\ calls'[e].kind = "end"
               /\ calls'[d].session = calls'[e].session => d = e
        BY <1>2, <1>16 DEF DisposalCommits
    <2>2. ASSUME NEW e \in Calls, calls'[e].kind = "end", calls'[e].pc # "queued"
          PROVE  \A d \in calls'[e].before : Of(d, calls[e].session)' =>
                    /\ ~Waits(d)'
                    /\ Read(d)' => \/ server[calls'[d].run].manifest # None
                                   \/ calls'[e].pc = "commit" /\ calls'[e].run = calls'[d].run
        <3>1. e # c /\ calls'[e] = calls[e] /\ calls[e] # Unused
            BY <1>2, <2>2 DEF Unused
        <3>2. \A d \in calls[e].before : d \in Calls /\ calls'[d] = calls[d]
            BY <1>6, <2>2, <3>1, CallIs DEF Refers
        <3> QED
            BY <1>16, <2>2, <3>1, <3>2 DEF DisposalCommits, Of, Waits, HasBegun, Read
    <2> QED
        BY <2>1, <2>2 DEF DisposalCommits
<1> QED
    BY <1>3, <1>4, <1>9, <1>10, <1>11, <1>13, <1>14, <1>15, <1>16

LEMMA CallMade ==
    ASSUME Typed, NEW kind \in AllKinds, NEW s \in Sessions \cup {None},
           NEW target \in RunIds \cup {None}, NEW pc \in Pcs, NEW after \in Calls \cup {None}
    PROVE  LET q == Call(kind, s, target, pc, after) IN
           /\ q \in CallRecords /\ q.kind = kind /\ q.session = s /\ q.target = target
           /\ q.pc = pc /\ q.after = after /\ q.run = None /\ q.answer = None
           /\ \A d \in q.before : d \in Calls /\ calls[d].kind = "resolve"
BY DEF Call, CallRecords

LEMMA SerializeIInv ==
    ASSUME SessionsIInv, NEW c \in Calls, NEW kind \in AllKinds, NEW s \in Sessions,
           NEW target \in RunIds \cup {None}, Serialize(c, kind, s, target),
           UNCHANGED <<server, objs, states>>,
           target # None => objs[target] # None,
           kind \in {"commit", "manifest"} =>
               /\ target # None
               /\ \E d \in Calls : IsUser(d, target) /\ calls[d].session = s,
           kind = "end" /\ MaxEnds = 1 =>
               \A e \in Calls : calls[e].kind = "end" => calls[e].session # s,
           \/ UNCHANGED unloading
           \/ /\ kind = "unload" /\ unloading # None
              /\ unloading' = [unloading EXCEPT !.left = @ \ {s}]
    PROVE  SessionsIInv'
<1> USE DEF SessionsIInv
<1> DEFINE q == Call(kind, s, target, "queued", tail[s])
<1>1. /\ calls[c] = Unused /\ calls' = [calls EXCEPT ![c] = q]
      /\ tail' = [tail EXCEPT ![s] = c]
    BY DEF Serialize, Becomes
<1>2. /\ tail \in [Sessions -> {None} \cup Calls] /\ tail[s] \in Calls \cup {None}
      /\ calls \in [Calls -> {Unused} \cup CallRecords] /\ calls[c].kind = "none"
    BY <1>1 DEF Typed, Unused
<1>3. /\ q \in CallRecords /\ q.kind = kind /\ q.session = s /\ q.target = target
      /\ q.pc = "queued" /\ q.after = tail[s] /\ q.run = None /\ q.answer = None
      /\ \A d \in q.before : d \in Calls /\ calls[d].kind = "resolve"
    BY <1>2, CallMade DEF Pcs
<1> HIDE DEF q
<1>4. IsPlaced(q)
    BY <1>3, NoneIsNothing DEF IsPlaced
<1>5. c \notin q.before
    BY <1>2, <1>3
<1>6. Chained'
    BY <1>1, <1>3, <1>5, ChainGrows
<1>7. unloading \in {None} \cup Unloadings
    BY DEF Typed
<1>8. /\ unloading' \in {None} \cup Unloadings
      /\ unloading' # None => /\ unloading # None /\ unloading'.open = unloading.open
                              /\ unloading.left \subseteq unloading'.left \cup {s}
                              /\ kind # "unload" => unloading'.left = unloading.left
                              /\ s \in unloading.left => s \in unloading'.left \/ kind = "unload"
    BY <1>7 DEF Unloadings
<1>9. calls'[c] = q /\ \A d \in Calls : calls[d].kind # "none" => calls'[d] = calls[d]
    BY <1>1, <1>2
<1>10. \A t \in Sessions : Forgotten(t) => Forgotten(t)'
    BY <1>9 DEF Forgotten
<1>11. UnloadIsOnItsWay'
    <2> SUFFICES ASSUME unloading' # None, NEW t \in Sessions, ~Forgotten(t)',
                        IsOpen(states[t])', states[t] \in unloading'.open
                 PROVE  \/ t \in unloading'.left
                        \/ \E u \in Calls : /\ calls'[u].kind = "unload"
                                            /\ calls'[u].session = t /\ calls'[u].pc = "queued"
        BY DEF UnloadIsOnItsWay
    <2>1. \/ t \in unloading.left
          \/ \E u \in Calls : /\ calls[u].kind = "unload" /\ calls[u].session = t
                              /\ calls[u].pc = "queued"
        BY <1>8, <1>10 DEF UnloadIsOnItsWay, IsOpen
    <2>2. CASE t \in unloading.left
        BY <1>3, <1>8, <1>9, <2>2
    <2>3. CASE \E u \in Calls : /\ calls[u].kind = "unload" /\ calls[u].session = t
                                /\ calls[u].pc = "queued"
        BY <1>9, <2>3
    <2> QED
        BY <2>1, <2>2, <2>3
<1>12. tail' \in [Sessions -> {None} \cup Calls]
    BY <1>1, <1>2
<1>13. /\ kind = "end" /\ MaxEnds = 1 =>
             \A e \in Calls : calls[e].kind = "end" => calls[e].session # q.session
       /\ q.kind \in {"commit", "manifest"} =>
             \E d \in Calls : /\ IsUser(d, q.target)
                              /\ q.pc = "queued" => calls[d].session = q.session
       /\ q.target # None => objs[q.target] # None
    BY <1>3
<1> HIDE DEF SessionsIInv
<1> QED
    BY <1>1, <1>3, <1>4, <1>6, <1>8, <1>11, <1>12, <1>13, ArrivalIInv

LEMMA ResolveIInv ==
    ASSUME SessionsIInv, NEW c \in Calls, NEW s \in Sessions, Resolve(c, s)
    PROVE  SessionsIInv'
<1>1. Serialize(c, "resolve", s, None) /\ UNCHANGED <<server, objs, states>>
      /\ UNCHANGED unloading
    BY DEF Resolve
<1> QED
    BY <1>1, SerializeIInv DEF AllKinds

LEMMA EndIInv ==
    ASSUME SessionsIInv, NEW c \in Calls, NEW s \in Sessions, End(c, s)
    PROVE  SessionsIInv'
<1> DEFINE ends == {x \in Calls : calls[x].kind = "end" /\ calls[x].session = s}
<1>1. Serialize(c, "end", s, None) /\ UNCHANGED <<server, objs, states>>
      /\ UNCHANGED unloading /\ Cardinality(ends) < MaxEnds
    BY DEF End
<1>2. IsFiniteSet(ends) /\ Cardinality(ends) \in Nat
    BY CallsAreFinite, FS_Subset, FS_CardinalityType
<1>3. MaxEnds = 1 => Cardinality(ends) = 0
    BY <1>1, <1>2
<1>4. MaxEnds = 1 => ends = {}
    BY <1>2, <1>3, FS_EmptySet
<1>5. MaxEnds = 1 => \A e \in Calls : calls[e].kind = "end" => calls[e].session # s
    BY <1>4
<1> QED
    BY <1>1, <1>5, SerializeIInv DEF AllKinds

LEMMA AskIInv ==
    ASSUME SessionsIInv, NEW c \in Calls, NEW kind \in Kinds, NEW r \in RunIds,
           Ask(c, kind, r)
    PROVE  SessionsIInv'
<1>0. /\ calls[c] = Unused /\ kind \in {"commit", "manifest"} /\ kind \in AllKinds
      /\ UNCHANGED <<server, objs, states>> /\ UNCHANGED unloading /\ r # None
      /\ calls \in [Calls -> {Unused} \cup CallRecords]
    BY NoneIsNothing DEF Ask, AllKinds, SessionsIInv, Typed
<1>1. PICK x \in Calls : IsUser(x, r)
    BY DEF Ask, IsUser
<1>2. objs[r] # None
    BY <1>0, <1>1 DEF IsUser, SessionsIInv, Refers, Unused
<1>3. ASSUME NEW s \in Sessions, states[s] = r, Serialize(c, kind, s, r)
      PROVE  SessionsIInv'
    <2>1. calls[x].session = s
        BY <1>0, <1>1, <1>3 DEF SessionsIInv, OwnersAgree
    <2> QED
        BY <1>0, <1>1, <1>2, <1>3, <2>1, SerializeIInv
<1>4. ASSUME ~\E s \in Sessions : states[s] = r /\ IsOpen(r),
             Becomes(c, Call(kind, None, r, IF kind = "commit" THEN "direct" ELSE "get", None)),
             UNCHANGED tail
      PROVE  SessionsIInv'
    <2> DEFINE pc == IF kind = "commit" THEN "direct" ELSE "get"
               q == Call(kind, None, r, pc, None)
    <2>1. pc \in Pcs
        BY DEF Pcs
    <2>2. /\ q \in CallRecords /\ q.kind = kind /\ q.session = None /\ q.target = r
          /\ q.pc = pc /\ q.run = None /\ q.answer = None
          /\ \A d \in q.before : d \in Calls /\ calls[d].kind = "resolve"
        <3>1. Typed /\ None \in Sessions \cup {None} /\ r \in RunIds \cup {None}
              /\ None \in Calls \cup {None}
            BY DEF SessionsIInv
        <3>2. PICK p \in Pcs : p = pc
            BY <2>1
        <3>3. PICK m : m = Call(kind, None, r, p, None)
            OBVIOUS
        <3>4. /\ m \in CallRecords /\ m.kind = kind /\ m.session = None /\ m.target = r
              /\ m.pc = p /\ m.run = None /\ m.answer = None
              /\ \A d \in m.before : d \in Calls /\ calls[d].kind = "resolve"
            BY <1>0, <3>1, <3>2, <3>3, CallMade
        <3> QED
            BY <3>2, <3>3, <3>4
    <2>3. calls' = [calls EXCEPT ![c] = q]
        BY <1>4 DEF Becomes
    <2> HIDE DEF q
    <2>4. IsPlaced(q)
        BY <1>0, <2>2 DEF IsPlaced
    <2>5. /\ calls'[c] = q /\ \A d \in Calls : d # c => calls'[d] = calls[d]
          /\ calls[c].kind = "none" /\ calls[c].pc = "unused"
        BY <1>0, <2>3 DEF Unused
    <2>6. \A d \in Calls :
             IsUser(d, r) /\ ~Forgotten(calls[d].session) => ~IsOpen(r)
        <3> SUFFICES ASSUME NEW d \in Calls, IsUser(d, r), ~Forgotten(calls[d].session), IsOpen(r)
                     PROVE  FALSE
            OBVIOUS
        <3>1. states[calls[d].session] = r
            BY DEF SessionsIInv, OpenRunsAreCurrent, IsUser
        <3>2. calls[d].session \in Sessions
            BY CallIs, UsedIs DEF SessionsIInv, Placed, IsPlaced, IsUser
        <3> QED
            BY <1>4, <3>1, <3>2
    <2>7. Chained'
        <3> SUFFICES ASSUME NEW s \in Sessions, ~Forgotten(s)'
                     PROVE  \E line \in Seq(Calls) : IsChain(line, s)'
            BY DEF Chained
        <3>1. ~Forgotten(s)
            BY <2>5 DEF Forgotten
        <3>2. PICK line \in Seq(Calls) : IsChain(line, s)
            BY <3>1 DEF SessionsIInv, Chained
        <3>3. \A d \in Calls : /\ Of(d, s)' /\ Waits(d)' <=> Of(d, s) /\ Waits(d)
                               /\ d # c => (Settled(d)' <=> Settled(d))
            BY <2>2, <2>5 DEF Of, Waits, HasBegun, Settled
        <3>4. \A i \in DOMAIN line : line[i] \in Calls /\ line[i] # c
            BY <2>5, <3>2 DEF IsChain, Of
        <3>5. tail'[s] = tail[s] /\ tail[s] \in {None} \cup Calls /\ (tail[s] = c => ~Settled(c))
            BY <1>4, <2>5 DEF SessionsIInv, Typed, Settled
        <3>6. IF line = <<>> THEN tail'[s] = None \/ Settled(tail[s])' ELSE tail'[s] = line[Len(line)]
            BY <3>2, <3>3, <3>5, NoneIsNothing DEF IsChain
        <3>7. \A i \in DOMAIN line : i # 1 =>
                 calls'[line[i]].pc = "queued" /\ calls'[line[i]].after = line[i - 1]
            BY <2>5, <3>2, <3>4 DEF IsChain
        <3>8. \A i, j \in DOMAIN line : calls'[line[j]].kind = "end" /\ j <= i =>
                 line[i] \notin calls'[line[j]].before
            BY <2>5, <3>2, <3>4 DEF IsChain
        <3>9. IsChain(line, s)'
            BY <3>2, <3>3, <3>6, <3>7, <3>8 DEF IsChain
        <3> QED
            BY <3>9
    <2>8. UnloadIsOnItsWay'
        <3>1. \A s \in Sessions : Forgotten(s) => Forgotten(s)'
            BY <2>5 DEF Forgotten
        <3>2. \A u \in Calls : calls[u].kind = "unload" => calls'[u] = calls[u]
            BY <2>5
        <3> QED
            BY <1>0, <3>1, <3>2 DEF SessionsIInv, UnloadIsOnItsWay, IsOpen
    <2>9. /\ tail' \in [Sessions -> {None} \cup Calls]
          /\ unloading' \in {None} \cup Unloadings
          /\ unloading' # None => unloading # None /\ unloading'.open = unloading.open
        BY <1>0, <1>4 DEF SessionsIInv, Typed
    <2>10. \E d \in Calls : /\ IsUser(d, q.target)
                            /\ q.pc = "queued" => calls[d].session = q.session
        BY <1>0, <1>1, <2>2
    <2>11. /\ q.pc \in {"queued", "direct", "get"} /\ q.kind # "end"
           /\ q.target # None => objs[q.target] # None
        BY <1>0, <1>2, <2>2
    <2> QED
        BY <1>0, <2>2, <2>3, <2>4, <2>6, <2>7, <2>8, <2>9, <2>10, <2>11, ArrivalIInv
<1> QED
    BY <1>0, <1>3, <1>4 DEF Ask

LEMMA UnloadIInv ==
    ASSUME SessionsIInv, Unload
    PROVE  SessionsIInv'
<1> DEFINE left == {s \in Sessions : states[s] # None}
           open == {r \in RunIds : \E s \in Sessions : states[s] = r /\ IsOpen(r)}
<1>1. /\ unloading' = [left |-> left, open |-> open]
      /\ server' = server /\ objs' = objs /\ states' = states /\ tail' = tail /\ calls' = calls
    BY DEF Unload
<1>2. unloading' \in Unloadings
    BY <1>1 DEF Unloadings
<1>3. /\ \A r \in open : objs[r] # None
      /\ \A s \in Sessions : IsOpen(states[s]) => s \in left
    BY DEF IsOpen, SessionsIInv, Refers
<1>4. Typed' /\ Refers'
    BY <1>1, <1>2, <1>3 DEF SessionsIInv, Typed, Refers
<1>5. UnloadIsOnItsWay'
    BY <1>1, <1>3 DEF UnloadIsOnItsWay, IsOpen
<1> HIDE DEF left, open
<1>6. Placed' /\ OwnersAgree'
    BY <1>1 DEF SessionsIInv, Placed, OwnersAgree, IsUser
<1>7. EpochsAreBounded'
    <2>1. EpochsProbed' = EpochsProbed
        BY <1>1 DEF EpochsProbed, HasProbed
    <2> QED
        BY <1>1, <2>1 DEF SessionsIInv, EpochsAreBounded
<1>8. OpenRunsAreCurrent' /\ PositionsAreSo'
    BY <1>1 DEF SessionsIInv, OpenRunsAreCurrent, PositionsAreSo, Forgotten, IsOpen, Read
<1>9. /\ ClosedRunsAreCommitted => ClosedRunsAreCommitted'
      /\ DisposalCommits => DisposalCommits'
    BY <1>1
    DEF ClosedRunsAreCommitted, DisposalCommits, Forgotten, Read, Of, Waits, HasBegun
<1> QED
    BY <1>1, <1>4, <1>5, <1>6, <1>7, <1>8, <1>9, ChainStays DEF SessionsIInv

LEMMA UnloadNextIInv ==
    ASSUME SessionsIInv, NEW c \in Calls, UnloadNext(c)
    PROVE  SessionsIInv'
<1>1. PICK s \in unloading.left :
         /\ Serialize(c, "unload", s, None)
         /\ unloading' = [unloading EXCEPT !.left = @ \ {s}]
    BY DEF UnloadNext
<1>2. unloading # None /\ UNCHANGED <<server, objs, states>>
    BY DEF UnloadNext
<1>3. s \in Sessions
    BY <1>2 DEF SessionsIInv, Typed, Unloadings
<1> QED
    BY <1>1, <1>2, <1>3, SerializeIInv DEF AllKinds

-----------------------------------------------------------------------------
(* Calls that commit, or ask for a manifest *)

\* What a call that is no resolve does in a step: it may close the run of its
\* session, or give a closed run its manifest.
LEMMA CommitterIInv ==
    ASSUME SessionsIInv, NEW c \in Calls, NEW q, Advances(c, q),
           calls[c].kind # "resolve", calls[c].pc # "forget",
           Waits(c) => Begins(c) \/ HasBegun(c),
           ~Waits(c) => q.pc = "done",
           UNCHANGED <<states, tail, unloading>>,
           server' \in [RunIds -> {None} \cup ServerRuns],
           objs' \in [RunIds -> {None} \cup SessionStates],
           \A r \in RunIds :
               /\ server'[r] # None <=> server[r] # None
               /\ server[r] # None =>
                     /\ server'[r].mounts = server[r].mounts
                     /\ \/ server'[r].manifest = server[r].manifest
                        \/ /\ server'[r].manifest = Len(server[r].mounts)
                           /\ server[r].manifest = None
                           /\ \A d \in Calls :
                                 IsUser(d, r) /\ ~Forgotten(calls[d].session) => ~objs[r].open,
           \A r \in RunIds :
               /\ objs'[r] # None <=> objs[r] # None
               /\ objs[r] # None =>
                     /\ objs'[r].epoch = objs[r].epoch /\ objs'[r].entries = objs[r].entries
                     /\ \/ objs'[r].open = objs[r].open
                        \/ ~objs'[r].open /\ Begins(c) /\ r = states[calls[c].session],
           q.run # None => objs[q.run] # None,
           q.pc = "commit" =>
               /\ ~objs'[q.run].open
               /\ \A d \in Calls : IsUser(d, q.run) => calls[d].session = q.session,
           q.pc = "direct" =>
               \A d \in Calls : IsUser(d, q.target) /\ ~Forgotten(calls[d].session) =>
                   ~objs'[q.target].open,
           calls[c].kind = "unload" /\ calls[c].pc = "queued"
             /\ ~Forgotten(calls[c].session) /\ states[calls[c].session] # None =>
               ~objs'[states[calls[c].session]].open,
           ~Faults => ClosedRunsAreCommitted',
           ~Faults /\ MaxEnds = 1 => DisposalCommits'
    PROVE  SessionsIInv'
<1>0. Typed /\ Placed /\ Refers /\ EpochsAreBounded /\ OwnersAgree /\ Chained
      /\ OpenRunsAreCurrent /\ PositionsAreSo /\ UnloadIsOnItsWay
    BY DEF SessionsIInv
<1>1. /\ calls' \in [Calls -> {Unused} \cup CallRecords] /\ Placed'
      /\ calls'[c] = q /\ \A d \in Calls : d # c => calls'[d] = calls[d]
    BY <1>0, AdvancesIs
<1>2. Typed'
    BY <1>0, <1>1 DEF Typed
<1>3. Chained'
    BY <1>0, ChainMoves
<1>4. /\ q \in CallRecords /\ q.kind = calls[c].kind /\ q.session = calls[c].session
      /\ q.target = calls[c].target /\ q.before = calls[c].before /\ q.pc # "queued"
      /\ calls[c].kind # "none" /\ q.run \in RunIds \cup {None} /\ IsPlaced(q)
      /\ q.target \in RunIds \cup {None}
    BY DEF Advances, CallRecords
<1>5. \A d \in Calls :
         /\ calls'[d].kind = calls[d].kind
         /\ calls[d].kind # "none" =>
               /\ calls'[d].session = calls[d].session /\ calls'[d].target = calls[d].target
               /\ calls'[d].before = calls[d].before
         /\ calls[d].kind = "resolve" \/ calls'[d].kind = "resolve" => d # c /\ calls'[d] = calls[d]
    BY <1>1, <1>4
<1>6. \A s : Forgotten(s) => Forgotten(s)'
    BY <1>0, AdvancesIs
<1>7. \A d \in Calls : \A r : IsUser(d, r) => calls'[d] = calls[d]
    BY <1>5 DEF IsUser
<1>8. \A d \in Calls : \A r \in RunIds : IsUser(d, r)' <=> IsUser(d, r)
    BY <1>5 DEF IsUser
<1>9. Refers'
    <2>1. \A r \in RunIds : objs'[r] # None => server'[r] # None
        BY <1>0 DEF Refers
    <2>2. \A s \in Sessions : states[s] # None => objs'[states[s]] # None
        BY <1>0 DEF Refers, Typed
    <2>3. ASSUME NEW d \in Calls, calls'[d] # Unused
          PROVE  /\ calls'[d].run # None => objs'[calls'[d].run] # None
                 /\ calls'[d].target # None => objs'[calls'[d].target] # None
                 /\ \A x \in calls'[d].before : calls'[x].kind = "resolve"
        <3>1. calls[d].kind # "none" /\ calls[d] # Unused
            BY <1>0, <1>1, <1>4, <2>3, UsedIs
        <3>2. /\ calls[d].target \in RunIds \cup {None} /\ calls[d].run \in RunIds \cup {None}
              /\ calls[d].before \subseteq Calls
            BY <1>0, <3>1, CallIs
        <3>3. calls[d].target # None => objs'[calls[d].target] # None
            BY <1>0, <3>1, <3>2 DEF Refers
        <3>4. \A x \in calls[d].before : calls'[x].kind = "resolve"
            BY <1>0, <1>5, <3>1, <3>2 DEF Refers
        <3>5. calls'[d].run # None => objs'[calls'[d].run] # None
            <4>1. CASE d = c
                BY <1>1, <1>4, <4>1
            <4>2. CASE d # c
                BY <1>0, <1>1, <3>1, <3>2, <4>2 DEF Refers
            <4> QED
                BY <4>1, <4>2
        <3> QED
            BY <1>5, <3>1, <3>3, <3>4, <3>5
    <2>4. unloading # None => \A r \in unloading.open : objs'[r] # None
        BY <1>0 DEF Refers, Typed, Unloadings
    <2> QED
        BY <2>1, <2>2, <2>3, <2>4 DEF Refers
<1>10. EpochsAreBounded'
    <2>1. EpochsProbed <= EpochsProbed' /\ EpochsProbed \in Nat /\ EpochsProbed' \in Nat
        BY <1>5, EpochsGrow DEF HasProbed
    <2>2. \A r \in RunIds : objs'[r] # None => objs'[r].epoch \in 1 .. EpochsProbed'
        BY <1>0, <2>1 DEF EpochsAreBounded
    <2>3. \A d \in Calls : calls'[d].pc = "start" =>
             /\ calls[d].pc = "start" /\ calls'[d] = calls[d]
             /\ calls[d].left \in Nat /\ calls[d].epoch \in Nat
        BY <1>0, <1>1, <1>4, CallIs, UsedIs DEF IsPlaced
    <2> QED
        BY <1>0, <2>1, <2>2, <2>3, ProbesArePositive DEF EpochsAreBounded
<1>11. OwnersAgree'
    <2>1. \A r \in RunIds : \A d, e \in Calls :
             (IsUser(d, r) /\ IsUser(e, r))' => calls'[d].session = calls'[e].session
        BY <1>0, <1>7, <1>8 DEF OwnersAgree
    <2>2. \A s \in Sessions : states[s] # None =>
             /\ states[s] \in RunIds
             /\ \A d \in Calls : IsUser(d, states[s])' => calls'[d].session = s
             /\ \A t \in Sessions : states[t] = states[s] => t = s
        <3> TAKE s \in Sessions
        <3>1. states[s] # None => states[s] \in RunIds
            BY <1>0 DEF Typed
        <3> QED
            BY <1>0, <1>7, <1>8, <3>1 DEF OwnersAgree
    <2>3. \A r \in RunIds : server'[r] # None =>
             \A i \in DOMAIN server'[r].mounts : IsUser(server[r].mounts[i], r)'
        <3> SUFFICES ASSUME NEW r \in RunIds, server'[r] # None,
                            NEW i \in DOMAIN server'[r].mounts
                     PROVE  IsUser(server[r].mounts[i], r)'
            OBVIOUS
        <3>1. server[r] # None /\ server'[r].mounts = server[r].mounts
            OBVIOUS
        <3>2. server[r].mounts[i] \in Calls
            BY <1>0, <3>1 DEF Typed, ServerRuns
        <3>3. IsUser(server[r].mounts[i], r)
            BY <1>0, <3>1 DEF OwnersAgree
        <3> QED
            BY <1>7, <3>1, <3>2, <3>3 DEF IsUser
    <2>4. \A p \in Calls : calls'[p].pc = "commit" =>
             /\ ~objs'[calls'[p].run].open
             /\ \A d \in Calls : IsUser(d, calls[p].run)' => calls'[d].session = calls'[p].session
        <3> SUFFICES ASSUME NEW p \in Calls, calls'[p].pc = "commit"
                     PROVE  /\ ~objs'[calls'[p].run].open
                            /\ \A d \in Calls : IsUser(d, calls[p].run)' =>
                                  calls'[d].session = calls'[p].session
            OBVIOUS
        <3>1. CASE p = c
            <4>1. \A d \in Calls : IsUser(d, calls[p].run)' => IsUser(d, q.run) /\ calls'[d] = calls[d]
                BY <1>1, <1>5, <3>1 DEF IsUser
            <4> QED
                BY <1>1, <3>1, <4>1
        <3>2. CASE p # c
            <4>1. calls'[p] = calls[p] /\ calls[p] # Unused
                BY <1>1, <3>2 DEF Unused
            <4>2. calls[p].run \in RunIds /\ objs[calls[p].run] # None
                BY <1>0, <4>1, CallIs, UsedIs DEF Placed, IsPlaced, Refers
            <4>3. \A d \in Calls : IsUser(d, calls[p].run)' => IsUser(d, calls[p].run) /\ calls'[d] = calls[d]
                BY <1>5, <4>1 DEF IsUser
            <4>4. ~objs[calls[p].run].open
                BY <1>0, <4>1 DEF OwnersAgree
            <4>5. ~objs'[calls[p].run].open
                BY <4>2, <4>4
            <4> QED
                BY <1>0, <4>1, <4>3, <4>5 DEF OwnersAgree
        <3> QED
            BY <3>1, <3>2
    <2>5. \A p \in Calls : calls'[p].kind \in {"commit", "manifest"} =>
             \E d \in Calls :
                /\ IsUser(d, calls[p].target)'
                /\ calls'[p].pc = "queued" => calls'[d].session = calls'[p].session
        <3> SUFFICES ASSUME NEW p \in Calls, calls'[p].kind \in {"commit", "manifest"}
                     PROVE  \E d \in Calls :
                               /\ IsUser(d, calls[p].target)'
                               /\ calls'[p].pc = "queued" =>
                                     calls'[d].session = calls'[p].session
            OBVIOUS
        <3>1. PICK d \in Calls :
                 /\ IsUser(d, calls[p].target)
                 /\ calls[p].pc = "queued" => calls[d].session = calls[p].session
            BY <1>0, <1>5 DEF OwnersAgree
        <3>2. calls'[p].pc = "queued" => calls'[p] = calls[p]
            BY <1>1, <1>4
        <3>3. calls'[p].target = calls[p].target /\ calls'[d] = calls[d]
            BY <1>5, <1>7, <3>1
        <3> QED
            BY <3>1, <3>2, <3>3 DEF IsUser
    <2> QED
        BY <2>1, <2>2, <2>3, <2>4, <2>5 DEF OwnersAgree
<1>12. \A d \in Calls : calls'[d].kind = "resolve" /\ ~Forgotten(calls[d].session)' =>
          /\ calls'[d] = calls[d] /\ calls[d].kind = "resolve" /\ d # c
          /\ ~Forgotten(calls[d].session) /\ calls[d].session \in Sessions
          /\ calls[d].run # None => calls[d].run \in RunIds /\ objs[calls[d].run] # None
          /\ calls[d].pc \in {"mount", "append"} => calls[d].run # None
          /\ Read(d) => calls[d].run # None
    <2> SUFFICES ASSUME NEW d \in Calls, calls'[d].kind = "resolve", ~Forgotten(calls[d].session)'
                 PROVE  /\ calls'[d] = calls[d] /\ calls[d].kind = "resolve" /\ d # c
                        /\ ~Forgotten(calls[d].session) /\ calls[d].session \in Sessions
                        /\ calls[d].run # None => calls[d].run \in RunIds /\ objs[calls[d].run] # None
                        /\ calls[d].pc \in {"mount", "append"} => calls[d].run # None
                        /\ Read(d) => calls[d].run # None
        OBVIOUS
    <2>1. calls'[d] = calls[d] /\ calls[d].kind = "resolve" /\ d # c
        BY <1>5
    <2>2. calls[d] # Unused /\ IsPlaced(calls[d])
        BY <1>0, <2>1, UsedIs DEF Placed
    <2> QED
        BY <1>0, <1>6, <2>1, <2>2, CallIs DEF Read, IsPlaced, Refers
<1>13. \A r \in RunIds : objs'[r] # None /\ objs'[r].open => objs[r].open
    OBVIOUS
<1>14. OpenRunsAreCurrent'
    <2> SUFFICES ASSUME NEW d \in Calls, calls'[d].kind = "resolve", ~Forgotten(calls[d].session)'
                 PROVE  /\ calls'[d].pc = "start" => ~IsOpen(states[calls[d].session])'
                        /\ calls'[d].pc \in {"mount", "append"} => objs'[calls'[d].run].open
                        /\ IsOpen(calls[d].run)' => states'[calls'[d].session] = calls'[d].run
                        /\ \A p \in Calls : calls'[p].pc = "direct" /\ calls'[p].target = calls'[d].run =>
                              ~IsOpen(calls[d].run)'
        BY DEF OpenRunsAreCurrent
    <2>1. /\ calls'[d] = calls[d] /\ calls[d].kind = "resolve" /\ d # c
          /\ ~Forgotten(calls[d].session) /\ calls[d].session \in Sessions
          /\ calls[d].run # None => calls[d].run \in RunIds /\ objs[calls[d].run] # None
          /\ calls[d].pc \in {"mount", "append"} => calls[d].run # None
        BY <1>12
    <2>2. calls[d].pc = "start" => ~IsOpen(states[calls[d].session])'
        <3>1. states[calls[d].session] \in {None} \cup RunIds
            BY <1>0, <2>1 DEF Typed
        <3>2. states[calls[d].session] # None => objs[states[calls[d].session]] # None
            BY <1>0, <2>1 DEF Refers
        <3>3. calls[d].pc = "start" => ~IsOpen(states[calls[d].session])
            BY <1>0, <2>1 DEF OpenRunsAreCurrent
        <3> QED
            BY <1>13, <2>1, <3>1, <3>2, <3>3 DEF IsOpen
    <2>3. ASSUME calls[d].pc \in {"mount", "append"} PROVE objs'[calls[d].run].open
        <3> DEFINE r == calls[d].run
        <3>1. r \in RunIds /\ objs[r] # None /\ objs[r].open
            BY <1>0, <2>1, <2>3 DEF OpenRunsAreCurrent
        <3>2. ASSUME Begins(c), r = states[calls[c].session] PROVE FALSE
            <4>1. calls[c].session \in Sessions
                BY <1>0, <1>4, <3>2, CallIs, UsedIs DEF Placed, IsPlaced, Begins
            <4>2. calls[c].session = calls[d].session
                BY <1>0, <2>1, <3>1, <3>2, <4>1, NoneIsNothing DEF OwnersAgree, IsUser
            <4> QED
                BY <1>0, <1>4, <2>1, <2>3, <3>2, <4>1, <4>2, OneAtATime DEF Of, HasBegun
        <3> QED
            BY <3>1, <3>2
    <2>4. IsOpen(calls[d].run)' => states[calls[d].session] = calls[d].run
        BY <1>0, <1>13, <2>1 DEF OpenRunsAreCurrent, IsOpen
    <2>5. ASSUME NEW p \in Calls, calls'[p].pc = "direct", calls'[p].target = calls[d].run
          PROVE  ~IsOpen(calls[d].run)'
        <3>1. CASE p = c
            BY <1>1, <1>2, <2>1, <2>5, <3>1 DEF IsOpen, IsUser
        <3>2. CASE p # c
            BY <1>0, <1>1, <1>13, <2>1, <2>5, <3>2 DEF OpenRunsAreCurrent, IsOpen
        <3> QED
            BY <3>1, <3>2
    <2> QED
        BY <2>1, <2>2, <2>3, <2>4, <2>5
<1>15. PositionsAreSo'
    <2> SUFFICES ASSUME NEW d \in Calls, calls'[d].kind = "resolve", ~Forgotten(calls[d].session)'
                 PROVE  LET run == server'[calls'[d].run] IN
                        /\ calls'[d].pc = "append" =>
                              calls'[d].told = Len(run.mounts) /\ run.manifest = None
                        /\ Read(d)' => /\ calls'[d].told < Len(run.mounts)
                                       /\ run.mounts[calls'[d].told + 1] = d
                                       /\ run.manifest # None => calls'[d].told < run.manifest
        BY DEF PositionsAreSo
    <2> DEFINE r == calls[d].run
    <2>1. /\ calls'[d] = calls[d] /\ calls[d].kind = "resolve" /\ ~Forgotten(calls[d].session)
          /\ r # None => r \in RunIds /\ objs[r] # None /\ server[r] # None
          /\ calls[d].pc \in {"mount", "append"} => r # None
          /\ Read(d) => r # None /\ Read(d)' <=> Read(d)
        BY <1>0, <1>12 DEF Read, Refers
    <2>2. CASE calls[d].pc = "append"
        <3>1. objs[r].open /\ IsUser(d, r) /\ r \in RunIds /\ server[r] # None
            BY <1>0, <2>1, <2>2 DEF OpenRunsAreCurrent, IsUser
        <3>2. server'[r].manifest = server[r].manifest /\ server'[r].mounts = server[r].mounts
            BY <2>1, <3>1
        <3> QED
            BY <1>0, <2>1, <2>2, <3>2 DEF PositionsAreSo, Read
    <2>3. CASE calls[d].pc # "append" /\ Read(d)
        <3>1. r \in RunIds /\ server[r] # None
            BY <2>1, <2>3
        <3>2. server'[r].mounts = server[r].mounts
              /\ (server'[r].manifest = server[r].manifest
                    \/ server'[r].manifest = Len(server[r].mounts))
            BY <3>1
        <3> QED
            BY <1>0, <2>1, <2>3, <3>2 DEF PositionsAreSo
    <2>4. CASE calls[d].pc # "append" /\ ~Read(d)
        BY <2>1, <2>4 DEF Read
    <2> QED
        BY <2>2, <2>3, <2>4
<1>16. UnloadIsOnItsWay'
    <2> SUFFICES ASSUME unloading # None, NEW s \in Sessions, ~Forgotten(s)', IsOpen(states[s])',
                        states[s] \in unloading.open
                 PROVE  \/ s \in unloading.left
                        \/ \E u \in Calls : /\ calls'[u].kind = "unload" /\ calls'[u].session = s
                                            /\ calls'[u].pc = "queued"
        BY DEF UnloadIsOnItsWay
    <2>1. states[s] \in RunIds /\ states[s] # None /\ objs'[states[s]].open /\ objs[states[s]] # None
        BY <1>0 DEF Typed, IsOpen, Refers
    <2>2. IsOpen(states[s])
        BY <1>13, <2>1 DEF IsOpen
    <2>3. ASSUME NEW u \in Calls, calls[u].kind = "unload", calls[u].session = s,
                 calls[u].pc = "queued"
          PROVE  u # c
        BY <1>6, <2>1, <2>3
    <2> QED
        BY <1>0, <1>1, <1>6, <2>2, <2>3 DEF UnloadIsOnItsWay
<1> QED
    BY <1>1, <1>2, <1>3, <1>9, <1>10, <1>11, <1>14, <1>15, <1>16 DEF SessionsIInv

\* What the steps of a call make of it.
LEMMA DoneIs ==
    ASSUME Typed, Placed, NEW c \in Calls, calls[c].kind # "none", calls[c].pc # "done",
           calls[c].pc # "forget",
           NEW answer \in {None, "ok", "failed", "not_found"} \cup RunIds,
           calls[c].kind = "resolve" /\ answer = "ok" => calls[c].run # None,
           Done(c, answer)
    PROVE  \E q : /\ Advances(c, q) /\ q.pc = "done" /\ q.run = calls[c].run
                  /\ q.answer = answer /\ q.told = calls[c].told
<1> DEFINE q == [calls[c] EXCEPT !.pc = "done", !.answer = answer]
<1>1. calls[c] \in CallRecords /\ IsPlaced(calls[c]) /\ "done" \in Pcs
    BY CallIs DEF Placed, Pcs
<1>2. /\ q \in CallRecords /\ q.pc = "done" /\ q.answer = answer
      /\ q.run = calls[c].run /\ q.told = calls[c].told /\ q.kind = calls[c].kind
      /\ q.session = calls[c].session /\ q.target = calls[c].target
      /\ q.after = calls[c].after /\ q.before = calls[c].before
    BY <1>1 DEF CallRecords
<1>3. calls' = [calls EXCEPT ![c] = q]
    BY DEF Done, Becomes
<1> HIDE DEF q
<1>4. IsPlaced(q)
    BY <1>1, <1>2 DEF IsPlaced
<1>5. Advances(c, q)
    BY <1>2, <1>3, <1>4 DEF Advances
<1> QED
    BY <1>2, <1>5

LEMMA CommittedIs ==
    ASSUME Typed, Placed, NEW c \in Calls, calls[c].kind \notin {"none", "resolve"},
           calls[c].pc \in {"queued", "commit"}, NEW manifest \in RunIds \cup {None},
           Committed(c, manifest)
    PROVE  \E q : /\ Advances(c, q) /\ q.run = calls[c].run
                  /\ q.pc \in {"forget", "direct", "get", "done"}
                  /\ q.kind = "end" => q.pc = "forget"
                  /\ q.pc = "direct" => manifest = None
<1>1. /\ calls[c] \in CallRecords /\ IsPlaced(calls[c])
      /\ calls[c].kind \in {"end", "unload", "manifest", "commit"}
    BY CallIs DEF Placed, AllKinds
<1>2. ASSUME NEW pc \in {"forget", "direct", "get", "done"},
             calls' = [calls EXCEPT ![c] = [calls[c] EXCEPT !.pc = pc]],
             calls[c].kind = "end" <=> pc = "forget",
             pc = "direct" => manifest = None /\ calls[c].kind = "commit",
             pc = "get" => calls[c].kind = "manifest"
      PROVE  \E q : /\ Advances(c, q) /\ q.run = calls[c].run
                    /\ q.pc \in {"forget", "direct", "get", "done"}
                    /\ q.kind = "end" => q.pc = "forget"
                    /\ q.pc = "direct" => manifest = None
    <2> DEFINE q == [calls[c] EXCEPT !.pc = pc]
    <2>1. pc \in Pcs
        BY DEF Pcs
    <2>2. /\ q \in CallRecords /\ q.pc = pc /\ q.answer = calls[c].answer
          /\ q.run = calls[c].run /\ q.kind = calls[c].kind
          /\ q.session = calls[c].session /\ q.target = calls[c].target
          /\ q.after = calls[c].after /\ q.before = calls[c].before
        BY <1>1, <2>1 DEF CallRecords
    <2> HIDE DEF q
    <2>3. IsPlaced(q)
        BY <1>1, <1>2, <2>2 DEF IsPlaced
    <2>4. calls' = [calls EXCEPT ![c] = q]
        BY <1>2 DEF q
    <2>5. Advances(c, q)
        BY <1>1, <2>2, <2>3, <2>4 DEF Advances
    <2> QED
        BY <1>2, <2>2, <2>5
<1>3. CASE calls[c].kind = "end"
    BY <1>2, <1>3 DEF Committed, Becomes
<1>4. CASE calls[c].kind = "unload"
    BY <1>2, <1>4 DEF Committed, Becomes
<1>5. CASE calls[c].kind = "manifest"
    BY <1>2, <1>5 DEF Committed, Becomes
<1>6. CASE calls[c].kind = "commit" /\ manifest = None
    BY <1>2, <1>6 DEF Committed, Becomes
<1>7. CASE calls[c].kind = "commit" /\ manifest # None
    <2>1. Done(c, manifest)
        BY <1>7 DEF Committed, Done, Becomes
    <2>2. PICK q : Advances(c, q) /\ q.pc = "done" /\ q.run = calls[c].run
        BY <1>7, <2>1, DoneIs
    <2>3. q.kind = "commit"
        BY <1>7, <2>2 DEF Advances
    <2> QED
        BY <2>2, <2>3
<1> QED
    BY <1>1, <1>3, <1>4, <1>5, <1>6, <1>7

LEMMA ThrownIs ==
    ASSUME Typed, Placed, NEW c \in Calls, calls[c].kind \notin {"none", "resolve"},
           calls[c].pc \in {"queued", "commit"}, Thrown(c)
    PROVE  \E q : /\ Advances(c, q) /\ q.run = calls[c].run
                  /\ q.pc = IF q.kind = "end" THEN "forget" ELSE "done"
<1>1. CASE calls[c].kind = "end"
    <2>1. Committed(c, None)
        <3>1. Thrown(c) <=> Becomes(c, [calls[c] EXCEPT !.pc = "forget"])
            BY <1>1 DEF Thrown
        <3>2. Committed(c, None) <=> Becomes(c, [calls[c] EXCEPT !.pc = "forget"])
            BY <1>1 DEF Committed
        <3> QED
            BY <3>1, <3>2
    <2>2. PICK q : Advances(c, q) /\ q.run = calls[c].run /\ (q.kind = "end" => q.pc = "forget")
        BY <2>1, CommittedIs
    <2>3. q.kind = "end"
        BY <1>1, <2>2 DEF Advances
    <2> QED
        BY <2>2, <2>3
<1>2. CASE calls[c].kind # "end"
    <2>1. Done(c, "failed")
        BY <1>2 DEF Thrown
    <2>2. PICK q : Advances(c, q) /\ q.run = calls[c].run /\ q.pc = "done"
        BY <2>1, DoneIs
    <2>3. q.kind # "end"
        BY <1>2, <2>2 DEF Advances
    <2> QED
        BY <2>2, <2>3
<1> QED
    BY <1>1, <1>2

\* A run that was read from stays committed, or is being committed.
LEMMA ClosedRunsStay ==
    ASSUME Typed, Placed, Refers, ClosedRunsAreCommitted,
           NEW c \in Calls, NEW q, Advances(c, q), calls[c].kind # "resolve",
           \A r \in RunIds : objs[r] # None =>
               /\ objs'[r].entries = objs[r].entries
               /\ objs'[r].open => objs[r].open
               /\ server[r].manifest # None => server'[r].manifest # None,
           \A d \in Calls : Read(d) /\ ~Forgotten(calls[d].session) =>
               LET r == calls[d].run IN
               (objs[r].open /\ ~objs'[r].open) \/ (calls[c].pc = "commit" /\ calls[c].run = r) =>
                   server'[r].manifest # None \/ (q.pc = "commit" /\ q.run = r)
    PROVE  ClosedRunsAreCommitted'
<1>1. /\ calls'[c] = q /\ \A d \in Calls : d # c => calls'[d] = calls[d]
      /\ q.kind = calls[c].kind
    BY AdvancesIs DEF Advances
<1>2. SUFFICES ASSUME NEW d \in Calls, Read(d)', ~Forgotten(calls[d].session)'
               PROVE  IF objs'[calls'[d].run].open THEN objs'[calls'[d].run].entries # 0
                      ELSE \/ server'[calls'[d].run].manifest # None
                           \/ \E p \in Calls : calls'[p].pc = "commit" /\ calls'[p].run = calls'[d].run
    BY DEF ClosedRunsAreCommitted
<1> DEFINE r == calls[d].run
<1>3. calls'[d] = calls[d] /\ Read(d)
    BY <1>1, <1>2 DEF Read
<1>4. ~Forgotten(calls[d].session)
    BY <1>2, <1>3, AdvancesIs
<1>5. r \in RunIds /\ objs[r] # None
    <2>1. calls[d] # Unused /\ IsPlaced(calls[d])
        BY <1>3, UsedIs DEF Placed, Read
    <2>2. r # None
        BY <1>3, <2>1 DEF Read, IsPlaced
    <2> QED
        BY <2>1, <2>2, CallIs, UsedIs DEF Refers
<1>6. IF objs[r].open THEN objs[r].entries # 0
      ELSE \/ server[r].manifest # None
           \/ \E p \in Calls : calls[p].pc = "commit" /\ calls[p].run = r
    BY <1>3, <1>4 DEF ClosedRunsAreCommitted
<1>7. CASE objs'[r].open
    <2>1. objs'[r].entries = objs[r].entries /\ objs[r].open
        BY <1>5, <1>7
    <2>2. objs'[r].entries # 0
        BY <1>6, <2>1
    <2> QED
        BY <1>3, <1>7, <2>2
<1>8. CASE ~objs'[r].open /\ objs[r].open
    BY <1>1, <1>3, <1>4, <1>8
<1>9. CASE ~objs'[r].open /\ ~objs[r].open
    <2>1. CASE server[r].manifest # None
        BY <1>3, <1>5, <1>9, <2>1
    <2>2. ASSUME NEW p \in Calls, calls[p].pc = "commit", calls[p].run = r
          PROVE  \/ server'[r].manifest # None
                 \/ \E u \in Calls : calls'[u].pc = "commit" /\ calls'[u].run = r
        BY <1>1, <1>3, <1>4, <2>2
    <2> QED
        BY <1>3, <1>6, <1>9, <2>1, <2>2
<1> QED
    BY <1>7, <1>8, <1>9

LEMMA DisposalsStay ==
    ASSUME Typed, Placed, Refers, DisposalCommits,
           NEW c \in Calls, NEW q, Advances(c, q),
           \A r \in RunIds : objs[r] # None /\ server[r].manifest # None =>
               server'[r].manifest # None,
           q.kind = "resolve" => q.answer # "ok" \/ Waits(c),
           Waits(c) \/ q.pc = "done",
           q.kind = "end" =>
               \A d \in calls[c].before : Of(d, calls[c].session) =>
                   /\ ~Waits(d)
                   /\ Read(d) => \/ server'[calls[d].run].manifest # None
                                 \/ q.pc = "commit" /\ q.run = calls[d].run
    PROVE  DisposalCommits'
<1>1. /\ calls'[c] = q /\ \A d \in Calls : d # c => calls'[d] = calls[d]
      /\ q.kind = calls[c].kind /\ q.session = calls[c].session /\ q.before = calls[c].before
      /\ q.pc # "queued" /\ calls[c].kind # "none" /\ calls[c].pc # "done"
    BY AdvancesIs DEF Advances
<1>2. \A e, f \in Calls : calls'[e].kind = "end" /\ calls'[f].kind = "end"
                            /\ calls'[e].session = calls'[f].session => e = f
    BY <1>1 DEF DisposalCommits
<1>3. ASSUME NEW e \in Calls, calls'[e].kind = "end", calls'[e].pc # "queued",
             NEW d \in calls'[e].before, Of(d, calls[e].session)'
      PROVE  /\ ~Waits(d)'
             /\ Read(d)' => \/ server'[calls'[d].run].manifest # None
                            \/ calls'[e].pc = "commit" /\ calls'[e].run = calls'[d].run
    <2>1. /\ calls[e].kind = "end" /\ calls'[e].before = calls[e].before
          /\ calls'[e].session = calls[e].session /\ calls[e] # Unused
          /\ calls[e].before \subseteq Calls
        BY <1>1, <1>3, CallIs DEF Unused
    <2>2. d \in calls[e].before /\ d \in Calls /\ Of(d, calls[e].session)
          /\ calls[d].kind = "resolve"
        BY <1>1, <1>3, <2>1 DEF Of, Refers
    <2>3. ASSUME Read(d) PROVE calls[d].run \in RunIds /\ objs[calls[d].run] # None
        <3>1. calls[d] # Unused /\ IsPlaced(calls[d])
            BY <2>2, UsedIs DEF Placed
        <3>2. calls[d].run # None
            BY <2>3, <3>1 DEF Read, IsPlaced
        <3> QED
            BY <2>2, <3>1, <3>2, CallIs, UsedIs DEF Refers
    <2>4. CASE e = c
        <3>1. d # c
            BY <1>1, <1>3, <2>2, <2>4
        <3> QED
            BY <1>1, <1>3, <2>1, <2>2, <2>4, <3>1 DEF Waits, HasBegun, Read
    <2>5. CASE e # c
        <3>1. /\ ~Waits(d)
              /\ Read(d) => \/ server[calls[d].run].manifest # None
                            \/ calls[e].pc = "commit" /\ calls[e].run = calls[d].run
            BY <1>1, <1>3, <2>1, <2>2, <2>5 DEF DisposalCommits
        <3>2. ~Waits(d)' /\ (Read(d)' => Read(d) /\ calls'[d].run = calls[d].run)
            <4>1. CASE d = c
                <5>1. q.pc = "done" /\ q.answer # "ok" /\ calls'[d] = q
                    BY <1>1, <2>2, <3>1, <4>1
                <5> QED
                    BY <5>1 DEF Waits, HasBegun, Read
            <4>2. CASE d # c
                BY <1>1, <2>2, <3>1, <4>2 DEF Waits, HasBegun, Read
            <4> QED
                BY <4>1, <4>2
        <3> QED
            BY <1>1, <2>3, <2>5, <3>1, <3>2
    <2> QED
        BY <2>4, <2>5
<1> QED
    BY <1>2, <1>3 DEF DisposalCommits

LEMMA CloseIInv ==
    ASSUME SessionsIInv, NEW c \in Calls, Close(c)
    PROVE  SessionsIInv'
<1> DEFINE s == calls[c].session
           r == states[s]
<1>0. Typed /\ Placed /\ Refers /\ OwnersAgree /\ Chained /\ OpenRunsAreCurrent
    BY DEF SessionsIInv
<1>1. /\ Begins(c) /\ calls[c].pc = "queued" /\ calls[c].kind \notin {"none", "resolve"}
      /\ UNCHANGED <<server, states, tail, unloading>>
      /\ Waits(c) /\ calls[c].run \in RunIds \cup {None} /\ calls[c].target \in RunIds \cup {None}
    BY <1>0, UsedIs, CallIs DEF Close, Begins, Waits
<1>2. s \in Sessions /\ calls[c] # Unused /\ IsPlaced(calls[c]) /\ Of(c, s)
    BY <1>0, <1>1, CallIs, UsedIs DEF Placed, IsPlaced, Of
<1>3. r \in {None} \cup RunIds /\ (r # None => objs[r] # None)
    BY <1>0, <1>2 DEF Typed, Refers
<1>4. ASSUME NEW q, Advances(c, q), q.pc \in {"forget", "direct", "get", "done", "commit"},
             q.run # None => objs[q.run] # None, calls[c].kind = "end" => q.pc \in {"commit", "forget"},
             IF IsOpen(r)
             THEN /\ objs' = [objs EXCEPT ![r].open = FALSE]
                  /\ objs[r].entries # 0 => q.pc = "commit"
             ELSE objs' = objs,
             q.pc = "commit" => q.run = r /\ IsOpen(r)
      PROVE  SessionsIInv'
    <2>1. /\ q.session = s /\ q.kind = calls[c].kind /\ q.target = calls[c].target
          /\ calls[c].before \in SUBSET Calls
        BY <1>0, <1>1, <1>4, CallIs DEF Advances
    <2>2. objs \in [RunIds -> {None} \cup SessionStates]
        BY <1>0 DEF Typed
    <2>3. /\ objs' \in [RunIds -> {None} \cup SessionStates]
          /\ \A x \in RunIds :
                /\ objs'[x] # None <=> objs[x] # None
                /\ objs[x] # None =>
                      /\ objs'[x].epoch = objs[x].epoch /\ objs'[x].entries = objs[x].entries
                      /\ \/ objs'[x].open = objs[x].open
                         \/ ~objs'[x].open /\ Begins(c) /\ x = states[calls[c].session]
          /\ r # None => ~objs'[r].open
        <3>1. CASE ~IsOpen(r)
            BY <1>3, <1>4, <2>2, <3>1 DEF IsOpen
        <3>2. CASE IsOpen(r)
            <4> DEFINE o == [objs[r] EXCEPT !.open = FALSE]
            <4>1. r \in RunIds /\ objs[r] # None /\ objs[r] \in SessionStates
                BY <1>3, <2>2, <3>2 DEF IsOpen
            <4>2. /\ o \in SessionStates /\ o.open = FALSE /\ o.epoch = objs[r].epoch
                  /\ o.entries = objs[r].entries
                BY <4>1 DEF SessionStates
            <4>3. objs' = [objs EXCEPT ![r] = o]
                BY <1>4, <3>2
            <4>4. o # None
                BY <4>2, NoneIsNothing
            <4> HIDE DEF o
            <4> QED
                BY <1>1, <2>2, <4>1, <4>2, <4>3, <4>4
        <3> QED
            BY <3>1, <3>2
    <2>4. \A d \in Calls : IsUser(d, r) /\ r # None => calls[d].session = s
        BY <1>0, <1>2 DEF OwnersAgree
    <2>5. q.pc = "commit" =>
              /\ ~objs'[q.run].open
              /\ \A d \in Calls : IsUser(d, q.run) => calls[d].session = q.session
        BY <1>3, <1>4, <2>1, <2>3, <2>4 DEF IsOpen
    <2>6. ASSUME q.pc = "direct", NEW d \in Calls, IsUser(d, q.target),
                 ~Forgotten(calls[d].session)
          PROVE  ~objs'[q.target].open
        <3>1. q.kind = "commit" /\ q.target # None /\ q.target \in RunIds /\ objs[q.target] # None
            <4>1. IsPlaced(q)
                BY <1>4 DEF Advances
            <4>2. q.kind = "commit" /\ q.target # None
                BY <2>6, <4>1 DEF IsPlaced
            <4> QED
                BY <1>0, <1>1, <1>2, <2>1, <4>2 DEF Refers
        <3>2. PICK x \in Calls : IsUser(x, q.target) /\ calls[x].session = s
            BY <1>0, <1>1, <2>1, <3>1 DEF OwnersAgree
        <3>3. calls[d].session = s
            BY <1>0, <2>6, <3>1, <3>2 DEF OwnersAgree
        <3>4. ASSUME objs[q.target].open PROVE q.target = r
            BY <1>0, <2>6, <3>1, <3>3, <3>4 DEF OpenRunsAreCurrent, IsOpen, IsUser
        <3> QED
            BY <2>3, <3>1, <3>4
    <2>7. ASSUME ~Faults PROVE ClosedRunsAreCommitted'
        <3>1. ClosedRunsAreCommitted
            BY <2>7 DEF SessionsIInv
        <3>2. ASSUME NEW d \in Calls, Read(d), ~Forgotten(calls[d].session),
                     objs[calls[d].run].open, ~objs'[calls[d].run].open
              PROVE  q.pc = "commit" /\ q.run = calls[d].run
            <4>1. calls[d].run \in RunIds /\ objs[calls[d].run] # None
                <5>1. calls[d] # Unused /\ IsPlaced(calls[d])
                    BY <1>0, <3>2, UsedIs DEF Placed, Read
                <5>2. calls[d].run # None
                    BY <3>2, <5>1 DEF Read, IsPlaced
                <5> QED
                    BY <1>0, <5>1, <5>2, CallIs, UsedIs DEF Refers
            <4>2. calls[d].run = r
                BY <2>3, <3>2, <4>1
            <4>3. objs[r].entries # 0
                BY <3>1, <3>2, <4>2 DEF ClosedRunsAreCommitted
            <4> QED
                BY <1>4, <3>2, <4>1, <4>2, <4>3, NoneIsNothing DEF IsOpen
        <3>3. /\ \A x \in RunIds : objs[x] # None =>
                    /\ objs'[x].entries = objs[x].entries /\ (objs'[x].open => objs[x].open)
                    /\ server[x].manifest # None => server'[x].manifest # None
              /\ \A d \in Calls : Read(d) /\ ~Forgotten(calls[d].session) =>
                    LET x == calls[d].run IN
                    (objs[x].open /\ ~objs'[x].open) \/ (calls[c].pc = "commit" /\ calls[c].run = x) =>
                        server'[x].manifest # None \/ (q.pc = "commit" /\ q.run = x)
            BY <1>1, <2>3, <3>2
        <3> QED
            BY <1>0, <1>1, <1>4, <3>1, <3>3, ClosedRunsStay
    <2>8. ASSUME ~Faults, MaxEnds = 1 PROVE DisposalCommits'
        <3>1. ClosedRunsAreCommitted /\ DisposalCommits
            BY <2>8 DEF SessionsIInv
        <3>2. ASSUME q.kind = "end", NEW d \in calls[c].before, Of(d, s)
              PROVE  /\ ~Waits(d)
                     /\ Read(d) => \/ server'[calls[d].run].manifest # None
                                   \/ q.pc = "commit" /\ q.run = calls[d].run
            <4>1. ~Forgotten(s)
                <5> SUFFICES ASSUME NEW e \in Calls, calls[e].kind = "end", calls[e].session = s,
                                    calls[e].pc = "done"
                             PROVE  FALSE
                    BY DEF Forgotten
                <5>1. e = c
                    BY <2>1, <3>1, <3>2 DEF DisposalCommits
                <5> QED
                    BY <1>1, <5>1
            <4>2. d \in Calls /\ calls[c].kind = "end"
                BY <2>1, <3>2
            <4>3. ~Waits(d)
                BY <1>0, <1>1, <1>2, <3>2, <4>1, <4>2, BeforeIsSettled
            <4>4. ASSUME Read(d)
                  PROVE  \/ server'[calls[d].run].manifest # None
                         \/ q.pc = "commit" /\ q.run = calls[d].run
                <5>1. /\ calls[d].kind = "resolve" /\ calls[d].session = s
                      /\ calls[d].run \in RunIds /\ calls[d].run # None
                    <6>1. calls[d] # Unused /\ IsPlaced(calls[d])
                        BY <1>0, <4>2, <4>4, UsedIs DEF Placed, Read
                    <6> QED
                        BY <1>0, <3>2, <4>2, <4>4, <6>1, CallIs, UsedIs DEF Read, IsPlaced, Of
                <5>2. CASE objs[calls[d].run].open
                    <6>1. r = calls[d].run /\ IsOpen(r)
                        BY <1>0, <4>1, <4>2, <5>1, <5>2 DEF OpenRunsAreCurrent, IsOpen
                    <6>2. objs[r].entries # 0
                        BY <3>1, <4>1, <4>2, <4>4, <5>1, <5>2, <6>1 DEF ClosedRunsAreCommitted
                    <6> QED
                        BY <1>4, <6>1, <6>2
                <5>3. ASSUME ~objs[calls[d].run].open,
                             NEW p \in Calls, calls[p].pc = "commit", calls[p].run = calls[d].run
                      PROVE  FALSE
                    <6>1. calls[p].session = s
                        BY <1>0, <4>2, <5>1, <5>3 DEF OwnersAgree, IsUser
                    <6>2. Of(p, s) /\ HasBegun(p)
                        BY <1>0, <5>3, <6>1, UsedIs DEF Of, HasBegun
                    <6>3. p = c
                        BY <1>0, <1>1, <1>2, <4>1, <6>2, OneAtATime
                    <6> QED
                        BY <1>1, <5>3, <6>3
                <5>4. CASE ~objs[calls[d].run].open
                    BY <1>1, <3>1, <4>1, <4>2, <4>4, <5>1, <5>3, <5>4 DEF ClosedRunsAreCommitted
                <5> QED
                    BY <5>2, <5>4
            <4> QED
                BY <4>3, <4>4
        <3>3. q.kind # "resolve" /\ Waits(c)
            BY <1>1, <2>1
        <3> QED
            BY <1>0, <1>1, <1>4, <3>1, <3>2, <3>3, DisposalsStay
    <2>9. r # None => ~objs'[r].open
        BY <2>3
    <2>10. /\ server' \in [RunIds -> {None} \cup ServerRuns] /\ calls[c].pc # "forget"
           /\ calls[c].kind # "resolve" /\ ~Waits(c) => q.pc = "done"
        BY <1>0, <1>1 DEF Typed
    <2>11. \A x \in RunIds :
               /\ server'[x] # None <=> server[x] # None
               /\ server[x] # None => /\ server'[x].mounts = server[x].mounts
                                      /\ server'[x].manifest = server[x].manifest
        BY <1>1
    <2> QED
        BY <1>1, <1>4, <2>3, <2>5, <2>6, <2>7, <2>8, <2>9, <2>10, <2>11, CommitterIInv
<1>5. CASE ~IsOpen(r)
    <2>1. Committed(c, None) /\ objs' = objs
        BY <1>5 DEF Close
    <2>2. PICK q : /\ Advances(c, q) /\ q.run = calls[c].run
                   /\ q.pc \in {"forget", "direct", "get", "done"} /\ (q.kind = "end" => q.pc = "forget")
        BY <1>0, <1>1, <2>1, CommittedIs
    <2>3. q.kind = calls[c].kind
        BY <2>2 DEF Advances
    <2>4. q.run # None => objs[q.run] # None
        BY <1>0, <1>2, <2>2 DEF Refers
    <2> QED
        BY <1>4, <1>5, <2>1, <2>2, <2>3, <2>4
<1>6. CASE IsOpen(r) /\ objs[r].entries = 0
    <2>1. Committed(c, None) /\ objs' = [objs EXCEPT ![r].open = FALSE]
        BY <1>6 DEF Close
    <2>2. PICK q : /\ Advances(c, q) /\ q.run = calls[c].run
                   /\ q.pc \in {"forget", "direct", "get", "done"} /\ (q.kind = "end" => q.pc = "forget")
        BY <1>0, <1>1, <2>1, CommittedIs
    <2>3. q.kind = calls[c].kind
        BY <2>2 DEF Advances
    <2>4. q.run # None => objs[q.run] # None
        BY <1>0, <1>2, <2>2 DEF Refers
    <2> QED
        BY <1>4, <1>6, <2>1, <2>2, <2>3, <2>4
<1>7. CASE IsOpen(r) /\ objs[r].entries # 0
    <2> DEFINE q == [calls[c] EXCEPT !.pc = "commit", !.run = r]
    <2>1. calls' = [calls EXCEPT ![c] = q] /\ objs' = [objs EXCEPT ![r].open = FALSE]
        BY <1>7 DEF Close, Becomes
    <2>2. /\ calls[c] \in CallRecords /\ "commit" \in Pcs /\ r \in RunIds /\ r # None
        BY <1>0, <1>1, <1>3, <1>7, CallIs DEF Pcs, IsOpen
    <2>3. /\ q \in CallRecords /\ q.pc = "commit" /\ q.run = r /\ q.answer = calls[c].answer
          /\ q.kind = calls[c].kind
          /\ q.session = calls[c].session /\ q.target = calls[c].target
          /\ q.after = calls[c].after /\ q.before = calls[c].before
        BY <2>2 DEF CallRecords
    <2> HIDE DEF q
    <2>4. IsPlaced(q)
        BY <1>1, <1>2, <2>2, <2>3 DEF IsPlaced
    <2>5. Advances(c, q)
        BY <1>1, <2>1, <2>3, <2>4 DEF Advances
    <2> QED
        BY <1>3, <1>4, <1>7, <2>1, <2>2, <2>3, <2>5
<1> QED
    BY <1>5, <1>6, <1>7

LEMMA ManifestedIs ==
    ASSUME Typed, NEW r \in RunIds, server[r] # None, Manifested(r)
    PROVE  /\ server' \in [RunIds -> {None} \cup ServerRuns]
           /\ server'[r] # None /\ server'[r].mounts = server[r].mounts
           /\ server'[r].manifest = Len(server[r].mounts) /\ server'[r].manifest # None
           /\ \A x \in RunIds : x # r => server'[x] = server[x]
<1> DEFINE run == [server[r] EXCEPT !.manifest = Len(server[r].mounts)]
<1>1. server \in [RunIds -> {None} \cup ServerRuns] /\ server[r] \in ServerRuns
    BY DEF Typed
<1>2. Len(server[r].mounts) \in Nat
    BY <1>1 DEF ServerRuns
<1>3. /\ run \in ServerRuns /\ run.mounts = server[r].mounts
      /\ run.manifest = Len(server[r].mounts)
    BY <1>1, <1>2 DEF ServerRuns
<1>4. server' = [server EXCEPT ![r] = run]
    BY DEF Manifested
<1>5. run # None /\ run.manifest # None
    BY <1>2, <1>3, NoneIsNothing
<1> HIDE DEF run
<1> QED
    BY <1>1, <1>3, <1>4, <1>5

\* A call that gives a closed run its manifest, or does nothing to it.
LEMMA ManifestIInv ==
    ASSUME SessionsIInv, NEW c \in Calls, NEW q, Advances(c, q), q.run = calls[c].run,
           calls[c].kind # "resolve", calls[c].pc \in {"commit", "direct", "get"},
           q.pc \in {"done", "forget", "get"}, calls[c].pc # "commit" => q.pc = "done",
           q.kind = "end" => calls[c].pc = "commit",
           NEW r \in RunIds, objs[r] # None,
           calls[c].pc = "commit" => r = calls[c].run,
           \/ server' = server
           \/ /\ server[r].manifest = None /\ Manifested(r)
              /\ \A d \in Calls :
                    IsUser(d, r) /\ ~Forgotten(calls[d].session) => ~objs[r].open,
           calls[c].pc = "commit" /\ ~Faults => server'[r].manifest # None,
           UNCHANGED <<objs, states, tail, unloading>>
    PROVE  SessionsIInv'
<1>0. Typed /\ Placed /\ Refers /\ OwnersAgree
    BY DEF SessionsIInv
<1>1. server[r] # None
    BY <1>0 DEF Refers
<1>2. /\ server' \in [RunIds -> {None} \cup ServerRuns]
      /\ \A x \in RunIds :
            /\ server'[x] # None <=> server[x] # None
            /\ server[x] # None =>
                  /\ server'[x].mounts = server[x].mounts
                  /\ server[x].manifest # None => server'[x].manifest # None
                  /\ \/ server'[x].manifest = server[x].manifest
                     \/ /\ server'[x].manifest = Len(server[x].mounts)
                        /\ server[x].manifest = None
                        /\ \A d \in Calls :
                              IsUser(d, x) /\ ~Forgotten(calls[d].session) => ~objs[x].open
    <2>1. CASE server' = server
        BY <1>0, <2>1 DEF Typed
    <2>2. CASE server' # server
        <3>1. /\ server[r].manifest = None /\ Manifested(r)
              /\ \A d \in Calls :
                    IsUser(d, r) /\ ~Forgotten(calls[d].session) => ~objs[r].open
            BY <2>2
        <3> QED
            BY <1>0, <1>1, <3>1, ManifestedIs
    <2> QED
        BY <2>1, <2>2
<1>3. /\ \A x \in RunIds : objs'[x] = objs[x] /\ (objs[x] # None => server[x] # None)
      /\ objs' \in [RunIds -> {None} \cup SessionStates]
    BY <1>0 DEF Typed, Refers
<1>4. calls[c].kind # "none" /\ calls[c] # Unused /\ q.kind = calls[c].kind /\ q.pc # "direct"
      /\ q.pc # "commit" /\ q.answer \in {None, "ok", "failed", "not_found"} \cup RunIds
    BY DEF Advances, Unused, CallRecords
<1>5. q.run # None => objs[q.run] # None
    BY <1>0, <1>4 DEF Refers
<1>6. Waits(c) <=> calls[c].pc = "commit"
    BY DEF Waits, HasBegun
<1>7. ASSUME ~Faults PROVE ClosedRunsAreCommitted'
    <2>1. ClosedRunsAreCommitted
        BY <1>7 DEF SessionsIInv
    <2>2. /\ \A x \in RunIds : objs[x] # None =>
                /\ objs'[x].entries = objs[x].entries /\ (objs'[x].open => objs[x].open)
                /\ server[x].manifest # None => server'[x].manifest # None
          /\ \A d \in Calls : Read(d) /\ ~Forgotten(calls[d].session) =>
                LET x == calls[d].run IN
                (objs[x].open /\ ~objs'[x].open) \/ (calls[c].pc = "commit" /\ calls[c].run = x) =>
                    server'[x].manifest # None \/ (q.pc = "commit" /\ q.run = x)
        BY <1>2, <1>3, <1>7
    <2> QED
        BY <1>0, <2>1, <2>2, ClosedRunsStay
<1>8. ASSUME ~Faults, MaxEnds = 1 PROVE DisposalCommits'
    <2>1. DisposalCommits
        BY <1>8 DEF SessionsIInv
    <2>2. ASSUME q.kind = "end", NEW d \in calls[c].before, Of(d, calls[c].session)
          PROVE  /\ ~Waits(d)
                 /\ Read(d) => \/ server'[calls[d].run].manifest # None
                               \/ q.pc = "commit" /\ q.run = calls[d].run
        <3>1. /\ ~Waits(d)
              /\ Read(d) => \/ server[calls[d].run].manifest # None
                            \/ calls[c].run = calls[d].run
            BY <1>4, <2>1, <2>2 DEF DisposalCommits
        <3>2. d \in Calls
            BY <1>0, <1>4, <2>2, CallIs
        <3>3. ASSUME Read(d) PROVE calls[d].run \in RunIds /\ objs[calls[d].run] # None
            <4>1. calls[d] # Unused /\ IsPlaced(calls[d])
                BY <1>0, <3>2, <3>3, UsedIs DEF Placed, Read
            <4>2. calls[d].run # None
                BY <3>3, <4>1 DEF Read, IsPlaced
            <4> QED
                BY <1>0, <3>2, <4>1, <4>2, CallIs, UsedIs DEF Refers
        <3> QED
            BY <1>2, <1>3, <1>4, <1>8, <2>2, <3>1, <3>3
    <2>3. \A x \in RunIds : objs[x] # None /\ server[x].manifest # None => server'[x].manifest # None
        BY <1>2, <1>3
    <2>4. q.kind # "resolve" /\ (Waits(c) \/ q.pc = "done")
        BY <1>4, <1>6
    <2> QED
        BY <1>0, <2>1, <2>2, <2>3, <2>4, DisposalsStay
<1>9. ~Begins(c) /\ calls[c].pc # "queued" /\ (Waits(c) => HasBegun(c)) /\ (~Waits(c) => q.pc = "done")
    BY <1>6 DEF Begins, Waits, HasBegun
<1>10. \A x \in RunIds :
          /\ server'[x] # None <=> server[x] # None
          /\ server[x] # None =>
                /\ server'[x].mounts = server[x].mounts
                /\ \/ server'[x].manifest = server[x].manifest
                   \/ /\ server'[x].manifest = Len(server[x].mounts)
                      /\ server[x].manifest = None
                      /\ \A d \in Calls :
                            IsUser(d, x) /\ ~Forgotten(calls[d].session) => ~objs[x].open
    BY <1>2
<1> QED
    BY <1>2, <1>3, <1>4, <1>5, <1>7, <1>8, <1>9, <1>10, CommitterIInv

LEMMA CommitIInv ==
    ASSUME SessionsIInv, NEW c \in Calls,
           Commit(c) \/ (Faults /\ calls[c].pc = "commit" /\ Lose(c))
    PROVE  SessionsIInv'
<1> DEFINE r == calls[c].run
<1>0. Typed /\ Placed /\ Refers /\ OwnersAgree
    BY DEF SessionsIInv
<1>1. calls[c].pc = "commit" /\ UNCHANGED <<objs, states, tail, unloading>>
    BY DEF Commit, Lose
<1>2. calls[c].kind \notin {"none", "resolve"} /\ r \in RunIds /\ objs[r] # None /\ server[r] # None
      /\ calls[c] # Unused
    <2>1. calls[c] # Unused /\ IsPlaced(calls[c])
        BY <1>0, <1>1, UsedIs DEF Placed
    <2> QED
        BY <1>0, <1>1, <2>1, CallIs, UsedIs DEF IsPlaced, Refers
<1>3. ~objs[r].open
    BY <1>0, <1>1 DEF OwnersAgree
<1>4. CASE Commit(c) /\ server[r].manifest # None
    <2>1. Thrown(c) /\ server' = server
        BY <1>4 DEF Commit
    <2>2. PICK q : /\ Advances(c, q) /\ q.run = calls[c].run
                   /\ q.pc = IF q.kind = "end" THEN "forget" ELSE "done"
        BY <1>0, <1>1, <1>2, <2>1, ThrownIs
    <2> QED
        BY <1>1, <1>2, <1>4, <2>1, <2>2, ManifestIInv
<1>5. CASE Commit(c) /\ server[r].manifest = None
    <2>1. Committed(c, r) /\ Manifested(r)
        BY <1>5 DEF Commit
    <2>2. PICK q : /\ Advances(c, q) /\ q.run = calls[c].run
                   /\ q.pc \in {"forget", "direct", "get", "done"}
                   /\ q.kind = "end" => q.pc = "forget"
                   /\ q.pc = "direct" => r = None
        BY <1>0, <1>1, <1>2, <2>1, CommittedIs
    <2>3. server'[r].manifest # None
        BY <1>0, <1>2, <2>1, ManifestedIs
    <2>4. q.pc \in {"done", "forget", "get"}
        BY <1>2, <2>2, NoneIsNothing
    <2> QED
        BY <1>1, <1>2, <1>3, <1>5, <2>1, <2>2, <2>3, <2>4, ManifestIInv
<1>6. CASE Faults /\ Lose(c)
    <2>1. Thrown(c) /\ (server' = server \/ (server[r].manifest = None /\ Manifested(r)))
        BY <1>1, <1>6 DEF Lose
    <2>2. PICK q : /\ Advances(c, q) /\ q.run = calls[c].run
                   /\ q.pc = IF q.kind = "end" THEN "forget" ELSE "done"
        BY <1>0, <1>1, <1>2, <2>1, ThrownIs
    <2> QED
        BY <1>1, <1>2, <1>3, <1>6, <2>1, <2>2, ManifestIInv
<1> QED
    BY <1>4, <1>5, <1>6

\* The manifest of a run that is named to a tool: the run is closed, or it is of a
\* session that was forgotten.
LEMMA DirectIInv ==
    ASSUME SessionsIInv, NEW c \in Calls,
           Direct(c) \/ (Faults /\ calls[c].pc = "direct" /\ Lose(c))
    PROVE  SessionsIInv'
<1> DEFINE r == calls[c].target
<1>0. Typed /\ Placed /\ Refers /\ OpenRunsAreCurrent
    BY DEF SessionsIInv
<1>1. calls[c].pc = "direct" /\ UNCHANGED <<objs, states, tail, unloading>>
    BY DEF Direct, Lose
<1>2. calls[c].kind = "commit" /\ r \in RunIds /\ objs[r] # None /\ server[r] # None
    <2>1. calls[c] # Unused /\ IsPlaced(calls[c])
        BY <1>0, <1>1, UsedIs DEF Placed
    <2> QED
        BY <1>0, <1>1, <2>1, CallIs, UsedIs DEF IsPlaced, Refers
<1>3. \A d \in Calls : IsUser(d, r) /\ ~Forgotten(calls[d].session) => ~objs[r].open
    BY <1>0, <1>1, <1>2, NoneIsNothing DEF OpenRunsAreCurrent, IsUser, IsOpen
<1>4. /\ Done(c, r) \/ Done(c, "failed")
      /\ server' = server \/ (server[r].manifest = None /\ Manifested(r))
    BY <1>1, <1>2 DEF Direct, Lose
<1>5. PICK q : Advances(c, q) /\ q.pc = "done" /\ q.run = calls[c].run
    BY <1>0, <1>1, <1>2, <1>4, DoneIs
<1>6. q.kind = "commit"
    BY <1>2, <1>5 DEF Advances
<1> QED
    BY <1>1, <1>2, <1>3, <1>4, <1>5, <1>6, ManifestIInv

LEMMA GetManifestIInv ==
    ASSUME SessionsIInv, NEW c \in Calls,
           GetManifest(c) \/ (Faults /\ calls[c].pc = "get" /\ Lose(c))
    PROVE  SessionsIInv'
<1> DEFINE r == calls[c].target
           answer == IF ~GetManifest(c) THEN "failed"
                     ELSE IF server[r].manifest # None THEN r ELSE "not_found"
<1>0. Typed /\ Placed /\ Refers
    BY DEF SessionsIInv
<1>1. calls[c].pc = "get" /\ UNCHANGED <<server, objs, states, tail, unloading>>
      /\ Done(c, answer)
    <2>1. CASE GetManifest(c)
        BY <2>1 DEF GetManifest
    <2>2. CASE ~GetManifest(c)
        BY <2>2 DEF Lose
    <2> QED
        BY <2>1, <2>2
<1>2. calls[c].kind = "manifest" /\ r \in RunIds /\ objs[r] # None
    <2>1. calls[c] # Unused /\ IsPlaced(calls[c])
        BY <1>0, <1>1, UsedIs DEF Placed
    <2> QED
        BY <1>0, <1>1, <2>1, CallIs, UsedIs DEF IsPlaced, Refers
<1>3. answer \in {None, "ok", "failed", "not_found"} \cup RunIds
    BY <1>2
<1> HIDE DEF answer
<1>4. PICK q : Advances(c, q) /\ q.pc = "done" /\ q.run = calls[c].run
    BY <1>0, <1>1, <1>2, <1>3, DoneIs
<1>5. q.kind = "manifest"
    BY <1>2, <1>4 DEF Advances
<1> QED
    BY <1>1, <1>2, <1>4, <1>5, ManifestIInv

\* A session that is forgotten has nothing more to answer for.
LEMMA ForgetIInv ==
    ASSUME SessionsIInv, NEW c \in Calls, Forget(c)
    PROVE  SessionsIInv'
<1>0. Typed /\ Placed /\ Refers /\ EpochsAreBounded /\ OwnersAgree /\ Chained
      /\ OpenRunsAreCurrent /\ PositionsAreSo /\ UnloadIsOnItsWay
    BY DEF SessionsIInv
<1> PICK s : s = calls[c].session
    OBVIOUS
<1>1. /\ calls[c].pc = "forget" /\ UNCHANGED <<server, objs, unloading>>
      /\ states' = [states EXCEPT ![s] = None] /\ tail' = [tail EXCEPT ![s] = None]
      /\ Done(c, None)
    BY DEF Forget
<1>2. calls[c].kind = "end" /\ s \in Sessions /\ calls[c].kind # "none"
    <2>1. calls[c] # Unused /\ IsPlaced(calls[c])
        BY <1>0, <1>1, UsedIs DEF Placed
    <2> QED
        BY <1>0, <1>1, <2>1, CallIs, UsedIs DEF IsPlaced
<1> DEFINE q == [calls[c] EXCEPT !.pc = "done", !.answer = None]
<1>3. /\ q \in CallRecords /\ q.pc = "done" /\ q.answer = None
      /\ q.run = calls[c].run /\ q.kind = calls[c].kind
      /\ q.session = calls[c].session /\ q.target = calls[c].target
      /\ q.after = calls[c].after /\ q.before = calls[c].before
    <2>1. calls[c] \in CallRecords /\ "done" \in Pcs
        BY <1>0, <1>2, CallIs DEF Pcs
    <2> QED
        BY <2>1 DEF CallRecords
<1>4. calls' = [calls EXCEPT ![c] = q]
    BY <1>1 DEF Done, Becomes
<1> HIDE DEF q
<1>5. IsPlaced(q)
    BY <1>2, <1>3, NoneIsNothing DEF IsPlaced
<1>6. Advances(c, q)
    BY <1>1, <1>2, <1>3, <1>4, <1>5 DEF Advances
<1>7. /\ calls' \in [Calls -> {Unused} \cup CallRecords] /\ Placed'
      /\ calls'[c] = q /\ \A d \in Calls : d # c => calls'[d] = calls[d]
      /\ \A t : Forgotten(t) => Forgotten(t)'
    BY <1>0, <1>6, AdvancesIs
<1>8. states \in [Sessions -> {None} \cup RunIds] /\ tail \in [Sessions -> {None} \cup Calls]
    BY <1>0 DEF Typed
<1>9. /\ states' \in [Sessions -> {None} \cup RunIds] /\ states'[s] = None
      /\ tail' \in [Sessions -> {None} \cup Calls]
      /\ \A t \in Sessions : t # s => states'[t] = states[t] /\ tail'[t] = tail[t]
    BY <1>1, <1>2, <1>8
<1>10. Forgotten(s)'
    BY <1>2, <1>3, <1>7 DEF Forgotten
<1>11. \A d \in Calls :
          /\ calls'[d].kind = calls[d].kind /\ calls'[d].session = calls[d].session
          /\ calls'[d].target = calls[d].target /\ calls'[d].before = calls[d].before
          /\ calls'[d].run = calls[d].run /\ (calls'[d] = Unused <=> calls[d] = Unused)
          /\ calls'[d].pc # "done" => calls'[d] = calls[d] /\ d # c
          /\ calls[d].kind = "resolve" \/ calls'[d].kind = "resolve" =>
                d # c /\ calls'[d] = calls[d]
    BY <1>2, <1>3, <1>7 DEF Unused
<1>12. \A d \in Calls : \A r \in RunIds : IsUser(d, r)' <=> IsUser(d, r)
    BY <1>11 DEF IsUser
<1>13. \A t \in Sessions : states'[t] # None => t # s /\ states'[t] = states[t]
    BY <1>9
<1>14. Typed'
    BY <1>0, <1>1, <1>7, <1>9 DEF Typed
<1>15. Refers'
    <2>1. \A d \in Calls : calls[d] # Unused =>
             /\ calls[d].before \subseteq Calls
             /\ \A x \in calls[d].before : calls'[x].kind = "resolve"
        BY <1>0, <1>11, CallIs, UsedIs DEF Refers
    <2>2. \A t \in Sessions : states'[t] # None => objs'[states'[t]] # None
        BY <1>0, <1>1, <1>13 DEF Refers
    <2>3. \A d \in Calls : calls'[d] # Unused =>
             /\ calls'[d].run # None => objs'[calls'[d].run] # None
             /\ calls'[d].target # None => objs'[calls'[d].target] # None
             /\ \A x \in calls'[d].before : calls'[x].kind = "resolve"
        BY <1>0, <1>1, <1>11, <2>1 DEF Refers
    <2> QED
        BY <1>0, <1>1, <2>2, <2>3 DEF Refers
<1>16. EpochsAreBounded'
    <2>1. EpochsProbed <= EpochsProbed' /\ EpochsProbed \in Nat /\ EpochsProbed' \in Nat
        BY <1>11, EpochsGrow DEF HasProbed
    <2>2. \A r \in RunIds : objs'[r] # None => objs'[r].epoch \in 1 .. EpochsProbed'
        BY <1>0, <1>1, <2>1 DEF EpochsAreBounded
    <2>3. \A d \in Calls : calls'[d].pc = "start" =>
             /\ calls[d].pc = "start" /\ calls'[d] = calls[d]
             /\ calls[d].left \in Nat /\ calls[d].epoch \in Nat
        BY <1>0, <1>11, CallIs, UsedIs
    <2> QED
        BY <1>0, <2>1, <2>2, <2>3, ProbesArePositive DEF EpochsAreBounded
<1>17. OwnersAgree'
    <2>1. \A r \in RunIds : \A d, e \in Calls :
             (IsUser(d, r) /\ IsUser(e, r))' => calls'[d].session = calls'[e].session
        BY <1>0, <1>11, <1>12 DEF OwnersAgree
    <2>2. \A t \in Sessions : states'[t] # None =>
             /\ \A d \in Calls : IsUser(d, states[t])' => calls'[d].session = t
             /\ \A u \in Sessions : states'[u] = states'[t] => u = t
        BY <1>0, <1>11, <1>13 DEF OwnersAgree, IsUser
    <2>3. \A r \in RunIds : server'[r] # None =>
             \A i \in DOMAIN server'[r].mounts : IsUser(server[r].mounts[i], r)'
        <3> SUFFICES ASSUME NEW r \in RunIds, server[r] # None,
                            NEW i \in DOMAIN server[r].mounts
                     PROVE  IsUser(server[r].mounts[i], r)'
            BY <1>1
        <3>1. server[r].mounts[i] \in Calls
            BY <1>0 DEF Typed, ServerRuns
        <3>2. IsUser(server[r].mounts[i], r)
            BY <1>0 DEF OwnersAgree
        <3> QED
            BY <1>1, <1>11, <3>1, <3>2 DEF IsUser
    <2>4. \A p \in Calls : calls'[p].pc = "commit" =>
             /\ ~objs'[calls'[p].run].open
             /\ \A d \in Calls : IsUser(d, calls[p].run)' => calls'[d].session = calls'[p].session
        BY <1>0, <1>1, <1>11 DEF OwnersAgree, IsUser
    <2>5. \A p \in Calls : calls'[p].kind \in {"commit", "manifest"} =>
             \E d \in Calls :
                /\ IsUser(d, calls[p].target)'
                /\ calls'[p].pc = "queued" => calls'[d].session = calls'[p].session
        BY <1>0, <1>11 DEF OwnersAgree, IsUser
    <2> QED
        BY <2>1, <2>2, <2>3, <2>4, <2>5 DEF OwnersAgree
<1>18. Chained'
    <2>1. ~Waits(c)
        BY <1>1 DEF Waits, HasBegun
    <2>2. \A t \in Sessions : ~Forgotten(t)' => tail'[t] = tail[t]
        BY <1>9, <1>10
    <2> QED
        BY <1>0, <1>3, <1>6, <2>1, <2>2, ChainMoves
<1>19. \A d \in Calls : calls'[d].kind = "resolve" /\ ~Forgotten(calls[d].session)' =>
          /\ calls'[d] = calls[d] /\ calls[d].kind = "resolve" /\ ~Forgotten(calls[d].session)
          /\ calls[d].session \in Sessions /\ calls[d].session # s
          /\ states'[calls[d].session] = states[calls[d].session]
          /\ (Read(d)' <=> Read(d))
    <2> SUFFICES ASSUME NEW d \in Calls, calls'[d].kind = "resolve", ~Forgotten(calls[d].session)'
                 PROVE  /\ calls'[d] = calls[d] /\ calls[d].kind = "resolve"
                        /\ ~Forgotten(calls[d].session)
                        /\ calls[d].session \in Sessions /\ calls[d].session # s
                        /\ states'[calls[d].session] = states[calls[d].session]
                        /\ (Read(d)' <=> Read(d))
        OBVIOUS
    <2>1. calls'[d] = calls[d] /\ calls[d].kind = "resolve" /\ ~Forgotten(calls[d].session)
        BY <1>7, <1>11
    <2>2. calls[d].session \in Sessions
        BY <1>0, <2>1, CallIs, UsedIs DEF Placed, IsPlaced
    <2>3. calls[d].session # s
        BY <1>10, <2>1
    <2> QED
        BY <1>9, <2>1, <2>2, <2>3 DEF Read
<1>20. OpenRunsAreCurrent'
    BY <1>0, <1>1, <1>11, <1>19 DEF OpenRunsAreCurrent, IsOpen
<1>21. PositionsAreSo'
    BY <1>0, <1>1, <1>19 DEF PositionsAreSo
<1>22. UnloadIsOnItsWay'
    BY <1>0, <1>1, <1>7, <1>11, <1>13 DEF UnloadIsOnItsWay, IsOpen
<1>23. ASSUME ~Faults PROVE ClosedRunsAreCommitted'
    <2>1. ClosedRunsAreCommitted
        BY <1>23 DEF SessionsIInv
    <2> QED
        BY <1>0, <1>1, <1>2, <1>6, <2>1, ClosedRunsStay
<1>24. ASSUME ~Faults, MaxEnds = 1 PROVE DisposalCommits'
    <2>1. DisposalCommits
        BY <1>24 DEF SessionsIInv
    <2>2. \A d \in calls[c].before : Of(d, calls[c].session) =>
             /\ ~Waits(d)
             /\ Read(d) => server[calls[d].run].manifest # None
        BY <1>1, <1>2, <2>1 DEF DisposalCommits
    <2> QED
        BY <1>0, <1>1, <1>2, <1>3, <1>6, <2>1, <2>2, DisposalsStay
<1> QED
    BY <1>7, <1>14, <1>15, <1>16, <1>17, <1>18, <1>20, <1>21, <1>22, <1>23, <1>24 DEF SessionsIInv

-----------------------------------------------------------------------------
(* Resolves that go on *)

\* What a resolve finds of its call and of its session's run.
LEMMA ResolveIs ==
    ASSUME SessionsIInv, NEW c \in Calls, calls[c].kind = "resolve"
    PROVE  /\ calls[c] \in CallRecords /\ calls[c] # Unused /\ IsPlaced(calls[c])
           /\ calls[c].session \in Sessions
           /\ states[calls[c].session] \in {None} \cup RunIds
           /\ states[calls[c].session] # None =>
                 /\ objs[states[calls[c].session]] # None
                 /\ server[states[calls[c].session]] # None
           /\ calls[c].run \in {None} \cup RunIds
           /\ calls[c].run # None => objs[calls[c].run] # None /\ server[calls[c].run] # None
<1>0. Typed /\ Placed /\ Refers
    BY DEF SessionsIInv
<1>1. calls[c] # Unused /\ IsPlaced(calls[c]) /\ calls[c] \in CallRecords
    BY <1>0, UsedIs, CallIs DEF Placed
<1>2. calls[c].session \in Sessions /\ calls[c].run \in {None} \cup RunIds
    BY <1>0, <1>1, CallIs DEF IsPlaced
<1>3. states[calls[c].session] \in {None} \cup RunIds
    BY <1>0, <1>2 DEF Typed
<1> QED
    BY <1>0, <1>1, <1>2, <1>3 DEF Refers

\* A resolve that goes on may take up the open run of its session, get a new run
\* from the server or have its mount inserted, with or without an answer.
LEMMA ResolveGoesOn ==
    ASSUME SessionsIInv, NEW c \in Calls, NEW q, Advances(c, q),
           calls[c].kind = "resolve", Begins(c) \/ HasBegun(c),
           q.answer = "ok" =>
               /\ calls[c].pc = "append" /\ q.run = calls[c].run /\ q.told = calls[c].told
               /\ server'[q.run].mounts = Append(server[q.run].mounts, c)
               /\ server'[q.run].manifest = server[q.run].manifest
               /\ objs'[q.run].entries # 0,
           \/ q.run = calls[c].run
           \/ /\ calls[c].run = None
              /\ q.run = states[calls[c].session] /\ IsOpen(q.run),
           q.pc = "start" /\ ~Forgotten(calls[c].session) => ~IsOpen(states[calls[c].session]),
           q.pc \in {"mount", "append"} =>
               \/ calls[c].pc \in {"mount", "append"} /\ q.run = calls[c].run
               \/ q.run = states[calls[c].session] /\ IsOpen(q.run),
           q.pc = "append" =>
               q.told = Len(server'[q.run].mounts) /\ server'[q.run].manifest = None,
           server' \in [RunIds -> {None} \cup ServerRuns],
           \A r \in RunIds :
               \/ server'[r] = server[r]
               \/ server[r] = None /\ server'[r] = NewRun
               \/ /\ calls[c].pc = "append" /\ r = calls[c].run /\ q.pc = "done"
                  /\ server[r] # None /\ server'[r] # None
                  /\ server'[r].mounts = Append(server[r].mounts, c)
                  /\ server'[r].manifest = server[r].manifest,
           objs' \in [RunIds -> {None} \cup SessionStates],
           \A r \in RunIds :
               /\ objs'[r] # None <=> objs[r] # None
               /\ objs'[r] # None => /\ objs'[r].open = objs[r].open
                                     /\ objs'[r].entries = objs[r].entries \/ objs'[r].entries # 0,
           UNCHANGED <<states, tail, unloading>>,
           EpochsAreBounded'
    PROVE  SessionsIInv'
<1>0. Typed /\ Placed /\ Refers /\ EpochsAreBounded /\ OwnersAgree /\ Chained
      /\ OpenRunsAreCurrent /\ PositionsAreSo /\ UnloadIsOnItsWay
    BY DEF SessionsIInv
<1>1. /\ calls' \in [Calls -> {Unused} \cup CallRecords] /\ Placed'
      /\ calls'[c] = q /\ \A d \in Calls : d # c => calls'[d] = calls[d]
      /\ \A t : Forgotten(t) => Forgotten(t)'
    BY <1>0, AdvancesIs
<1>2. /\ q \in CallRecords /\ q.kind = "resolve" /\ q.session = calls[c].session
      /\ q.target = calls[c].target /\ q.before = calls[c].before /\ q.pc # "queued"
      /\ IsPlaced(q) /\ q.pc \notin {"commit", "direct", "forget", "get"}
    BY DEF Advances, IsPlaced
<1> PICK s : s = calls[c].session
    OBVIOUS
<1>3. /\ s \in Sessions /\ states[s] \in {None} \cup RunIds
      /\ states[s] # None => objs[states[s]] # None
      /\ calls[c].run \in {None} \cup RunIds /\ calls[c] # Unused
      /\ calls[c].run # None => objs[calls[c].run] # None
    BY ResolveIs
<1>4. /\ q.run \in {None} \cup RunIds /\ (q.run # None => objs[q.run] # None)
      /\ calls[c].run # None => q.run = calls[c].run
      /\ q.run # calls[c].run => q.run = states[s] /\ IsOpen(q.run)
    BY <1>3
<1>5. \A d \in Calls :
         /\ calls'[d].kind = calls[d].kind
         /\ calls[d].kind # "none" =>
               /\ calls'[d].session = calls[d].session /\ calls'[d].target = calls[d].target
               /\ calls'[d].before = calls[d].before
         /\ (calls'[d] = Unused <=> calls[d] = Unused)
         /\ calls[d].kind # "resolve" \/ calls'[d].kind # "resolve" => d # c /\ calls'[d] = calls[d]
    BY <1>1, <1>2, <1>3 DEF Unused
<1>6. \A d \in Calls : \A r \in RunIds :
         /\ IsUser(d, r) => IsUser(d, r)'
         /\ IsUser(d, r)' => \/ IsUser(d, r) /\ calls'[d].session = calls[d].session
                             \/ d = c /\ r = states[s] /\ IsOpen(r)
    <2>1. \A r \in RunIds : r # None
        BY NoneIsNothing
    <2> QED
        BY <1>1, <1>2, <1>4, <1>5, <2>1 DEF IsUser
<1>7. Typed'
    BY <1>0, <1>1 DEF Typed
<1>8. \A r \in RunIds : server[r] # None => server'[r] # None
    BY NoneIsNothing
<1>9. Refers'
    <2>1. \A d \in Calls : calls[d] # Unused =>
             /\ calls[d].before \subseteq Calls
             /\ \A x \in calls[d].before : calls'[x].kind = "resolve"
        BY <1>0, <1>5, CallIs, UsedIs DEF Refers
    <2>2. \A d \in Calls : calls'[d] # Unused =>
             /\ calls'[d].run # None => objs'[calls'[d].run] # None
             /\ calls'[d].target # None => objs'[calls'[d].target] # None
             /\ \A x \in calls'[d].before : calls'[x].kind = "resolve"
        <3> SUFFICES ASSUME NEW d \in Calls, calls'[d] # Unused
                     PROVE  /\ calls'[d].run # None => objs[calls'[d].run] # None
                            /\ calls'[d].target # None => objs[calls'[d].target] # None
                            /\ \A x \in calls'[d].before : calls'[x].kind = "resolve"
            <4>1. \A d \in Calls : calls'[d] # Unused =>
                     /\ calls'[d].run \in {None} \cup RunIds
                     /\ calls'[d].target \in {None} \cup RunIds
                BY <1>1 DEF CallRecords
            <4> QED
                BY <4>1
        <3>1. CASE d = c
            BY <1>0, <1>1, <1>2, <1>3, <1>4, <2>1, <3>1 DEF Refers
        <3>2. CASE d # c
            BY <1>0, <1>1, <2>1, <3>2 DEF Refers
        <3> QED
            BY <3>1, <3>2
    <2>3. \A t \in Sessions : states[t] # None => objs'[states[t]] # None
        BY <1>0 DEF Refers, Typed
    <2>4. unloading # None => \A r \in unloading.open : objs'[r] # None
        BY <1>0 DEF Refers, Typed, Unloadings
    <2>5. \A r \in RunIds : objs'[r] # None => server'[r] # None
        BY <1>0, <1>8 DEF Refers
    <2> QED
        BY <2>2, <2>3, <2>4, <2>5 DEF Refers
<1>10. OwnersAgree'
    <2>1. \A d \in Calls : \A r \in RunIds : IsUser(d, r) => calls'[d].session = calls[d].session
        BY <1>5 DEF IsUser
    <2>2. \A r \in RunIds : \A d, e \in Calls :
             (IsUser(d, r) /\ IsUser(e, r))' => calls'[d].session = calls'[e].session
        <3> SUFFICES ASSUME NEW r \in RunIds, NEW d \in Calls, NEW e \in Calls,
                            IsUser(d, r)', IsUser(e, r)'
                     PROVE  calls'[d].session = calls'[e].session
            OBVIOUS
        <3>1. calls'[c].session = s
            BY <1>1, <1>2
        <3>2. r = states[s] => \A x \in Calls : IsUser(x, r) => calls[x].session = s
            BY <1>0, <1>3, NoneIsNothing DEF OwnersAgree
        <3> QED
            BY <1>0, <1>6, <2>1, <3>1, <3>2 DEF OwnersAgree
    <2>3. \A t \in Sessions : states[t] # None =>
             /\ states[t] \in RunIds
             /\ \A d \in Calls : IsUser(d, states[t])' => calls'[d].session = t
             /\ \A u \in Sessions : states[u] = states[t] => u = t
        <3> SUFFICES ASSUME NEW t \in Sessions, states[t] # None
                     PROVE  /\ states[t] \in RunIds
                            /\ \A d \in Calls : IsUser(d, states[t])' => calls'[d].session = t
                            /\ \A u \in Sessions : states[u] = states[t] => u = t
            OBVIOUS
        <3>1. states[t] \in RunIds /\ states'[t] = states[t]
            BY <1>0 DEF Typed
        <3> PICK r \in RunIds : r = states[t]
            BY <3>1
        <3>2. /\ \A u \in Sessions : states[u] = r => u = t
              /\ \A d \in Calls : IsUser(d, r) => calls[d].session = t
            BY <1>0 DEF OwnersAgree
        <3>3. ASSUME NEW d \in Calls, IsUser(d, r)' PROVE calls'[d].session = t
            <4>1. CASE IsUser(d, r)
                BY <2>1, <3>2, <4>1
            <4>2. CASE d = c /\ r = states[s]
                BY <1>1, <1>2, <1>3, <3>2, <4>2
            <4> QED
                BY <1>6, <3>3, <4>1, <4>2
        <3>4. \A d \in Calls : IsUser(d, states[t])' => IsUser(d, r)'
            BY <3>1 DEF IsUser
        <3> QED
            BY <3>1, <3>2, <3>3, <3>4
    <2>4. \A r \in RunIds : server'[r] # None =>
             \A i \in DOMAIN server'[r].mounts :
                server'[r].mounts[i] \in Calls /\ \A d : d = server'[r].mounts[i] => IsUser(d, r)'
        <3> SUFFICES ASSUME NEW r \in RunIds, server'[r] # None,
                            NEW i \in DOMAIN server'[r].mounts
                     PROVE  /\ server'[r].mounts[i] \in Calls
                            /\ \A d : d = server'[r].mounts[i] => IsUser(d, r)'
            OBVIOUS
        <3>0. server[r] # None =>
                 /\ server[r].mounts \in Seq(Calls)
                 /\ \A j \in DOMAIN server[r].mounts :
                       server[r].mounts[j] \in Calls /\ IsUser(server[r].mounts[j], r)
            BY <1>0 DEF Typed, ServerRuns, OwnersAgree
        <3>1. CASE server'[r] = server[r]
            BY <1>6, <3>0, <3>1
        <3>2. CASE server[r] = None /\ server'[r] = NewRun
            BY <3>2 DEF NewRun
        <3>3. CASE /\ calls[c].pc = "append" /\ r = calls[c].run
                   /\ server[r] # None
                   /\ server'[r].mounts = Append(server[r].mounts, c)
            <4>1. \/ i \in DOMAIN server[r].mounts /\ server'[r].mounts[i] = server[r].mounts[i]
                  \/ server'[r].mounts[i] = c
                BY <3>0, <3>3
            <4>2. IsUser(c, r)
                BY <3>3 DEF IsUser
            <4> QED
                BY <1>6, <3>0, <3>3, <4>1, <4>2
        <3> QED
            BY <3>1, <3>2, <3>3
    <2>5. \A p \in Calls : calls'[p].pc = "commit" =>
             /\ ~objs'[calls'[p].run].open
             /\ \A d \in Calls : IsUser(d, calls[p].run)' => calls'[d].session = calls'[p].session
        <3> SUFFICES ASSUME NEW p \in Calls, calls'[p].pc = "commit"
                     PROVE  /\ ~objs'[calls'[p].run].open
                            /\ \A d \in Calls : IsUser(d, calls[p].run)' =>
                                  calls'[d].session = calls'[p].session
            OBVIOUS
        <3>1. calls'[p] = calls[p] /\ p # c /\ calls[p] # Unused
            BY <1>1, <1>2, <1>5 DEF Unused
        <3>2. calls[p].run \in RunIds /\ objs[calls[p].run] # None
            BY <1>0, <3>1, CallIs, UsedIs DEF Placed, IsPlaced, Refers
        <3> PICK r \in RunIds : r = calls[p].run
            BY <3>2
        <3>3. /\ ~objs[r].open /\ ~objs'[r].open
              /\ \A d \in Calls : IsUser(d, r) => calls[d].session = calls[p].session
            BY <1>0, <3>1, <3>2 DEF OwnersAgree
        <3>4. ~IsOpen(r)
            BY <3>3 DEF IsOpen
        <3>5. \A d \in Calls : IsUser(d, calls[p].run)' => IsUser(d, r)'
            BY <3>1 DEF IsUser
        <3> QED
            BY <1>6, <2>1, <3>1, <3>3, <3>4, <3>5
    <2>6. \A p \in Calls : calls'[p].kind \in {"commit", "manifest"} =>
             \E d \in Calls :
                /\ IsUser(d, calls[p].target)'
                /\ calls'[p].pc = "queued" => calls'[d].session = calls'[p].session
        <3> SUFFICES ASSUME NEW p \in Calls, calls'[p].kind \in {"commit", "manifest"}
                     PROVE  \E d \in Calls :
                               /\ IsUser(d, calls[p].target)'
                               /\ calls'[p].pc = "queued" =>
                                     calls'[d].session = calls'[p].session
            OBVIOUS
        <3>1. PICK d \in Calls :
                 /\ IsUser(d, calls[p].target)
                 /\ calls[p].pc = "queued" => calls[d].session = calls[p].session
            BY <1>0, <1>5 DEF OwnersAgree
        <3>2. calls'[p] = calls[p] /\ calls[p] # Unused
            BY <1>2, <1>5, UsedIs, <1>0
        <3>3. calls[p].target \in RunIds
            BY <1>0, <1>5, <3>2, CallIs, UsedIs DEF Placed, IsPlaced
        <3>4. IsUser(d, calls[p].target)' /\ calls'[d].session = calls[d].session
            BY <1>6, <2>1, <3>1, <3>2, <3>3 DEF IsUser
        <3> QED
            BY <3>1, <3>2, <3>4
    <2> QED
        BY <2>2, <2>3, <2>4, <2>5, <2>6 DEF OwnersAgree
<1>11. Chained'
    <2>1. Waits(c)
        BY DEF Waits, Begins, HasBegun
    <2> QED
        BY <1>0, <2>1, ChainMoves
<1>12. \A d \in Calls : calls'[d].kind = "resolve" /\ ~Forgotten(calls[d].session)' =>
          /\ calls[d].kind = "resolve" /\ ~Forgotten(calls[d].session)
          /\ calls'[d].session = calls[d].session /\ calls[d].session \in Sessions
          /\ states[calls[d].session] \in {None} \cup RunIds
          /\ calls[d].run \in {None} \cup RunIds
          /\ calls[d].run # None => objs[calls[d].run] # None /\ server[calls[d].run] # None
          /\ d # c => calls'[d] = calls[d] /\ (Read(d)' <=> Read(d))
    <2> SUFFICES ASSUME NEW d \in Calls, calls'[d].kind = "resolve", ~Forgotten(calls[d].session)'
                 PROVE  /\ calls[d].kind = "resolve" /\ ~Forgotten(calls[d].session)
                        /\ calls'[d].session = calls[d].session /\ calls[d].session \in Sessions
                        /\ states[calls[d].session] \in {None} \cup RunIds
                        /\ calls[d].run \in {None} \cup RunIds
                        /\ calls[d].run # None =>
                              objs[calls[d].run] # None /\ server[calls[d].run] # None
                        /\ d # c => calls'[d] = calls[d] /\ (Read(d)' <=> Read(d))
        OBVIOUS
    <2>1. calls[d].kind = "resolve" /\ calls'[d].session = calls[d].session
        BY <1>5
    <2>2. ~Forgotten(calls[d].session)
        BY <1>1, <2>1
    <2> QED
        BY <1>1, <2>1, <2>2, ResolveIs DEF Read
<1>13. OpenRunsAreCurrent'
    <2> SUFFICES ASSUME NEW d \in Calls, calls'[d].kind = "resolve", ~Forgotten(calls[d].session)'
                 PROVE  /\ calls'[d].pc = "start" => ~IsOpen(states[calls[d].session])
                        /\ calls'[d].pc \in {"mount", "append"} => objs[calls'[d].run].open
                        /\ \A r : r = calls'[d].run =>
                              /\ IsOpen(r) => states[calls[d].session] = r
                              /\ \A p \in Calls :
                                    calls'[p].pc = "direct" /\ calls'[p].target = r => ~IsOpen(r)
        <3> SUFFICES ASSUME NEW d \in Calls, calls'[d].kind = "resolve",
                            ~Forgotten(calls[d].session)'
                     PROVE  /\ calls'[d].pc = "start" => ~IsOpen(states[calls[d].session])'
                            /\ calls'[d].pc \in {"mount", "append"} => objs'[calls'[d].run].open
                            /\ IsOpen(calls[d].run)' => states[calls'[d].session] = calls'[d].run
                            /\ \A p \in Calls :
                                  calls'[p].pc = "direct" /\ calls'[p].target = calls'[d].run =>
                                      ~IsOpen(calls[d].run)'
            BY DEF OpenRunsAreCurrent
        <3>1. /\ calls'[d].session = calls[d].session
              /\ states[calls[d].session] \in {None} \cup RunIds
              /\ states[calls[d].session] # None => objs[states[calls[d].session]] # None
              /\ calls'[d].run \in {None} \cup RunIds
              /\ calls'[d].run # None => objs[calls'[d].run] # None
            BY <1>1, <1>4, <1>12, ResolveIs
        <3>2. /\ IsOpen(calls[d].run)' <=> \E r : r = calls'[d].run /\ IsOpen(r)
              /\ IsOpen(states[calls[d].session])' <=> IsOpen(states[calls[d].session])
            BY <3>1 DEF IsOpen
        <3>3. calls'[d].pc \in {"mount", "append"} => calls'[d].run # None
            BY <1>1, UsedIs DEF Placed, IsPlaced, Unused
        <3> QED
            BY <3>1, <3>2, <3>3
    <2>1. /\ calls[d].kind = "resolve" /\ ~Forgotten(calls[d].session)
          /\ calls'[d].session = calls[d].session /\ calls[d].session \in Sessions
          /\ d # c => calls'[d] = calls[d]
        BY <1>12
    <2>2. \A p \in Calls : calls'[p].pc = "direct" => calls'[p] = calls[p]
        BY <1>1, <1>2
    <2>3. CASE d # c
        BY <1>0, <2>1, <2>2, <2>3 DEF OpenRunsAreCurrent
    <2>4. CASE d = c
        <3>1. calls'[d] = q /\ calls[d].session = s /\ ~Forgotten(s)
            BY <1>1, <2>1, <2>4
        <3>2. /\ calls[c].pc \in {"mount", "append"} => objs[calls[c].run].open
              /\ IsOpen(calls[c].run) => states[s] = calls[c].run
              /\ \A p \in Calls : calls[p].pc = "direct" /\ calls[p].target = calls[c].run =>
                    ~IsOpen(calls[c].run)
            BY <1>0, <2>1, <2>4, <3>1 DEF OpenRunsAreCurrent
        <3>3. ASSUME NEW p \in Calls, calls[p].pc = "direct", calls[p].target = states[s]
              PROVE  ~IsOpen(states[s])
            <4>1. CASE states[s] = None
                BY <4>1 DEF IsOpen
            <4>2. CASE states[s] # None
                <5>1. calls[p] # Unused /\ calls[p].kind = "commit"
                    BY <1>0, <3>3, UsedIs DEF Placed, IsPlaced, Unused
                <5>2. PICK e \in Calls : IsUser(e, calls[p].target)
                    BY <1>0, <5>1 DEF OwnersAgree
                <5>3. calls[e].kind = "resolve" /\ calls[e].run = states[s]
                    BY <3>3, <5>2 DEF IsUser
                <5>4. calls[e].session = s
                    BY <1>0, <1>3, <4>2, <5>3 DEF OwnersAgree, IsUser
                <5> QED
                    BY <1>0, <3>1, <3>3, <5>3, <5>4 DEF OpenRunsAreCurrent
            <4> QED
                BY <4>1, <4>2
        <3> QED
            BY <2>2, <3>1, <3>2, <3>3, <1>4 DEF IsOpen
    <2> QED
        BY <2>3, <2>4
<1>14. PositionsAreSo'
    <2> SUFFICES ASSUME NEW d \in Calls, calls'[d].kind = "resolve", ~Forgotten(calls[d].session)'
                 PROVE  LET run == server'[calls'[d].run] IN
                        /\ calls'[d].pc = "append" =>
                              calls'[d].told = Len(run.mounts) /\ run.manifest = None
                        /\ Read(d)' => /\ calls'[d].told < Len(run.mounts)
                                       /\ run.mounts[calls'[d].told + 1] = d
                                       /\ run.manifest # None => calls'[d].told < run.manifest
        BY DEF PositionsAreSo
    <2>1. CASE d = c
        <3>1. calls'[d] = q /\ (Read(d)' => q.answer = "ok" /\ q.pc = "done")
            BY <1>1, <1>2, <2>1 DEF Read, IsPlaced
        <3>2. CASE q.answer # "ok"
            BY <2>1, <3>1, <3>2
        <3>3. CASE q.answer = "ok"
            <4> DEFINE r == q.run
            <4>1. /\ calls[c].pc = "append" /\ q.pc = "done"
                  /\ r = calls[c].run /\ q.told = calls[c].told
                  /\ server'[r].mounts = Append(server[r].mounts, c)
                  /\ server'[r].manifest = server[r].manifest
                BY <1>2, <3>3 DEF IsPlaced
            <4>2. r \in RunIds /\ server[r] # None
                BY <4>1, ResolveIs DEF IsPlaced
            <4>3. server[r].mounts \in Seq(Calls)
                BY <1>0, <4>2 DEF Typed, ServerRuns
            <4>4. calls[c].told = Len(server[r].mounts) /\ server[r].manifest = None
                BY <1>0, <1>12, <2>1, <4>1 DEF PositionsAreSo
            <4> HIDE DEF r
            <4>5. calls[c].told < Len(server'[r].mounts) /\ server'[r].mounts[calls[c].told + 1] = c
                BY <4>1, <4>3, <4>4
            <4> QED
                BY <2>1, <3>1, <4>1, <4>4, <4>5 DEF r
        <3> QED
            BY <3>2, <3>3
    <2>2. CASE d # c
        <3> DEFINE r == calls[d].run
        <3>1. /\ calls[d].kind = "resolve" /\ ~Forgotten(calls[d].session)
              /\ calls[d].session \in Sessions /\ calls'[d] = calls[d] /\ (Read(d)' <=> Read(d))
              /\ r # None => r \in RunIds /\ server[r] # None
              /\ calls[d].pc = "append" \/ Read(d) => r # None
              /\ calls[d].told \in Nat
            BY <1>12, <2>2, ResolveIs DEF IsPlaced, Read, CallRecords
        <3>2. CASE calls[d].pc # "append" /\ ~Read(d)
            BY <3>1, <3>2
        <3>3. CASE calls[d].pc = "append" \/ Read(d)
            <4>1. r \in RunIds /\ server[r] # None /\ server[r].mounts \in Seq(Calls)
                BY <1>0, <3>1, <3>3 DEF Typed, ServerRuns
            <4>2. /\ calls[d].pc = "append" =>
                        calls[d].told = Len(server[r].mounts) /\ server[r].manifest = None
                  /\ Read(d) =>
                        /\ calls[d].told < Len(server[r].mounts)
                        /\ server[r].mounts[calls[d].told + 1] = d
                        /\ server[r].manifest # None => calls[d].told < server[r].manifest
                BY <1>0, <3>1 DEF PositionsAreSo
            <4>3. CASE server'[r] = server[r]
                BY <3>1, <4>2, <4>3
            <4>4. CASE /\ calls[c].pc = "append" /\ r = calls[c].run
                       /\ server'[r].mounts = Append(server[r].mounts, c)
                       /\ server'[r].manifest = server[r].manifest
                <5>1. calls[d].session = calls[c].session
                    BY <1>0, <3>1, <4>1, <4>4 DEF OwnersAgree, IsUser
                <5>2. calls[d].pc # "append"
                    BY <1>0, <2>2, <3>1, <4>4, <5>1, OneAtATime DEF Of, HasBegun
                <5>3. Read(d) => /\ calls[d].told < Len(server'[r].mounts)
                                 /\ server'[r].mounts[calls[d].told + 1] = d
                    BY <3>1, <4>1, <4>2, <4>4
                <5> QED
                    BY <3>1, <4>2, <4>4, <5>2, <5>3
            <4> QED
                BY <4>1, <4>3, <4>4
        <3> QED
            BY <3>2, <3>3
    <2> QED
        BY <2>1, <2>2
<1>15. UnloadIsOnItsWay'
    <2>1. \A t \in Sessions : /\ IsOpen(states[t])' => IsOpen(states[t])
                              /\ ~Forgotten(t)' => ~Forgotten(t)
        BY <1>0, <1>1 DEF IsOpen, Typed, Refers
    <2>2. \A u \in Calls : calls[u].kind = "unload" => calls'[u] = calls[u]
        BY <1>5
    <2> QED
        BY <1>0, <2>1, <2>2 DEF UnloadIsOnItsWay
<1>16. \A r \in RunIds : server[r] # None /\ server[r].manifest # None => server'[r].manifest # None
    OBVIOUS
<1>17. ASSUME ~Faults PROVE ClosedRunsAreCommitted'
    <2>0. ClosedRunsAreCommitted
        BY <1>17 DEF SessionsIInv
    <2> SUFFICES ASSUME NEW d \in Calls, Read(d)', ~Forgotten(calls[d].session)'
                 PROVE  IF objs'[calls'[d].run].open THEN objs'[calls'[d].run].entries # 0
                        ELSE \/ server'[calls'[d].run].manifest # None
                             \/ \E p \in Calls : calls'[p].pc = "commit" /\ calls'[p].run = calls'[d].run
        BY DEF ClosedRunsAreCommitted
    <2>1. calls'[d].kind = "resolve" /\ ~Forgotten(calls[d].session)
        BY <1>12 DEF Read
    <2>2. CASE d = c
        <3>1. q.answer = "ok" /\ calls'[d] = q
            BY <1>1, <2>2 DEF Read
        <3>2. calls[c].pc = "append" /\ q.run = calls[c].run /\ objs'[q.run].entries # 0
            BY <3>1
        <3>3. q.run \in RunIds /\ objs[q.run] # None /\ objs[q.run].open
            BY <1>0, <1>2, <1>4, <2>1, <2>2, <3>1, <3>2 DEF IsPlaced, OpenRunsAreCurrent
        <3> QED
            BY <3>1, <3>2, <3>3
    <2>3. CASE d # c
        <3>1. Read(d) /\ calls'[d] = calls[d]
            BY <1>12, <2>1, <2>3
        <3>2. calls[d].run \in RunIds /\ server[calls[d].run] # None /\ objs[calls[d].run] # None
            BY <1>12, <2>1, <3>1, ResolveIs DEF Read, IsPlaced
        <3>3. \A p \in Calls : calls[p].pc = "commit" => calls'[p] = calls[p]
            BY <1>0, <1>5, UsedIs DEF Placed, IsPlaced
        <3> QED
            BY <1>16, <2>0, <2>1, <3>1, <3>2, <3>3 DEF ClosedRunsAreCommitted
    <2> QED
        BY <2>2, <2>3
<1>18. ASSUME ~Faults, MaxEnds = 1 PROVE DisposalCommits'
    <2>1. DisposalCommits
        BY <1>18 DEF SessionsIInv
    <2>2. Waits(c)
        BY DEF Waits, Begins, HasBegun
    <2>3. \A r \in RunIds : objs[r] # None /\ server[r].manifest # None => server'[r].manifest # None
        BY <1>0, <1>16 DEF Refers
    <2> QED
        BY <1>0, <1>2, <2>1, <2>2, <2>3, DisposalsStay
<1> QED
    BY <1>1, <1>7, <1>9, <1>10, <1>11, <1>13, <1>14, <1>15, <1>17, <1>18 DEF SessionsIInv

\* The epochs that a resolve has yet to probe are as many as it may.
LEMMA EpochsOfResolve ==
    ASSUME Typed, Placed, EpochsAreBounded, NEW c \in Calls, NEW q, Advances(c, q),
           calls[c].kind = "resolve",
           \A r \in RunIds : objs'[r] # None => objs'[r].epoch \in 1 .. EpochsProbed,
           q.pc = "start" =>
               /\ q.left \in 1 .. MaxProbe /\ q.epoch # 0
               /\ IF calls[c].pc = "queued" THEN q.epoch <= EpochsProbed + 1
                  ELSE /\ calls[c].pc = "start"
                       /\ q.epoch + q.left = calls[c].epoch + calls[c].left
    PROVE  EpochsAreBounded'
<1>1. /\ calls'[c] = q /\ \A d \in Calls : d # c => calls'[d] = calls[d]
      /\ q.kind = "resolve" /\ q.pc # "queued" /\ q.epoch \in Nat /\ q.left \in Nat
    BY AdvancesIs DEF Advances, CallRecords
<1>2. \A d \in Calls : HasProbed(d) => HasProbed(d)'
    BY <1>1 DEF HasProbed
<1>3. EpochsProbed \in Nat /\ EpochsProbed' \in Nat /\ EpochsProbed <= EpochsProbed'
    BY <1>2, EpochsGrow
<1>4. calls[c].pc = "queued" => EpochsProbed' = EpochsProbed + MaxProbe
    <2> SUFFICES ASSUME calls[c].pc = "queued" PROVE EpochsProbed' = EpochsProbed + MaxProbe
        OBVIOUS
    <2>1. ~HasProbed(c) /\ HasProbed(c)' /\ \A d \in Calls : d # c => (HasProbed(d)' <=> HasProbed(d))
        BY <1>1 DEF HasProbed
    <2> QED
        BY <2>1, EpochsOfOneMore
<1>5. \A r \in RunIds : objs'[r] # None => objs'[r].epoch \in 1 .. EpochsProbed'
    BY <1>3
<1>6. ASSUME NEW d \in Calls, calls'[d].pc = "start"
      PROVE  /\ calls'[d].left \in 1 .. MaxProbe /\ calls'[d].epoch # 0
             /\ calls'[d].epoch + calls'[d].left <= EpochsProbed' + 1
    <2>1. CASE d # c
        <3>1. calls'[d] = calls[d] /\ calls[d].epoch \in Nat /\ calls[d].left \in Nat
            BY <1>1, <1>6, <2>1, CallIs, UsedIs
        <3> QED
            BY <1>3, <1>6, <3>1 DEF EpochsAreBounded
    <2>2. CASE d = c /\ calls[c].pc = "queued"
        <3>1. q.pc = "start" /\ q.left \in 1 .. MaxProbe /\ q.epoch # 0 /\ q.epoch <= EpochsProbed + 1
            BY <1>1, <1>6, <2>2
        <3> QED
            BY <1>1, <1>3, <1>4, <2>2, <3>1, ProbesArePositive
    <2>3. CASE d = c /\ calls[c].pc # "queued"
        <3>1. /\ q.pc = "start" /\ q.left \in 1 .. MaxProbe /\ q.epoch # 0
              /\ calls[c].pc = "start" /\ q.epoch + q.left = calls[c].epoch + calls[c].left
            BY <1>1, <1>6, <2>3
        <3>2. calls[c].epoch + calls[c].left <= EpochsProbed + 1
              /\ calls[c].epoch \in Nat /\ calls[c].left \in Nat
            BY <3>1, CallIs, UsedIs DEF EpochsAreBounded
        <3> QED
            BY <1>1, <1>3, <2>3, <3>1, <3>2
    <2> QED
        BY <2>1, <2>2, <2>3
<1> QED
    BY <1>5, <1>6 DEF EpochsAreBounded

LEMMA OpenIInv ==
    ASSUME SessionsIInv, NEW c \in Calls, Open(c)
    PROVE  SessionsIInv'
<1>0. Typed /\ Placed /\ EpochsAreBounded
    BY DEF SessionsIInv
<1>1. Begins(c) /\ calls[c].kind = "resolve" /\ UNCHANGED <<server, objs, states, tail, unloading>>
    BY DEF Open
<1> DEFINE r == states[calls[c].session]
           e == IF r = None THEN 1 ELSE objs[r].epoch + 1
           p == [calls[c] EXCEPT !.pc = "mount", !.run = r]
           u == [calls[c] EXCEPT !.pc = "start", !.left = MaxProbe, !.epoch = e]
<1>2. /\ calls[c] \in CallRecords /\ IsPlaced(calls[c]) /\ calls[c].pc = "queued"
      /\ calls[c].run = None /\ calls[c].answer # "ok"
      /\ r \in {None} \cup RunIds /\ (r # None => objs[r] # None)
    BY <1>1, ResolveIs DEF Begins, IsPlaced
<1>3. e \in Nat /\ e # 0 /\ e <= EpochsProbed + 1
    <2>1. EpochsProbed \in Nat
        <3>1. IsFiniteSet({d \in Calls : HasProbed(d)})
            <4>1. {d \in Calls : HasProbed(d)} \subseteq Calls
                OBVIOUS
            <4> QED
                BY <4>1, CallsAreFinite, FS_Subset
        <3>2. Cardinality({d \in Calls : HasProbed(d)}) \in Nat
            BY <3>1, FS_CardinalityType
        <3>3. \A k, m \in Nat : k * m \in Nat
            OBVIOUS
        <3> QED
            BY <3>2, <3>3, ProbesArePositive DEF EpochsProbed
    <2>2. r # None => objs[r].epoch \in 1 .. EpochsProbed
        BY <1>0, <1>2 DEF EpochsAreBounded
    <2> QED
        BY <2>1, <2>2
<1> HIDE DEF e
<1>4. /\ server \in [RunIds -> {None} \cup ServerRuns]
      /\ objs \in [RunIds -> {None} \cup SessionStates]
    BY <1>0 DEF Typed
<1>5. \A x \in RunIds : objs[x] # None => objs[x].epoch \in 1 .. EpochsProbed
    BY <1>0 DEF EpochsAreBounded
<1>6. CASE IsOpen(r)
    <2>1. calls' = [calls EXCEPT ![c] = p]
        BY <1>6 DEF Open, Becomes
    <2>2. /\ p \in CallRecords /\ p.pc = "mount" /\ p.run = r /\ p.kind = calls[c].kind
          /\ p.session = calls[c].session /\ p.target = calls[c].target
          /\ p.after = calls[c].after /\ p.before = calls[c].before /\ p.answer = calls[c].answer
        BY <1>2, <1>6 DEF CallRecords, Pcs
    <2> HIDE DEF p
    <2>3. r # None
        BY <1>6 DEF IsOpen
    <2>4. IsPlaced(p)
        BY <1>1, <1>2, <2>2, <2>3 DEF IsPlaced
    <2>5. Advances(c, p)
        BY <1>1, <1>2, <2>1, <2>2, <2>4 DEF Advances
    <2>6. EpochsAreBounded'
        BY <1>0, <1>1, <1>5, <2>2, <2>5, EpochsOfResolve
    <2> QED
        BY <1>1, <1>2, <1>4, <1>6, <2>2, <2>5, <2>6, ResolveGoesOn
<1>7. CASE ~IsOpen(r)
    <2>1. calls' = [calls EXCEPT ![c] = u]
        BY <1>7 DEF Open, Becomes, e
    <2>2. /\ u \in CallRecords /\ u.pc = "start" /\ u.run = calls[c].run /\ u.kind = calls[c].kind
          /\ u.session = calls[c].session /\ u.target = calls[c].target
          /\ u.after = calls[c].after /\ u.before = calls[c].before /\ u.answer = calls[c].answer
          /\ u.left = MaxProbe /\ u.epoch = e
        BY <1>2, <1>3, ProbesArePositive DEF CallRecords, Pcs
    <2> HIDE DEF u
    <2>3. IsPlaced(u)
        BY <1>1, <1>2, <2>2 DEF IsPlaced
    <2>4. Advances(c, u)
        BY <1>1, <1>2, <2>1, <2>2, <2>3 DEF Advances
    <2>5. u.left \in 1 .. MaxProbe
        BY <2>2, ProbesArePositive
    <2>6. EpochsAreBounded'
        BY <1>0, <1>1, <1>2, <1>3, <1>5, <2>2, <2>4, <2>5, EpochsOfResolve
    <2> QED
        BY <1>1, <1>2, <1>4, <1>7, <2>2, <2>4, <2>6, ResolveGoesOn
<1> QED
    BY <1>6, <1>7

LEMMA MountedIs ==
    ASSUME Typed, NEW r \in RunIds, server[r] # None, NEW c \in Calls,
           server' = [server EXCEPT ![r].mounts = Append(@, c)]
    PROVE  /\ server' \in [RunIds -> {None} \cup ServerRuns] /\ server'[r] # None
           /\ server'[r].mounts = Append(server[r].mounts, c)
           /\ server'[r].manifest = server[r].manifest
           /\ \A x \in RunIds : x # r => server'[x] = server[x]
<1> DEFINE mounts == Append(server[r].mounts, c)
           run == [server[r] EXCEPT !.mounts = mounts]
<1>1. server \in [RunIds -> {None} \cup ServerRuns] /\ server[r] \in ServerRuns
    BY DEF Typed
<1>2. server[r].mounts \in Seq(Calls)
    BY <1>1 DEF ServerRuns
<1>3. mounts \in Seq(Calls)
    BY <1>2
<1>4. server' = [server EXCEPT ![r] = run]
    OBVIOUS
<1> HIDE DEF mounts
<1>5. run \in ServerRuns /\ run.mounts = mounts /\ run.manifest = server[r].manifest
    BY <1>1, <1>3 DEF ServerRuns
<1> HIDE DEF run
<1>6. run # None
    BY <1>5, NoneIsNothing
<1> QED
    BY <1>1, <1>4, <1>5, <1>6 DEF mounts

\* A resolve that fails, whether or not the server has done what it asked.
LEMMA FailedIInv ==
    ASSUME SessionsIInv, NEW c \in Calls, calls[c].pc \in {"start", "mount", "append"},
           Done(c, "failed"), UNCHANGED <<objs, states, tail, unloading>>,
           \/ server' = server
           \/ \E r \in RunIds : server[r] = None /\ server' = [server EXCEPT ![r] = NewRun]
           \/ /\ calls[c].pc = "append"
              /\ server' = [server EXCEPT ![calls[c].run].mounts = Append(@, c)]
    PROVE  SessionsIInv'
<1>0. Typed /\ Placed /\ EpochsAreBounded
    BY DEF SessionsIInv
<1>1. calls[c].kind = "resolve"
    BY <1>0, UsedIs DEF Placed, IsPlaced
<1>2. PICK q : Advances(c, q) /\ q.pc = "done" /\ q.run = calls[c].run /\ q.answer = "failed"
    BY <1>0, <1>1, DoneIs
<1>3. /\ server \in [RunIds -> {None} \cup ServerRuns]
      /\ objs \in [RunIds -> {None} \cup SessionStates]
    BY <1>0 DEF Typed
<1>4. NewRun \in ServerRuns
    BY DEF NewRun, ServerRuns
<1>5. /\ server' \in [RunIds -> {None} \cup ServerRuns]
      /\ \A r \in RunIds :
            \/ server'[r] = server[r]
            \/ server[r] = None /\ server'[r] = NewRun
            \/ /\ calls[c].pc = "append" /\ r = calls[c].run
               /\ server[r] # None /\ server'[r] # None
               /\ server'[r].mounts = Append(server[r].mounts, c)
               /\ server'[r].manifest = server[r].manifest
    <2>1. CASE server' = server
        BY <1>3, <2>1
    <2>2. ASSUME NEW r \in RunIds, server[r] = None, server' = [server EXCEPT ![r] = NewRun]
          PROVE  /\ server' \in [RunIds -> {None} \cup ServerRuns]
                 /\ \A x \in RunIds :
                       \/ server'[x] = server[x]
                       \/ server[x] = None /\ server'[x] = NewRun
        BY <1>3, <1>4, <2>2
    <2>3. CASE /\ calls[c].pc = "append"
               /\ server' = [server EXCEPT ![calls[c].run].mounts = Append(@, c)]
        <3>1. calls[c].run \in RunIds /\ server[calls[c].run] # None
            BY <1>1, <2>3, ResolveIs DEF IsPlaced
        <3> QED
            BY <1>0, <2>3, <3>1, MountedIs
    <2> QED
        BY <2>1, <2>2, <2>3
<1>6. EpochsAreBounded'
    <2>1. \A x \in RunIds : objs[x] # None => objs[x].epoch \in 1 .. EpochsProbed
        BY <1>0 DEF EpochsAreBounded
    <2> QED
        BY <1>0, <1>1, <1>2, <2>1, EpochsOfResolve
<1>7. HasBegun(c)
    BY DEF HasBegun
<1> QED
    BY <1>1, <1>2, <1>3, <1>5, <1>6, <1>7, ResolveGoesOn

LEMMA MountIInv ==
    ASSUME SessionsIInv, NEW c \in Calls, Mount(c)
    PROVE  SessionsIInv'
<1>0. Typed /\ Placed /\ EpochsAreBounded /\ OpenRunsAreCurrent
    BY DEF SessionsIInv
<1>1. calls[c].pc = "mount" /\ UNCHANGED <<server, objs, states, tail, unloading>>
    BY DEF Mount
<1>2. calls[c].kind = "resolve"
    BY <1>0, <1>1, UsedIs DEF Placed, IsPlaced
<1> DEFINE r == calls[c].run
           q == [calls[c] EXCEPT !.pc = "append", !.told = Len(server[r].mounts)]
<1>3. /\ calls[c] \in CallRecords /\ IsPlaced(calls[c]) /\ r \in RunIds /\ server[r] # None
      /\ calls[c].answer # "ok"
    BY <1>1, <1>2, ResolveIs DEF IsPlaced
<1>4. /\ server \in [RunIds -> {None} \cup ServerRuns]
      /\ objs \in [RunIds -> {None} \cup SessionStates]
    BY <1>0 DEF Typed
<1>5. CASE server[r].manifest # None
    <2>1. Done(c, "failed")
        BY <1>5 DEF Mount
    <2> QED
        BY <1>1, <2>1, FailedIInv
<1>6. CASE server[r].manifest = None
    <2>1. calls' = [calls EXCEPT ![c] = q]
        BY <1>6 DEF Mount, Becomes
    <2>2. Len(server[r].mounts) \in Nat
        BY <1>3, <1>4 DEF ServerRuns
    <2>3. /\ q \in CallRecords /\ q.pc = "append" /\ q.run = r /\ q.kind = calls[c].kind
          /\ q.session = calls[c].session /\ q.target = calls[c].target
          /\ q.after = calls[c].after /\ q.before = calls[c].before /\ q.answer = calls[c].answer
          /\ q.told = Len(server[r].mounts)
        BY <1>3, <2>2 DEF CallRecords, Pcs
    <2> HIDE DEF q
    <2>4. IsPlaced(q)
        BY <1>1, <1>2, <1>3, <2>3 DEF IsPlaced
    <2>5. Advances(c, q)
        BY <1>1, <1>2, <2>1, <2>3, <2>4 DEF Advances
    <2>6. EpochsAreBounded'
        <3>1. \A x \in RunIds : objs[x] # None => objs[x].epoch \in 1 .. EpochsProbed
            BY <1>0 DEF EpochsAreBounded
        <3> QED
            BY <1>0, <1>1, <1>2, <2>3, <2>5, <3>1, EpochsOfResolve
    <2>7. HasBegun(c)
        BY <1>1 DEF HasBegun
    <2> QED
        BY <1>1, <1>2, <1>3, <1>4, <1>6, <2>3, <2>5, <2>6, <2>7, ResolveGoesOn
<1> QED
    BY <1>5, <1>6

LEMMA AppendMountIInv ==
    ASSUME SessionsIInv, NEW c \in Calls, AppendMount(c)
    PROVE  SessionsIInv'
<1>0. Typed /\ Placed /\ EpochsAreBounded
    BY DEF SessionsIInv
<1> DEFINE r == calls[c].run
           obj == [objs[r] EXCEPT !.entries = calls[c].told + 1]
<1>1. /\ calls[c].pc = "append" /\ UNCHANGED <<states, tail, unloading>> /\ Done(c, "ok")
      /\ server' = [server EXCEPT ![r].mounts = Append(@, c)]
      /\ objs' = [objs EXCEPT ![r] = obj]
    BY DEF AppendMount
<1>2. calls[c].kind = "resolve"
    BY <1>0, <1>1, UsedIs DEF Placed, IsPlaced
<1>3. /\ r \in RunIds /\ server[r] # None /\ objs[r] # None /\ calls[c].told \in Nat
    BY <1>1, <1>2, ResolveIs DEF IsPlaced, CallRecords
<1>4. /\ server \in [RunIds -> {None} \cup ServerRuns] /\ server[r] \in ServerRuns
      /\ objs \in [RunIds -> {None} \cup SessionStates] /\ objs[r] \in SessionStates
    BY <1>0, <1>3 DEF Typed
<1>5. /\ server' \in [RunIds -> {None} \cup ServerRuns] /\ server'[r] # None
      /\ server'[r].mounts = Append(server[r].mounts, c)
      /\ server'[r].manifest = server[r].manifest
      /\ \A x \in RunIds : x # r => server'[x] = server[x]
    BY <1>0, <1>1, <1>3, MountedIs
<1>6. /\ obj \in SessionStates /\ obj.entries # 0 /\ obj.epoch = objs[r].epoch
      /\ obj.open = objs[r].open
    BY <1>3, <1>4 DEF SessionStates
<1> HIDE DEF obj
<1>7. obj # None
    BY <1>6, NoneIsNothing
<1>8. /\ objs' \in [RunIds -> {None} \cup SessionStates] /\ objs'[r] = obj
      /\ \A x \in RunIds : x # r => objs'[x] = objs[x]
    BY <1>1, <1>3, <1>4, <1>6
<1>9. PICK q : Advances(c, q) /\ q.pc = "done" /\ q.run = r /\ q.answer = "ok"
               /\ q.told = calls[c].told
    BY <1>0, <1>1, <1>2, <1>3, NoneIsNothing, DoneIs
<1>10. EpochsAreBounded'
    <2>1. \A x \in RunIds : objs'[x] # None => objs'[x].epoch \in 1 .. EpochsProbed
        BY <1>0, <1>3, <1>6, <1>8 DEF EpochsAreBounded
    <2> QED
        BY <1>0, <1>2, <1>9, <2>1, EpochsOfResolve
<1>11. HasBegun(c)
    BY <1>1 DEF HasBegun
<1>12. \A x \in RunIds :
          \/ server'[x] = server[x]
          \/ /\ calls[c].pc = "append" /\ x = r
             /\ server[x] # None /\ server'[x] # None
             /\ server'[x].mounts = Append(server[x].mounts, c)
             /\ server'[x].manifest = server[x].manifest
    BY <1>1, <1>3, <1>5
<1>13. \A x \in RunIds :
          /\ objs'[x] # None <=> objs[x] # None
          /\ objs'[x] # None => /\ objs'[x].open = objs[x].open
                                /\ objs'[x].entries = objs[x].entries \/ objs'[x].entries # 0
    BY <1>3, <1>6, <1>7, <1>8
<1>14. /\ calls[c].pc = "append" /\ q.run = calls[c].run /\ q.told = calls[c].told
       /\ server'[q.run].mounts = Append(server[q.run].mounts, c)
       /\ server'[q.run].manifest = server[q.run].manifest
       /\ objs'[q.run].entries # 0
    BY <1>1, <1>5, <1>6, <1>8, <1>9
<1>15. UNCHANGED <<states, tail, unloading>>
    BY <1>1
<1> HIDE DEF r
<1> QED
    BY <1>2, <1>5, <1>8, <1>9, <1>10, <1>11, <1>12, <1>13, <1>14, <1>15, ResolveGoesOn DEF r

\* The id that a resolve probes is one of the ids of its session.
LEMMA ProbedIs ==
    ASSUME SessionsIInv, NEW c \in Calls, calls[c].pc = "start"
    PROVE  /\ calls[c].kind = "resolve" /\ calls[c].session \in Sessions
           /\ calls[c].left \in 1 .. MaxProbe /\ calls[c].epoch \in 1 .. EpochsProbed
           /\ RunId[calls[c].session][calls[c].epoch] \in RunIds
<1>0. Typed /\ Placed /\ EpochsAreBounded
    BY DEF SessionsIInv
<1>1. calls[c].kind = "resolve"
    BY <1>0, UsedIs DEF Placed, IsPlaced
<1>2. calls[c].session \in Sessions /\ calls[c].epoch \in Nat /\ calls[c].left \in Nat
    BY <1>1, ResolveIs DEF CallRecords
<1> DEFINE S == {d \in Calls : HasProbed(d)}
<1>3. /\ Cardinality(S) \in Nat /\ Cardinality(Calls) \in Nat
      /\ Cardinality(S) <= Cardinality(Calls)
    <2>1. S \in SUBSET Calls
        OBVIOUS
    <2>2. IsFiniteSet(S)
        BY <2>1, CallsAreFinite, FS_Subset
    <2> QED
        BY <2>1, <2>2, CallsAreFinite, FS_Subset, FS_CardinalityType
<1>4. EpochsProbed = MaxProbe * Cardinality(S)
    BY DEF EpochsProbed
<1> HIDE DEF S
<1>5. \A k, m, n \in Nat : m <= n => k * m \in Nat /\ k * n \in Nat /\ k * m <= k * n
    OBVIOUS
<1>6. EpochsProbed \in Nat /\ EpochsProbed <= MaxProbe * Cardinality(Calls)
      /\ MaxProbe * Cardinality(Calls) \in Nat
    BY <1>3, <1>4, <1>5, ProbesArePositive
<1>7. /\ calls[c].left \in 1 .. MaxProbe /\ calls[c].epoch # 0
      /\ calls[c].epoch + calls[c].left <= EpochsProbed + 1
    BY <1>0 DEF EpochsAreBounded
<1>8. calls[c].epoch \in 1 .. EpochsProbed
    BY <1>2, <1>6, <1>7
<1>9. calls[c].epoch \in 1 .. MaxProbe * Cardinality(Calls)
    BY <1>6, <1>8
<1> QED
    BY <1>1, <1>2, <1>7, <1>8, <1>9, EpochsHaveIds

LEMMA NextEpochIInv ==
    ASSUME SessionsIInv, NEW c \in Calls, calls[c].pc = "start", NextEpoch(c),
           UNCHANGED <<server, objs, states, tail, unloading>>
    PROVE  SessionsIInv'
<1>0. Typed /\ Placed /\ EpochsAreBounded /\ OpenRunsAreCurrent
    BY DEF SessionsIInv
<1>1. /\ calls[c].kind = "resolve" /\ calls[c].left \in 1 .. MaxProbe
      /\ calls[c].epoch \in 1 .. EpochsProbed
    BY ProbedIs
<1>2. CASE calls[c].left = 1
    BY <1>2, FailedIInv DEF NextEpoch
<1>3. CASE calls[c].left # 1
    <2> DEFINE q == [calls[c] EXCEPT !.epoch = calls[c].epoch + 1, !.left = calls[c].left - 1]
    <2>1. calls' = [calls EXCEPT ![c] = q]
        BY <1>3 DEF NextEpoch, Becomes
    <2>2. /\ calls[c] \in CallRecords /\ IsPlaced(calls[c]) /\ calls[c].answer # "ok"
          /\ calls[c].run = None
        BY <1>1, ResolveIs DEF IsPlaced
    <2>3. calls[c].left - 1 \in 1 .. MaxProbe /\ calls[c].left - 1 \in Nat
          /\ calls[c].epoch + 1 \in Nat /\ calls[c].epoch + 1 # 0
          /\ (calls[c].epoch + 1) + (calls[c].left - 1) = calls[c].epoch + calls[c].left
        BY <1>1, <1>3, ProbesArePositive
    <2>4. /\ q \in CallRecords /\ q.pc = calls[c].pc /\ q.run = calls[c].run
          /\ q.kind = calls[c].kind /\ q.answer = calls[c].answer
          /\ q.session = calls[c].session /\ q.target = calls[c].target
          /\ q.after = calls[c].after /\ q.before = calls[c].before
          /\ q.epoch = calls[c].epoch + 1 /\ q.left = calls[c].left - 1
        BY <2>2, <2>3 DEF CallRecords
    <2> HIDE DEF q
    <2>5. IsPlaced(q)
        BY <2>2, <2>4 DEF IsPlaced
    <2>6. Advances(c, q)
        BY <1>1, <2>1, <2>4, <2>5 DEF Advances
    <2>7. EpochsAreBounded'
        <3>1. \A x \in RunIds : objs[x] # None => objs[x].epoch \in 1 .. EpochsProbed
            BY <1>0 DEF EpochsAreBounded
        <3> QED
            BY <1>0, <1>1, <2>3, <2>4, <2>6, <3>1, EpochsOfResolve
    <2>8. HasBegun(c)
        BY DEF HasBegun
    <2>9. /\ server \in [RunIds -> {None} \cup ServerRuns]
          /\ objs \in [RunIds -> {None} \cup SessionStates]
        BY <1>0 DEF Typed
    <2>10. ~Forgotten(calls[c].session) => ~IsOpen(states[calls[c].session])
        BY <1>0, <1>1 DEF OpenRunsAreCurrent
    <2> QED
        BY <1>1, <2>2, <2>4, <2>6, <2>7, <2>8, <2>9, <2>10, ResolveGoesOn
<1> QED
    BY <1>2, <1>3

\* A run that was not there is the session's run from now on, and the resolve is its
\* only user.
LEMMA StartedIInv ==
    ASSUME SessionsIInv, NEW c \in Calls, calls[c].pc = "start",
           NEW r \in RunIds, r = RunId[calls[c].session][calls[c].epoch], server[r] = None,
           server' = [server EXCEPT ![r] = NewRun], Opened(c, r),
           UNCHANGED <<tail, unloading>>
    PROVE  SessionsIInv'
<1>0. Typed /\ Placed /\ Refers /\ EpochsAreBounded /\ OwnersAgree /\ Chained
      /\ OpenRunsAreCurrent /\ PositionsAreSo /\ UnloadIsOnItsWay
    BY DEF SessionsIInv
<1> PICK s : s = calls[c].session
    OBVIOUS
<1> DEFINE q == [calls[c] EXCEPT !.pc = "mount", !.run = r]
           obj == [epoch |-> calls[c].epoch, entries |-> 0, open |-> TRUE]
<1>1. /\ calls[c].kind = "resolve" /\ s \in Sessions /\ calls[c].epoch \in 1 .. EpochsProbed
      /\ calls[c].epoch \in Nat
    BY ProbedIs
<1>2. /\ objs' = [objs EXCEPT ![r] = obj] /\ states' = [states EXCEPT ![s] = r]
      /\ calls' = [calls EXCEPT ![c] = q]
    BY DEF Opened, Becomes
<1>3. r # None /\ objs[r] = None /\ \A x \in RunIds : x # None
    BY <1>0, NoneIsNothing DEF Refers
<1>4. /\ calls[c] \in CallRecords /\ calls[c] # Unused /\ IsPlaced(calls[c])
      /\ calls[c].answer # "ok" /\ calls[c].run = None
    BY <1>1, ResolveIs DEF IsPlaced
<1>5. /\ q \in CallRecords /\ q.pc = "mount" /\ q.run = r /\ q.kind = "resolve"
      /\ q.session = s /\ q.target = calls[c].target /\ q.after = calls[c].after
      /\ q.before = calls[c].before /\ q.answer = calls[c].answer
    BY <1>1, <1>4 DEF CallRecords, Pcs
<1>6. obj \in SessionStates /\ obj.open /\ obj.epoch = calls[c].epoch
    BY <1>1 DEF SessionStates
<1>7. NewRun \in ServerRuns /\ NewRun.mounts = <<>> /\ NewRun.manifest = None
    BY DEF NewRun, ServerRuns
<1> HIDE DEF q, obj
<1>8. obj # None /\ NewRun # None
    BY <1>6, <1>7, NoneIsNothing
<1>9. IsPlaced(q)
    BY <1>3, <1>4, <1>5 DEF IsPlaced
<1>10. Advances(c, q)
    BY <1>1, <1>2, <1>5, <1>9 DEF Advances
<1>11. /\ calls' \in [Calls -> {Unused} \cup CallRecords] /\ Placed'
       /\ calls'[c] = q /\ \A d \in Calls : d # c => calls'[d] = calls[d]
       /\ \A t : Forgotten(t) => Forgotten(t)'
    BY <1>0, <1>10, AdvancesIs
<1>12. /\ server' \in [RunIds -> {None} \cup ServerRuns] /\ server'[r] = NewRun
       /\ objs' \in [RunIds -> {None} \cup SessionStates] /\ objs'[r] = obj
       /\ states' \in [Sessions -> {None} \cup RunIds] /\ states'[s] = r
       /\ \A x \in RunIds : x # r => server'[x] = server[x] /\ objs'[x] = objs[x]
       /\ \A t \in Sessions : t # s => states'[t] = states[t]
    <2>1. /\ server \in [RunIds -> {None} \cup ServerRuns]
          /\ objs \in [RunIds -> {None} \cup SessionStates]
          /\ states \in [Sessions -> {None} \cup RunIds]
        BY <1>0 DEF Typed
    <2> QED
        BY <1>1, <1>2, <1>6, <1>7, <2>1
<1>13. Typed'
    BY <1>0, <1>11, <1>12 DEF Typed
<1>14. \A d \in Calls :
          /\ calls'[d].kind = calls[d].kind
          /\ calls'[d] = Unused <=> calls[d] = Unused
          /\ d # c => calls'[d] = calls[d]
          /\ calls[d] # Unused => calls[d].run # r /\ calls[d].target # r
    <2>1. \A d \in Calls : calls[d] # Unused => calls[d].run # r /\ calls[d].target # r
        BY <1>0, <1>3 DEF Refers
    <2> QED
        BY <1>1, <1>4, <1>5, <1>11, <2>1 DEF Unused
<1>15. \A t \in Sessions : states[t] # r
    BY <1>0, <1>3 DEF Refers
<1>16. /\ \A d \in Calls : ~IsUser(d, r) /\ (IsUser(d, r)' => d = c)
       /\ \A d \in Calls : \A x \in RunIds : x # r => (IsUser(d, x)' <=> IsUser(d, x) /\ d # c)
       /\ \A x \in RunIds : ~IsUser(c, x)
    BY <1>3, <1>4, <1>5, <1>11, <1>14, UsedIs, <1>0 DEF IsUser, Unused
<1>17. Refers'
    <2>1. \A d \in Calls : calls[d] # Unused =>
             /\ calls[d].before \subseteq Calls
             /\ calls[d].target \in {None} \cup RunIds /\ calls[d].run \in {None} \cup RunIds
             /\ \A x \in calls[d].before : calls'[x].kind = "resolve"
        BY <1>0, <1>14, CallIs, UsedIs DEF Refers
    <2>2. \A x \in RunIds : objs[x] # None => objs'[x] # None
        BY <1>3, <1>12
    <2>3. ASSUME NEW d \in Calls, calls'[d] # Unused
          PROVE  /\ calls'[d].run # None => objs'[calls'[d].run] # None
                 /\ calls'[d].target # None => objs'[calls'[d].target] # None
                 /\ \A x \in calls'[d].before : calls'[x].kind = "resolve"
        <3>0. calls[d] # Unused
            BY <1>14, <2>3
        <3>1. CASE d = c
            BY <1>0, <1>4, <1>5, <1>8, <1>11, <1>12, <2>1, <2>2, <3>1 DEF Refers
        <3>2. CASE d # c
            BY <1>0, <1>11, <2>1, <2>2, <3>0, <3>2 DEF Refers
        <3> QED
            BY <3>1, <3>2
    <2>4. \A t \in Sessions : states'[t] # None => objs'[states'[t]] # None
        BY <1>0, <1>8, <1>12, <2>2 DEF Refers, Typed
    <2>5. \A x \in RunIds : objs'[x] # None => server'[x] # None
        BY <1>0, <1>8, <1>12 DEF Refers
    <2>6. unloading # None => \A x \in unloading.open : objs'[x] # None
        BY <1>0, <2>2 DEF Refers, Typed, Unloadings
    <2> QED
        BY <2>3, <2>4, <2>5, <2>6 DEF Refers
<1>18. EpochsAreBounded'
    <2>1. \A x \in RunIds : objs'[x] # None => objs'[x].epoch \in 1 .. EpochsProbed
        BY <1>0, <1>1, <1>6, <1>12 DEF EpochsAreBounded
    <2> QED
        BY <1>0, <1>1, <1>5, <1>10, <2>1, EpochsOfResolve
<1>19. Chained'
    <2>1. Waits(c) /\ HasBegun(c)
        BY DEF Waits, HasBegun
    <2> QED
        BY <1>0, <1>10, <2>1, ChainMoves
<1>20. OwnersAgree'
    <2>1. \A d \in Calls : \A x \in RunIds : IsUser(d, x) => calls'[d] = calls[d]
        BY <1>14, <1>16
    <2>2. \A x \in RunIds : \A d, e \in Calls :
             (IsUser(d, x) /\ IsUser(e, x))' => calls'[d].session = calls'[e].session
        BY <1>0, <1>16, <2>1 DEF OwnersAgree
    <2>3. \A t \in Sessions : states'[t] # None =>
             /\ \A d \in Calls : IsUser(d, states[t])' => calls'[d].session = t
             /\ \A u \in Sessions : states'[u] = states'[t] => u = t
        <3> SUFFICES ASSUME NEW t \in Sessions, states'[t] # None
                     PROVE  /\ \A d \in Calls : IsUser(d, states[t])' => calls'[d].session = t
                            /\ \A u \in Sessions : states'[u] = states'[t] => u = t
            OBVIOUS
        <3>1. PICK x \in RunIds : x = states'[t]
            BY <1>12
        <3>2. \A d \in Calls : IsUser(d, states[t])' => IsUser(d, x)'
            BY <3>1 DEF IsUser
        <3>3. CASE t = s
            <4>1. x = r
                BY <1>12, <3>1, <3>3
            <4>2. \A d \in Calls : IsUser(d, x)' => calls'[d].session = s
                BY <1>5, <1>11, <1>16, <4>1
            <4> QED
                BY <1>12, <1>15, <3>1, <3>2, <3>3, <4>1, <4>2
        <3>4. CASE t # s
            <4>1. x = states[t] /\ x # r
                BY <1>12, <1>15, <3>1, <3>4
            <4>2. \A d \in Calls : IsUser(d, x)' => IsUser(d, x) /\ calls'[d] = calls[d]
                BY <1>14, <1>16, <4>1
            <4>3. /\ \A d \in Calls : IsUser(d, x) => calls[d].session = t
                  /\ \A u \in Sessions : states[u] = x => u = t
                BY <1>0, <3>1, <4>1 DEF OwnersAgree
            <4> QED
                BY <1>12, <3>1, <3>2, <4>1, <4>2, <4>3
        <3> QED
            BY <3>3, <3>4
    <2>4. \A x \in RunIds : server'[x] # None =>
             \A i \in DOMAIN server'[x].mounts :
                server'[x].mounts[i] \in Calls /\ \A d : d = server'[x].mounts[i] => IsUser(d, x)'
        <3> SUFFICES ASSUME NEW x \in RunIds, server'[x] # None,
                            NEW i \in DOMAIN server'[x].mounts
                     PROVE  /\ server'[x].mounts[i] \in Calls
                            /\ \A d : d = server'[x].mounts[i] => IsUser(d, x)'
            OBVIOUS
        <3>1. x # r /\ server'[x] = server[x]
            BY <1>7, <1>12
        <3>2. server[x].mounts[i] \in Calls /\ IsUser(server[x].mounts[i], x)
            BY <1>0, <3>1 DEF Typed, ServerRuns, OwnersAgree
        <3> QED
            BY <2>1, <3>1, <3>2 DEF IsUser
    <2>5. \A p \in Calls : calls'[p].pc = "commit" =>
             /\ ~objs'[calls'[p].run].open
             /\ \A d \in Calls : IsUser(d, calls[p].run)' => calls'[d].session = calls'[p].session
        <3> SUFFICES ASSUME NEW p \in Calls, calls'[p].pc = "commit"
                     PROVE  /\ ~objs'[calls'[p].run].open
                            /\ \A d \in Calls : IsUser(d, calls[p].run)' =>
                                  calls'[d].session = calls'[p].session
            OBVIOUS
        <3>1. calls'[p] = calls[p] /\ p # c /\ calls[p] # Unused
            BY <1>5, <1>11 DEF Unused
        <3>2. PICK x \in RunIds : x = calls[p].run
            BY <1>0, <3>1, CallIs, UsedIs DEF Placed, IsPlaced
        <3>3. x # r /\ objs'[x] = objs[x]
            BY <1>12, <1>14, <3>1, <3>2
        <3>4. /\ ~objs[x].open
              /\ \A d \in Calls : IsUser(d, x) => calls[d].session = calls[p].session
            BY <1>0, <3>1, <3>2 DEF OwnersAgree
        <3>5. \A d \in Calls : IsUser(d, calls[p].run)' => IsUser(d, x) /\ calls'[d] = calls[d]
            BY <1>14, <1>16, <3>1, <3>2, <3>3 DEF IsUser
        <3> QED
            BY <3>1, <3>2, <3>3, <3>4, <3>5
    <2>6. \A p \in Calls : calls'[p].kind \in {"commit", "manifest"} =>
             \E d \in Calls :
                /\ IsUser(d, calls[p].target)'
                /\ calls'[p].pc = "queued" => calls'[d].session = calls'[p].session
        <3> SUFFICES ASSUME NEW p \in Calls, calls'[p].kind \in {"commit", "manifest"}
                     PROVE  \E d \in Calls :
                               /\ IsUser(d, calls[p].target)'
                               /\ calls'[p].pc = "queued" =>
                                     calls'[d].session = calls'[p].session
            OBVIOUS
        <3>1. calls'[p] = calls[p] /\ calls[p] # Unused
            BY <1>0, <1>1, <1>14, UsedIs
        <3>2. PICK d \in Calls :
                 /\ IsUser(d, calls[p].target)
                 /\ calls[p].pc = "queued" => calls[d].session = calls[p].session
            BY <1>0, <3>1 DEF OwnersAgree
        <3>3. calls[p].target \in RunIds
            BY <1>0, <3>1, CallIs, UsedIs DEF Placed, IsPlaced
        <3>4. calls'[d] = calls[d]
            BY <2>1, <3>2, <3>3
        <3> QED
            BY <3>1, <3>2, <3>4 DEF IsUser
    <2> QED
        BY <2>2, <2>3, <2>4, <2>5, <2>6 DEF OwnersAgree
<1>21. \A d \in Calls : calls'[d].kind = "resolve" /\ ~Forgotten(calls[d].session)' /\ d # c =>
          /\ calls'[d] = calls[d] /\ calls[d].kind = "resolve" /\ (Read(d)' <=> Read(d))
          /\ ~Forgotten(calls[d].session) /\ calls[d].session \in Sessions
          /\ calls[d].run \in {None} \cup RunIds /\ calls[d].run # r
          /\ calls[d].pc \in {"mount", "append"} \/ Read(d) => calls[d].run # None
    <2> SUFFICES ASSUME NEW d \in Calls, calls'[d].kind = "resolve",
                        ~Forgotten(calls[d].session)', d # c
                 PROVE  /\ calls'[d] = calls[d] /\ calls[d].kind = "resolve" /\ (Read(d)' <=> Read(d))
                        /\ ~Forgotten(calls[d].session) /\ calls[d].session \in Sessions
                        /\ calls[d].run \in {None} \cup RunIds /\ calls[d].run # r
                        /\ calls[d].pc \in {"mount", "append"} \/ Read(d) => calls[d].run # None
        OBVIOUS
    <2>1. calls'[d] = calls[d] /\ calls[d].kind = "resolve"
        BY <1>11
    <2>2. ~Forgotten(calls[d].session)
        BY <1>11, <2>1
    <2> QED
        BY <1>14, <2>1, <2>2, ResolveIs DEF Read, IsPlaced
<1>22. OpenRunsAreCurrent'
    <2> SUFFICES ASSUME NEW d \in Calls, calls'[d].kind = "resolve", ~Forgotten(calls[d].session)'
                 PROVE  /\ calls'[d].pc = "start" => ~IsOpen(states[calls[d].session])'
                        /\ calls'[d].pc \in {"mount", "append"} => objs'[calls'[d].run].open
                        /\ IsOpen(calls[d].run)' => states'[calls'[d].session] = calls'[d].run
                        /\ \A p \in Calls : calls'[p].pc = "direct" /\ calls'[p].target = calls'[d].run =>
                              ~IsOpen(calls[d].run)'
        BY DEF OpenRunsAreCurrent
    <2>0. \A p \in Calls : calls'[p].pc = "direct" =>
             calls'[p] = calls[p] /\ calls[p].target # r /\ calls[p] # Unused
        BY <1>5, <1>11, <1>14 DEF Unused
    <2>1. CASE d = c
        BY <1>5, <1>6, <1>11, <1>12, <2>0, <2>1
    <2>2. CASE d # c
        <3>1. /\ calls'[d] = calls[d] /\ calls[d].kind = "resolve"
              /\ ~Forgotten(calls[d].session) /\ calls[d].session \in Sessions
              /\ calls[d].run \in {None} \cup RunIds /\ calls[d].run # r
              /\ calls[d].pc \in {"mount", "append"} => calls[d].run # None
            BY <1>21, <2>2
        <3>2. /\ calls[d].pc = "start" => ~IsOpen(states[calls[d].session])
              /\ calls[d].pc \in {"mount", "append"} => objs[calls[d].run].open
              /\ IsOpen(calls[d].run) => states[calls[d].session] = calls[d].run
              /\ \A p \in Calls : calls[p].pc = "direct" /\ calls[p].target = calls[d].run =>
                    ~IsOpen(calls[d].run)
            BY <1>0, <3>1 DEF OpenRunsAreCurrent
        <3>3. IsOpen(calls[d].run)' <=> IsOpen(calls[d].run)
            BY <1>12, <3>1 DEF IsOpen
        <3>4. CASE calls[d].session = s
            <4>1. calls[d].pc # "start"
                BY <1>0, <1>1, <2>2, <3>1, <3>4, OneAtATime DEF Of, HasBegun
            <4>2. ~IsOpen(states[s])
                BY <1>0, <1>1, <3>1, <3>4 DEF OpenRunsAreCurrent
            <4>3. ~IsOpen(calls[d].run)
                BY <3>2, <3>4, <4>2
            <4>4. calls[d].pc \notin {"mount", "append"}
                BY <3>1, <3>2, <4>3 DEF IsOpen
            <4> QED
                BY <3>1, <3>3, <4>1, <4>3, <4>4
        <3>5. CASE calls[d].session # s
            <4>1. states'[calls[d].session] = states[calls[d].session]
                BY <1>12, <3>1, <3>5
            <4>2. IsOpen(states[calls[d].session])' <=> IsOpen(states[calls[d].session])
                <5>1. states[calls[d].session] \in {None} \cup RunIds
                    BY <1>0, <3>1 DEF Typed
                <5> QED
                    BY <1>12, <1>15, <3>1, <4>1, <5>1 DEF IsOpen
            <4>3. calls[d].pc \in {"mount", "append"} => objs'[calls[d].run].open
                BY <1>12, <3>1, <3>2
            <4> QED
                BY <2>0, <3>1, <3>2, <3>3, <4>1, <4>2, <4>3
        <3> QED
            BY <3>4, <3>5
    <2> QED
        BY <2>1, <2>2
<1>23. PositionsAreSo'
    <2> SUFFICES ASSUME NEW d \in Calls, calls'[d].kind = "resolve", ~Forgotten(calls[d].session)'
                 PROVE  LET run == server'[calls'[d].run] IN
                        /\ calls'[d].pc = "append" =>
                              calls'[d].told = Len(run.mounts) /\ run.manifest = None
                        /\ Read(d)' => /\ calls'[d].told < Len(run.mounts)
                                       /\ run.mounts[calls'[d].told + 1] = d
                                       /\ run.manifest # None => calls'[d].told < run.manifest
        BY DEF PositionsAreSo
    <2>1. CASE d = c
        BY <1>4, <1>5, <1>11, <2>1 DEF Read
    <2>2. CASE d # c
        <3>1. /\ calls'[d] = calls[d] /\ calls[d].kind = "resolve" /\ ~Forgotten(calls[d].session)
              /\ (Read(d)' <=> Read(d)) /\ calls[d].run \in {None} \cup RunIds /\ calls[d].run # r
              /\ calls[d].pc \in {"mount", "append"} \/ Read(d) => calls[d].run # None
            BY <1>21, <2>2
        <3>2. calls[d].pc = "append" \/ Read(d) => server'[calls[d].run] = server[calls[d].run]
            BY <1>12, <3>1
        <3> QED
            BY <1>0, <3>1, <3>2 DEF PositionsAreSo
    <2> QED
        BY <2>1, <2>2
<1>24. UnloadIsOnItsWay'
    <2> SUFFICES ASSUME unloading # None, NEW t \in Sessions, ~Forgotten(t)', IsOpen(states[t])',
                        states'[t] \in unloading.open
                 PROVE  \/ t \in unloading.left
                        \/ \E u \in Calls : /\ calls'[u].kind = "unload" /\ calls'[u].session = t
                                            /\ calls'[u].pc = "queued"
        BY DEF UnloadIsOnItsWay
    <2>1. t # s
        BY <1>0, <1>3, <1>12 DEF Refers
    <2>2. states'[t] = states[t] /\ states[t] \in {None} \cup RunIds /\ states[t] # r
        BY <1>0, <1>12, <1>15, <2>1 DEF Typed
    <2>3. IsOpen(states[t])
        BY <1>12, <2>2 DEF IsOpen
    <2>4. \A u \in Calls : calls[u].kind = "unload" => calls'[u] = calls[u]
        BY <1>1, <1>14
    <2> QED
        BY <1>0, <1>11, <2>2, <2>3, <2>4 DEF UnloadIsOnItsWay
<1>25. ASSUME ~Faults PROVE ClosedRunsAreCommitted'
    <2>0. ClosedRunsAreCommitted
        BY <1>25 DEF SessionsIInv
    <2> SUFFICES ASSUME NEW d \in Calls, Read(d)', ~Forgotten(calls[d].session)'
                 PROVE  IF objs'[calls'[d].run].open THEN objs'[calls'[d].run].entries # 0
                        ELSE \/ server'[calls'[d].run].manifest # None
                             \/ \E p \in Calls : calls'[p].pc = "commit" /\ calls'[p].run = calls'[d].run
        BY DEF ClosedRunsAreCommitted
    <2>1. d # c /\ calls'[d].kind = "resolve"
        BY <1>4, <1>5, <1>11 DEF Read
    <2>2. /\ calls'[d] = calls[d] /\ Read(d) /\ ~Forgotten(calls[d].session)
          /\ calls[d].run \in RunIds /\ calls[d].run # r
        BY <1>21, <2>1
    <2>3. \A p \in Calls : calls[p].pc = "commit" => calls'[p] = calls[p]
        BY <1>14
    <2> QED
        BY <1>12, <2>0, <2>2, <2>3 DEF ClosedRunsAreCommitted
<1>26. ASSUME ~Faults, MaxEnds = 1 PROVE DisposalCommits'
    <2>1. DisposalCommits
        BY <1>26 DEF SessionsIInv
    <2>2. Waits(c)
        BY DEF Waits, HasBegun
    <2>3. \A x \in RunIds : objs[x] # None /\ server[x].manifest # None => server'[x].manifest # None
        BY <1>3, <1>12
    <2> QED
        BY <1>0, <1>5, <1>10, <2>1, <2>2, <2>3, DisposalsStay
<1> QED
    BY <1>11, <1>13, <1>17, <1>18, <1>19, <1>20, <1>22, <1>23, <1>24, <1>25, <1>26 DEF SessionsIInv

LEMMA StartIInv ==
    ASSUME SessionsIInv, NEW c \in Calls, Start(c)
    PROVE  SessionsIInv'
<1> DEFINE r == RunId[calls[c].session][calls[c].epoch]
<1>1. calls[c].pc = "start" /\ UNCHANGED <<tail, unloading>>
    BY DEF Start
<1>2. r \in RunIds
    BY <1>1, ProbedIs
<1>3. CASE server[r] = None /\ server' = [server EXCEPT ![r] = NewRun] /\ Opened(c, r)
    BY <1>1, <1>2, <1>3, StartedIInv
<1>4. CASE NextEpoch(c) /\ UNCHANGED <<server, objs, states>>
    BY <1>1, <1>4, NextEpochIInv
<1> QED
    BY <1>3, <1>4 DEF Start

\* A request that is lost.
LEMMA LoseIInv ==
    ASSUME SessionsIInv, NEW c \in Calls, Lose(c)
    PROVE  SessionsIInv'
<1>1. Faults /\ calls[c].pc \in {"start", "mount", "append", "commit", "direct", "get"}
    BY DEF Lose
<1>2. CASE calls[c].pc = "commit"
    BY <1>1, <1>2, CommitIInv
<1>3. CASE calls[c].pc = "direct"
    BY <1>1, <1>3, DirectIInv
<1>4. CASE calls[c].pc \in {"start", "mount", "append"}
    <2>1. Done(c, "failed") /\ UNCHANGED <<objs, states, tail, unloading>>
        BY <1>4 DEF Lose
    <2>2. \/ server' = server
          \/ \E r \in RunIds : server[r] = None /\ server' = [server EXCEPT ![r] = NewRun]
          \/ /\ calls[c].pc = "append"
             /\ server' = [server EXCEPT ![calls[c].run].mounts = Append(@, c)]
        <3>1. calls[c].pc = "start" => RunId[calls[c].session][calls[c].epoch] \in RunIds
            BY ProbedIs
        <3> QED
            BY <1>4, <3>1 DEF Lose
    <2> QED
        BY <1>4, <2>1, <2>2, FailedIInv
<1>5. CASE calls[c].pc = "get"
    BY <1>1, <1>5, GetManifestIInv
<1> QED
    BY <1>1, <1>2, <1>3, <1>4, <1>5

-----------------------------------------------------------------------------
(* The inductive invariant, and what follows from it *)

LEMMA SessionsBegin ==
    ASSUME Init
    PROVE  SessionsIInv
<1>1. \A c \in Calls : calls[c] = Unused /\ calls[c].kind = "none" /\ calls[c].pc = "unused"
    BY DEF Init, Unused
<1>2. Typed
    BY DEF Init, Typed
<1>3. Placed /\ Refers
    BY <1>1 DEF Init, Placed, Refers
<1>4. EpochsAreBounded /\ OwnersAgree
    BY <1>1 DEF Init, EpochsAreBounded, OwnersAgree, IsUser
<1>5. Chained
    <2> SUFFICES ASSUME NEW s \in Sessions PROVE \E line \in Seq(Calls) : IsChain(line, s)
        BY DEF Chained
    <2>1. <<>> \in Seq(Calls) /\ DOMAIN <<>> = {}
        OBVIOUS
    <2>2. tail[s] = None
        BY DEF Init
    <2>3. IsChain(<<>>, s)
        BY <1>1, <2>1, <2>2 DEF IsChain, Of
    <2> QED
        BY <2>1, <2>3
<1>6. OpenRunsAreCurrent /\ PositionsAreSo /\ UnloadIsOnItsWay
    BY <1>1 DEF Init, OpenRunsAreCurrent, PositionsAreSo, UnloadIsOnItsWay
<1>7. ClosedRunsAreCommitted /\ DisposalCommits
    BY <1>1 DEF ClosedRunsAreCommitted, DisposalCommits, Read
<1> QED
    BY <1>2, <1>3, <1>4, <1>5, <1>6, <1>7 DEF SessionsIInv

LEMMA SessionsStay ==
    ASSUME SessionsIInv, UNCHANGED vars
    PROVE  SessionsIInv'
<1>0. Typed /\ Placed /\ Refers /\ EpochsAreBounded /\ OwnersAgree /\ Chained
      /\ OpenRunsAreCurrent /\ PositionsAreSo /\ UnloadIsOnItsWay
    BY DEF SessionsIInv
<1> USE DEF vars
<1>1. Typed' /\ Placed' /\ Refers'
    BY <1>0 DEF Typed, Placed, Refers
<1>2. EpochsAreBounded'
    BY <1>0 DEF EpochsAreBounded, EpochsProbed, HasProbed
<1>3. OwnersAgree'
    BY <1>0 DEF OwnersAgree, IsUser
<1>4. Chained'
    BY <1>0, ChainStays
<1>5. OpenRunsAreCurrent' /\ PositionsAreSo' /\ UnloadIsOnItsWay'
    BY <1>0 DEF OpenRunsAreCurrent, PositionsAreSo, UnloadIsOnItsWay, Forgotten, IsOpen, Read
<1>6. ClosedRunsAreCommitted => ClosedRunsAreCommitted'
    BY DEF ClosedRunsAreCommitted, Forgotten, Read
<1>7. DisposalCommits => DisposalCommits'
    BY DEF DisposalCommits, Of, Waits, HasBegun, Read
<1> QED
    BY <1>1, <1>2, <1>3, <1>4, <1>5, <1>6, <1>7 DEF SessionsIInv

LEMMA SessionsStep ==
    ASSUME SessionsIInv, [Next]_vars
    PROVE  SessionsIInv'
<1>1. CASE Unload
    BY <1>1, UnloadIInv
<1>2. ASSUME NEW c \in Calls, Microtask(c) PROVE SessionsIInv'
    BY <1>2, OpenIInv, CloseIInv, ForgetIInv DEF Microtask
<1>3. ASSUME NEW c \in Calls, Answered(c) PROVE SessionsIInv'
    BY <1>3, StartIInv, MountIInv, AppendMountIInv, CommitIInv, DirectIInv, GetManifestIInv
    DEF Answered
<1>4. ASSUME NEW c \in Calls, Arrive(c) PROVE SessionsIInv'
    BY <1>4, ResolveIInv, EndIInv, AskIInv DEF Arrive
<1>5. ASSUME NEW c \in Calls, UnloadNext(c) PROVE SessionsIInv'
    BY <1>5, UnloadNextIInv
<1>6. ASSUME NEW c \in Calls, Lose(c) PROVE SessionsIInv'
    BY <1>6, LoseIInv
<1>7. CASE UNCHANGED vars
    BY <1>7, SessionsStay
<1> QED
    BY <1>1, <1>2, <1>3, <1>4, <1>5, <1>6, <1>7 DEF Next, Step

\* The invariant of the chains, runs and positions, whoever calls and however the
\* calls overlap (session-runs.ts).
THEOREM SessionsInvariance == Spec => []SessionsIInv
<1>1. Init => SessionsIInv
    BY SessionsBegin
<1>2. SessionsIInv /\ [Next]_vars => SessionsIInv'
    BY SessionsStep
<1> QED
    BY <1>1, <1>2, PTL DEF Spec

\* Every variable keeps its type, and a call that uses a run holds its object.
THEOREM SessionTypes == Spec => []TypeOK
<1>1. SessionsIInv => TypeOK
    <2> SUFFICES ASSUME SessionsIInv PROVE TypeOK
        OBVIOUS
    <2>0. Typed /\ Placed /\ Refers /\ EpochsAreBounded
        BY DEF SessionsIInv
    <2>1. \A r \in RunIds :
             /\ server[r] = None \/ (/\ server[r].mounts \in Seq(Calls)
                                     /\ server[r].manifest \in Nat \cup {None})
             /\ objs[r] = None \/ (/\ objs[r].open \in BOOLEAN
                                   /\ objs[r].entries \in Nat /\ objs[r].epoch \in Nat
                                   /\ server[r] # None)
        BY <2>0 DEF Typed, ServerRuns, SessionStates, Refers
    <2>2. states \in [Sessions -> {r \in RunIds : objs[r] # None} \cup {None}]
        <3>1. \A s \in Sessions : states[s] \in {r \in RunIds : objs[r] # None} \cup {None}
            BY <2>0 DEF Typed, Refers
        <3> QED
            BY <2>0, <3>1 DEF Typed
    <2>3. tail \in [Sessions -> Calls \cup {None}]
        BY <2>0 DEF Typed
    <2>4. ASSUME NEW c \in Calls PROVE IsCall(calls[c])
        <3>1. CASE calls[c] = Unused
            BY <3>1 DEF IsCall
        <3>2. CASE calls[c] # Unused
            <4>1. /\ calls[c].kind \in AllKinds /\ calls[c].pc \in Pcs
                  /\ calls[c].session \in Sessions \cup {None}
                  /\ calls[c].target \in RunIds \cup {None}
                  /\ calls[c].after \in Calls \cup {None} /\ calls[c].run \in RunIds \cup {None}
                BY <2>0, <3>2, CallIs, UsedIs
            <4>2. calls[c].pc \in {"mount", "append", "commit"} => objs[calls[c].run] # None
                BY <2>0, <3>2 DEF Placed, IsPlaced, Refers
            <4>3. calls[c].pc = "start" => calls[c].left \in 1 .. MaxProbe
                BY <2>0 DEF EpochsAreBounded
            <4> QED
                BY <4>1, <4>2, <4>3 DEF IsCall
        <3> QED
            BY <3>1, <3>2
    <2> QED
        BY <2>1, <2>2, <2>3, <2>4 DEF TypeOK
<1> QED
    BY <1>1, SessionsInvariance, PTL

\* A run holds what one session read, although the ids of two sessions may be equal.
THEOREM RunsAreOfOneSession == Spec => []OneSessionPerRun
<1>1. SessionsIInv => OneSessionPerRun
    <2> SUFFICES ASSUME SessionsIInv, NEW r \in RunIds, server[r] # None,
                        NEW i \in DOMAIN server[r].mounts, NEW j \in DOMAIN server[r].mounts
                 PROVE  calls[server[r].mounts[i]].session = calls[server[r].mounts[j]].session
        BY DEF OneSessionPerRun
    <2>1. Typed /\ OwnersAgree
        BY DEF SessionsIInv
    <2>2. server[r].mounts[i] \in Calls /\ server[r].mounts[j] \in Calls
        BY <2>1 DEF Typed, ServerRuns
    <2>3. IsUser(server[r].mounts[i], r) /\ IsUser(server[r].mounts[j], r)
        BY <2>1 DEF OwnersAgree
    <2> QED
        BY <2>1, <2>2, <2>3 DEF OwnersAgree
<1> QED
    BY <1>1, SessionsInvariance, PTL

\* What a resolve reports is so, until its session is forgotten: "parallel tool calls
\* must not both open a run" (session-runs.ts:40), and none is told another's position.
THEOREM ReportedReadsAreSo == Spec => []ReportedReadIsSo
<1>1. SessionsIInv => ReportedReadIsSo
    <2> SUFFICES ASSUME SessionsIInv, NEW c \in Calls, Read(c), ~Ended(calls[c].session)
                 PROVE  LET run == server[calls[c].run] IN
                        /\ run.mounts[calls[c].told + 1] = c
                        /\ run.manifest # None => calls[c].told < run.manifest
        BY DEF ReportedReadIsSo
    <2>1. ~Forgotten(calls[c].session) /\ calls[c].kind = "resolve"
        BY DEF Ended, Forgotten, Read
    <2> QED
        BY <2>1 DEF SessionsIInv, PositionsAreSo
<1> QED
    BY <1>1, SessionsInvariance, PTL

\* Without lost requests and with one disposal event, what a session had read is
\* committed once its disposal has been handled (README.md:223).
THEOREM EndedSessionsAreCommitted ==
    ~Faults /\ MaxEnds = 1 => (Spec => []EndedSessionIsCommitted)
<1> SUFFICES ASSUME ~Faults, MaxEnds = 1 PROVE Spec => []EndedSessionIsCommitted
    OBVIOUS
<1>1. SessionsIInv => EndedSessionIsCommitted
    <2> SUFFICES ASSUME SessionsIInv, NEW e \in Calls, calls[e].kind = "end",
                        calls[e].pc = "done", NEW c \in calls[e].before,
                        Read(c), calls[c].session = calls[e].session
                 PROVE  server[calls[c].run].manifest # None
        BY DEF EndedSessionIsCommitted
    <2>1. Of(c, calls[e].session)
        BY DEF Of, Read
    <2> QED
        BY <2>1 DEF SessionsIInv, DisposalCommits
<1> QED
    BY <1>1, SessionsInvariance, PTL

\* Without lost requests, unloading the plugin commits the runs that were open when it
\* began, of sessions that are not disposed of (README.md:233).
THEOREM UnloadingCommits == ~Faults => (Spec => []UnloadCommits)
<1> SUFFICES ASSUME ~Faults PROVE Spec => []UnloadCommits
    OBVIOUS
<1>1. SessionsIInv => UnloadCommits
    <2> SUFFICES ASSUME SessionsIInv, UnloadIsOver, NEW c \in Calls, Read(c),
                        ~Ended(calls[c].session), calls[c].run \in unloading.open
                 PROVE  server[calls[c].run].manifest # None
        BY DEF UnloadCommits
    <2>0. /\ OpenRunsAreCurrent /\ UnloadIsOnItsWay /\ ClosedRunsAreCommitted
          /\ \A u \in Calls : calls[u].pc \in {"unused", "done"}
          /\ unloading # None /\ unloading.left = {}
        BY DEF SessionsIInv, UnloadIsOver
    <2>1. calls[c].kind = "resolve" /\ calls[c].session \in Sessions
          /\ calls[c].run \in RunIds /\ calls[c].run # None
        BY ResolveIs, NoneIsNothing DEF Read, IsPlaced
    <2>2. ~Forgotten(calls[c].session)
        BY DEF Ended, Forgotten
    <2>3. ~objs[calls[c].run].open
        <3> SUFFICES ASSUME objs[calls[c].run].open PROVE FALSE
            OBVIOUS
        <3>1. IsOpen(calls[c].run)
            BY <2>1 DEF IsOpen
        <3>2. states[calls[c].session] = calls[c].run
            BY <2>0, <2>1, <2>2, <3>1 DEF OpenRunsAreCurrent
        <3> QED
            BY <2>0, <2>1, <2>2, <3>1, <3>2 DEF UnloadIsOnItsWay
    <2> QED
        BY <2>0, <2>2, <2>3 DEF ClosedRunsAreCommitted
<1> QED
    BY <1>1, SessionsInvariance, PTL
=============================================================================
