---------------------------- MODULE Views_proofs ----------------------------
(***************************************************************************)
(* Proofs about how what the store holds is listed and shown: the order of *)
(* a history, the part of a content that is inline, and an operation seen  *)
(* through the local client, the remote one and the plugin.                *)
(***************************************************************************)
EXTENDS Surfaces, Inline, Manifests_proofs

(***************************************************************************)
(* Texts and instants in order                                             *)
(***************************************************************************)

\* s is after t where they differ first, or where t ends.
AfterAt(s, t, i) ==
    /\ i \in 1 .. Len(s) /\ i <= Len(t) + 1
    /\ \A j \in 1 .. i - 1 : s[j] = t[j]
    /\ i <= Len(t) => s[i] > t[i]

LEMMA PrefixesAre ==
    ASSUME NEW E, NEW s \in Seq(E), NEW t \in Seq(E), NEW n \in Nat,
           n <= Len(s), n <= Len(t)
    PROVE  SubSeq(s, 1, n) = SubSeq(t, 1, n) <=> \A j \in 1 .. n : s[j] = t[j]
<1>1. /\ SubSeq(s, 1, n) = [j \in 1 .. n |-> s[j]]
      /\ SubSeq(t, 1, n) = [j \in 1 .. n |-> t[j]]
    OBVIOUS
<1>2. ASSUME SubSeq(s, 1, n) = SubSeq(t, 1, n), NEW j \in 1 .. n
      PROVE  s[j] = t[j]
    <2>1. SubSeq(s, 1, n)[j] = s[j] /\ SubSeq(t, 1, n)[j] = t[j]
        BY <1>1
    <2> QED
        BY <1>2, <2>1
<1> QED
    BY <1>1, <1>2

LEMMA AfterIs ==
    ASSUME NEW s \in Seq(Int), NEW t \in Seq(Int)
    PROVE  After(s, t) <=> \E i \in Nat : AfterAt(s, t, i)
<1>1. /\ Len(s) \in Nat /\ Len(t) \in Nat
      /\ DOMAIN s = 1 .. Len(s) /\ DOMAIN t = 1 .. Len(t)
    OBVIOUS
<1>2. IsStrictPrefix(t, s) <=> AfterAt(s, t, Len(t) + 1)
    <2>1. IsStrictPrefix(t, s) <=>
             Len(t) <= Len(s) /\ (\A j \in 1 .. Len(t) : t[j] = s[j]) /\ t # s
        BY <1>1, PrefixesAre DEF IsStrictPrefix, IsPrefix
    <2>2. (Len(t) = Len(s) /\ \A j \in 1 .. Len(t) : t[j] = s[j]) => t = s
        BY <1>1, SeqEqual
    <2>3. AfterAt(s, t, Len(t) + 1) <=>
             Len(t) + 1 <= Len(s) /\ \A j \in 1 .. Len(t) : t[j] = s[j]
        BY <1>1 DEF AfterAt
    <2>4. PICK m \in Nat, n \in Nat : m = Len(s) /\ n = Len(t)
        BY <1>1
    <2>5. PICK P \in BOOLEAN : P = \A j \in 1 .. Len(t) : t[j] = s[j]
        OBVIOUS
    <2>6. t = s => n = m
        BY <2>4
    <2>7. n = m /\ P => t = s
        BY <2>2, <2>4, <2>5
    <2>8. n <= m /\ P /\ t # s <=> n + 1 <= m /\ P
        BY <2>6, <2>7
    <2> QED
        BY <2>1, <2>3, <2>4, <2>5, <2>8
<1>3. ASSUME NEW i \in DOMAIN s \cap DOMAIN t
      PROVE  (s[i] > t[i] /\ SubSeq(s, 1, i - 1) = SubSeq(t, 1, i - 1)) <=> AfterAt(s, t, i)
    <2>1. PICK n \in Nat : n = i - 1
        BY <1>1
    <2>2. n <= Len(s) /\ n <= Len(t)
        BY <1>1, <2>1
    <2>3. SubSeq(s, 1, n) = SubSeq(t, 1, n) <=> \A j \in 1 .. n : s[j] = t[j]
        BY <2>2, PrefixesAre
    <2>4. i \in 1 .. Len(s) /\ i <= Len(t) /\ i <= Len(t) + 1
        BY <1>1
    <2> QED
        BY <2>1, <2>3, <2>4 DEF AfterAt
<1>4. ASSUME NEW i \in Nat, AfterAt(s, t, i)
      PROVE  i = Len(t) + 1 \/ i \in DOMAIN s \cap DOMAIN t
    BY <1>1, <1>4 DEF AfterAt
<1>5. \A i \in DOMAIN s \cap DOMAIN t : i \in Nat
    BY <1>1
<1>6. Len(t) + 1 \in Nat
    BY <1>1
<1>7. ASSUME After(s, t) PROVE \E i \in Nat : AfterAt(s, t, i)
    BY <1>2, <1>3, <1>5, <1>6, <1>7 DEF After
<1>8. ASSUME NEW i \in Nat, AfterAt(s, t, i) PROVE After(s, t)
    <2>1. CASE i = Len(t) + 1
        BY <1>2, <1>8, <2>1 DEF After
    <2>2. CASE i \in DOMAIN s \cap DOMAIN t
        BY <1>3, <1>8, <2>2 DEF After
    <2> QED
        BY <1>4, <1>8, <2>1, <2>2
<1> QED
    BY <1>7, <1>8

LEMMA NotAfterItself ==
    ASSUME NEW s \in Seq(Int)
    PROVE  ~After(s, s)
<1> SUFFICES ASSUME NEW i \in Nat, AfterAt(s, s, i) PROVE FALSE
    BY AfterIs
<1>1. i \in 1 .. Len(s) /\ s[i] \in Int
    BY DEF AfterAt
<1> QED
    BY <1>1 DEF AfterAt

LEMMA AfterIsTransitive ==
    ASSUME NEW s \in Seq(Int), NEW t \in Seq(Int), NEW u \in Seq(Int),
           After(s, t), After(t, u)
    PROVE  After(s, u)
<1>1. PICK i \in Nat, k \in Nat : AfterAt(s, t, i) /\ AfterAt(t, u, k)
    BY AfterIs
<1>2. /\ Len(s) \in Nat /\ Len(t) \in Nat /\ Len(u) \in Nat
      /\ \A j \in 1 .. Len(s) : s[j] \in Int
      /\ \A j \in 1 .. Len(t) : t[j] \in Int
      /\ \A j \in 1 .. Len(u) : u[j] \in Int
    OBVIOUS
<1>3. CASE i <= k
    <2>1. i \in 1 .. Len(s) /\ i <= Len(u) + 1
        BY <1>1, <1>2, <1>3 DEF AfterAt
    <2>2. \A j \in 1 .. i - 1 : s[j] = u[j]
        <3>1. \A j \in 1 .. i - 1 : s[j] = t[j] /\ j \in 1 .. k - 1
            BY <1>1, <1>3 DEF AfterAt
        <3> QED
            BY <1>1, <3>1 DEF AfterAt
    <2>3. ASSUME i <= Len(u) PROVE s[i] > u[i]
        <3>1. i <= Len(t) /\ i \in 1 .. Len(t) /\ i \in 1 .. Len(s) /\ i \in 1 .. Len(u)
            BY <1>1, <1>2, <1>3, <2>1, <2>3 DEF AfterAt
        <3>2. s[i] > t[i]
            BY <1>1, <3>1 DEF AfterAt
        <3>3. t[i] >= u[i]
            <4>1. CASE i = k
                BY <1>1, <1>2, <2>3, <3>1, <4>1 DEF AfterAt
            <4>2. CASE i < k
                <5>1. i \in 1 .. k - 1
                    BY <2>1, <4>2
                <5> QED
                    BY <1>1, <1>2, <3>1, <5>1 DEF AfterAt
            <4> QED
                BY <1>3, <4>1, <4>2
        <3> QED
            BY <1>2, <3>1, <3>2, <3>3
    <2>4. AfterAt(s, u, i)
        BY <2>1, <2>2, <2>3 DEF AfterAt
    <2> QED
        BY <2>4, AfterIs
<1>4. CASE k < i
    <2>1. AfterAt(s, u, k)
        BY <1>1, <1>2, <1>4 DEF AfterAt
    <2> QED
        BY <2>1, AfterIs
<1> QED
    BY <1>3, <1>4

\* Of finitely many rows one is not before any other.
LEMMA LatestRow ==
    ASSUME NEW S, IsFiniteSet(S), S # {}, \A r \in S : r.observed_at \in Seq(Int)
    PROVE  \E r \in S : \A q \in S : ~After(q.observed_at, r.observed_at)
<1> DEFINE Latest(T) == \E r \in T : \A q \in T : ~After(q.observed_at, r.observed_at)
           Wrong == {n \in Nat : \E T \in SUBSET S :
                      T # {} /\ Cardinality(T) = n /\ ~Latest(T)}
<1>1. Cardinality(S) \in Nat /\ \A T \in SUBSET S : IsFiniteSet(T)
    BY FS_CardinalityType, FS_Subset
<1> SUFFICES ASSUME Wrong # {} PROVE FALSE
    BY <1>1
<1>2. PICK n \in Wrong : \A k \in Wrong : n <= k
    <2>1. Wrong \in SUBSET Nat
        OBVIOUS
    <2> HIDE DEF Wrong
    <2> QED
        BY <2>1, LeastNumber
<1>3. PICK T \in SUBSET S : T # {} /\ Cardinality(T) = n /\ ~Latest(T)
    BY <1>2
<1>4. PICK x : x \in T
    BY <1>3
<1>5. PICK U : U = T \ {x}
    OBVIOUS
<1>6. U \in SUBSET S /\ IsFiniteSet(U) /\ Cardinality(U) = n - 1 /\ n - 1 \in Nat
    <2>1. IsFiniteSet(T)
        BY <1>1
    <2>2. IsFiniteSet(U)
        BY <1>5, <2>1, FS_Subset
    <2>3. Cardinality(U) = n - 1
        BY <1>3, <1>4, <1>5, <2>1, FS_RemoveElement
    <2>4. Cardinality(U) \in Nat
        BY <2>2, FS_CardinalityType
    <2> QED
        BY <1>5, <2>2, <2>3, <2>4
<1>7. x.observed_at \in Seq(Int) /\ ~After(x.observed_at, x.observed_at)
    BY <1>4, NotAfterItself
<1>8. U # {}
    BY <1>3, <1>4, <1>5, <1>7
<1>9. Latest(U)
    <2>1. n - 1 \notin Wrong
        <3>1. n \in Nat /\ ~(n <= n - 1)
            BY <1>2
        <3> HIDE DEF Wrong
        <3> QED
            BY <1>2, <3>1
    <2> QED
        BY <1>6, <1>8, <2>1
<1>10. PICK m \in U : \A q \in U : ~After(q.observed_at, m.observed_at)
    BY <1>9
<1>11. m.observed_at \in Seq(Int) /\ m \in T
    BY <1>5, <1>6
<1>12. CASE After(x.observed_at, m.observed_at)
    <2>1. ASSUME NEW q \in T PROVE ~After(q.observed_at, x.observed_at)
        <3>1. CASE q = x
            BY <1>7, <3>1
        <3>2. CASE q \in U
            <4>1. q.observed_at \in Seq(Int)
                BY <1>6, <3>2
            <4> QED
                BY <1>7, <1>10, <1>11, <1>12, <3>2, <4>1, AfterIsTransitive
        <3> QED
            BY <1>5, <3>1, <3>2
    <2> QED
        BY <1>3, <1>4, <2>1
<1>13. CASE ~After(x.observed_at, m.observed_at)
    BY <1>3, <1>5, <1>10, <1>11, <1>13
<1> QED
    BY <1>12, <1>13

\* Finitely many rows can be listed.
LEMMA RowsAreListed ==
    ASSUME NEW S, IsFiniteSet(S), \A r \in S : r.observed_at \in Seq(Int)
    PROVE  ListByResource(S) # {}
<1> DEFINE Wrong == {n \in Nat : \E T \in SUBSET S :
                      Cardinality(T) = n /\ ListByResource(T) = {}}
<1>1. Cardinality(S) \in Nat /\ \A T \in SUBSET S : IsFiniteSet(T)
    BY FS_CardinalityType, FS_Subset
<1> SUFFICES ASSUME Wrong # {} PROVE FALSE
    BY <1>1
<1>2. PICK n \in Wrong : \A k \in Wrong : n <= k
    <2>1. Wrong \in SUBSET Nat
        OBVIOUS
    <2> HIDE DEF Wrong
    <2> QED
        BY <2>1, LeastNumber
<1>3. PICK T \in SUBSET S : Cardinality(T) = n /\ ListByResource(T) = {}
    BY <1>2
<1>4. IsFiniteSet(T) /\ n \in Nat
    BY <1>1, <1>2
<1>5. ASSUME NEW f \in [1 .. n -> T],
             \A i, j \in 1 .. n : i # j => f[i] # f[j],
             \A i, j \in 1 .. n : i < j => ~After(f[j].observed_at, f[i].observed_at)
      PROVE  FALSE
    BY <1>3, <1>5 DEF ListByResource, SetToSeqs
<1>6. CASE n = 0
    <2> DEFINE f == [i \in 1 .. n |-> n]
    <2>1. 1 .. n = {}
        BY <1>6
    <2>2. f \in [1 .. n -> T]
        BY <2>1
    <2> QED
        BY <1>5, <2>1, <2>2
<1>7. CASE n # 0
    <2>1. T # {}
        BY <1>3, <1>7, FS_EmptySet
    <2>2. PICK m \in T : \A q \in T : ~After(q.observed_at, m.observed_at)
        BY <1>4, <2>1, LatestRow
    <2>3. PICK U : U = T \ {m}
        OBVIOUS
    <2>4. U \in SUBSET S /\ Cardinality(U) = n - 1 /\ n - 1 \in Nat
        <3>1. Cardinality(U) = Cardinality(T) - 1
            BY <1>4, <2>2, <2>3, FS_RemoveElement
        <3>2. U \in SUBSET S
            BY <2>3
        <3>3. n - 1 \in Nat
            BY <1>4, <1>7
        <3> QED
            BY <1>3, <3>1, <3>2, <3>3
    <2>5. ListByResource(U) # {}
        <3>1. n - 1 \notin Wrong
            <4>1. ~(n <= n - 1)
                BY <1>4
            <4> HIDE DEF Wrong
            <4> QED
                BY <1>2, <4>1
        <3> QED
            BY <2>4, <3>1
    <2>6. PICK g : /\ g \in [1 .. n - 1 -> U]
                   /\ \A i, j \in 1 .. n - 1 : i # j => g[i] # g[j]
                   /\ \A i, j \in 1 .. n - 1 :
                         i < j => ~After(g[j].observed_at, g[i].observed_at)
        <3>1. PICK g : g \in ListByResource(U)
            BY <2>5
        <3>2. g \in [1 .. n - 1 -> U]
            BY <2>4, <3>1 DEF ListByResource, SetToSeqs
        <3>3. DOMAIN g = 1 .. n - 1
            BY <3>2
        <3>4. \A i, j \in 1 .. n - 1 : i # j => g[i] # g[j]
            BY <2>4, <3>1 DEF ListByResource, SetToSeqs
        <3>5. \A i, j \in 1 .. n - 1 : i < j => ~After(g[j].observed_at, g[i].observed_at)
            BY <3>1, <3>3 DEF ListByResource
        <3> QED
            BY <3>2, <3>4, <3>5
    <2> DEFINE f == [i \in 1 .. n |-> IF i = 1 THEN m ELSE g[i - 1]]
    <2>7. \A i \in 1 .. n : i # 1 => i - 1 \in 1 .. n - 1
        BY <1>4
    <2>8. \A i \in 1 .. n : f[i] \in T /\ (i # 1 => f[i] = g[i - 1] /\ g[i - 1] \in U)
        BY <2>2, <2>3, <2>6, <2>7
    <2>9. f \in [1 .. n -> T]
        BY <2>8
    <2>10. ASSUME NEW i \in 1 .. n, NEW j \in 1 .. n, i < j
           PROVE  f[i] # f[j] /\ ~After(f[j].observed_at, f[i].observed_at)
        <3>1. j # 1 /\ f[j] = g[j - 1] /\ g[j - 1] \in U /\ j - 1 \in 1 .. n - 1
            BY <2>7, <2>8, <2>10
        <3>2. CASE i = 1
            BY <2>2, <2>3, <3>1, <3>2
        <3>3. CASE i # 1
            <4>1. f[i] = g[i - 1] /\ i - 1 \in 1 .. n - 1 /\ i - 1 < j - 1
                BY <2>7, <2>8, <2>10, <3>3
            <4> HIDE DEF f
            <4> QED
                BY <2>6, <3>1, <4>1
        <3> QED
            BY <3>2, <3>3
    <2>11. \A i, j \in 1 .. n : i # j => f[i] # f[j]
        <3> HIDE DEF f
        <3> QED
            BY <1>4, <2>10
    <2> HIDE DEF f
    <2> QED
        BY <1>5, <2>9, <2>10, <2>11
<1> QED
    BY <1>6, <1>7

\* A set of numbers with a bound has a greatest.
LEMMA GreatestIs ==
    ASSUME NEW S \in SUBSET Int, NEW w \in Int, S # {}, \A x \in S : x <= w
    PROVE  Max(S) \in S /\ \A x \in S : x <= Max(S)
<1> DEFINE Short == {n \in Nat : \E x \in S : n = w - x}
<1>1. PICK n \in Short : \A k \in Short : n <= k
    <2>1. Short \in SUBSET Nat
        OBVIOUS
    <2>2. Short # {}
        <3>1. PICK x : x \in S
            OBVIOUS
        <3>2. w - x \in Nat
            BY <3>1
        <3> QED
            BY <3>1, <3>2
    <2> HIDE DEF Short
    <2> QED
        BY <2>1, <2>2, LeastNumber
<1>2. PICK x \in S : n = w - x
    BY <1>1
<1>3. ASSUME NEW y \in S PROVE x >= y
    <2>1. w - y \in Short
        OBVIOUS
    <2>2. n <= w - y
        BY <1>1, <2>1
    <2> QED
        BY <1>2, <2>2
<1>4. Max(S) \in S /\ \A y \in S : Max(S) >= y
    BY <1>2, <1>3 DEF Max
<1> QED
    BY <1>4

LEMMA StrictPrefixIs ==
    ASSUME NEW s \in Seq(Int), NEW t \in Seq(Int)
    PROVE  IsStrictPrefix(s, t) <=>
              Len(s) < Len(t) /\ \A j \in 1 .. Len(s) : s[j] = t[j]
<1>1. Len(s) \in Nat /\ Len(t) \in Nat
    OBVIOUS
<1>2. IsStrictPrefix(s, t) <=>
         Len(s) <= Len(t) /\ (\A j \in 1 .. Len(s) : s[j] = t[j]) /\ s # t
    <2>1. CASE Len(s) <= Len(t)
        <3>1. PICK n \in Nat : n = Len(s)
            BY <1>1
        <3>2. SubSeq(s, 1, n) = SubSeq(t, 1, n) <=> \A j \in 1 .. n : s[j] = t[j]
            BY <1>1, <2>1, <3>1, PrefixesAre
        <3> QED
            BY <2>1, <3>1, <3>2 DEF IsStrictPrefix, IsPrefix
    <2>2. CASE ~(Len(s) <= Len(t))
        BY <2>2 DEF IsStrictPrefix, IsPrefix
    <2> QED
        BY <2>1, <2>2
<1>3. (Len(s) = Len(t) /\ \A j \in 1 .. Len(s) : s[j] = t[j]) => s = t
    BY <1>1, SeqEqual
<1>4. PICK m \in Nat, n \in Nat : m = Len(s) /\ n = Len(t)
    BY <1>1
<1>5. PICK P \in BOOLEAN : P = \A j \in 1 .. Len(s) : s[j] = t[j]
    OBVIOUS
<1>6. s = t => m = n
    BY <1>4
<1>7. m = n /\ P => s = t
    BY <1>3, <1>4, <1>5
<1>8. m <= n /\ P /\ s # t <=> m < n /\ P
    BY <1>6, <1>7
<1> QED
    BY <1>2, <1>4, <1>5, <1>8

\* The digits that a fraction keeps.
Kept(fraction) == Len(Trimmed(fraction))

LEMMA TrimmedIs ==
    ASSUME NEW w \in Nat, NEW f \in [1 .. w -> 0 .. 9]
    PROVE  /\ Kept(f) \in 0 .. w
           /\ Trimmed(f) \in Seq(Int)
           /\ \A i \in 1 .. Kept(f) : Trimmed(f)[i] = f[i]
           /\ Kept(f) > 0 => f[Kept(f)] # 0
           /\ \A i \in 1 .. w : i > Kept(f) => f[i] = 0
<1>1. DOMAIN f = 1 .. w /\ f \in Seq(Int) /\ Len(f) = w
    OBVIOUS
<1>2. PICK S : S = {i \in DOMAIN f : f[i] # 0}
    OBVIOUS
<1>3. PICK k : k = IF S = {} THEN 0 ELSE Max(S)
    OBVIOUS
<1>4. /\ k \in 0 .. w
      /\ k > 0 => f[k] # 0
      /\ \A i \in 1 .. w : i > k => f[i] = 0
    <2>1. CASE S = {}
        BY <1>1, <1>2, <1>3, <2>1
    <2>2. CASE S # {}
        <3>1. S \in SUBSET Int /\ \A x \in S : x <= w
            BY <1>1, <1>2
        <3>2. k \in S /\ \A x \in S : x <= k
            <4>1. w \in Int /\ k = Max(S)
                BY <1>3, <2>2
            <4> QED
                BY <2>2, <3>1, <4>1, GreatestIs
        <3>3. k \in 1 .. w /\ f[k] # 0
            BY <1>1, <1>2, <3>2
        <3>4. ASSUME NEW i \in 1 .. w, i > k PROVE f[i] = 0
            <4>1. i \notin S
                BY <3>2, <3>3, <3>4
            <4> QED
                BY <1>1, <1>2, <4>1
        <3> QED
            BY <3>3, <3>4
    <2> QED
        BY <2>1, <2>2
<1>5. Trimmed(f) = SubSeq(f, 1, k)
    BY <1>2, <1>3 DEF Trimmed
<1>6. SubSeq(f, 1, k) = [i \in 1 .. k |-> f[i]]
    BY <1>1, <1>4
<1>7. Trimmed(f) = [i \in 1 .. k |-> f[i]]
    BY <1>5, <1>6
<1>8. Trimmed(f) \in Seq(Int) /\ Len(Trimmed(f)) = k /\ \A i \in 1 .. k : Trimmed(f)[i] = f[i]
    BY <1>1, <1>4, <1>7
<1> QED
    BY <1>4, <1>8 DEF Kept

\* The characters of an instant's text.
LEMMA FormatIs ==
    ASSUME NEW w \in Nat, NEW at \in [second : Int, fraction : [1 .. w -> 0 .. 9]],
           NEW k, k = Kept(at.fraction)
    PROVE  /\ Format(at) \in Seq(Int)
           /\ Format(at)[1] = at.second
           /\ k = 0 => Len(Format(at)) = 2 /\ Format(at)[2] = UTC
           /\ k > 0 => /\ Len(Format(at)) = k + 3
                       /\ Format(at)[2] = Dot
                       /\ \A i \in 1 .. k : Format(at)[i + 2] = Zero + at.fraction[i]
                       /\ Format(at)[k + 3] = UTC
<1>1. PICK f : f = at.fraction
    OBVIOUS
<1>2. f \in [1 .. w -> 0 .. 9] /\ at.second \in Int
    BY <1>1
<1>3. Trimmed(f) \in Seq(Int) /\ Len(Trimmed(f)) = k /\ k \in 0 .. w
    BY <1>1, <1>2, TrimmedIs DEF Kept
<1>4. DOMAIN Trimmed(f) = 1 .. k
    BY <1>3
<1>5. PICK d : d = [i \in 1 .. k |-> Zero + f[i]]
    OBVIOUS
<1>6. ASSUME NEW i \in 1 .. k PROVE f[i] \in Int
    <2>1. i \in 1 .. w
        BY <1>3
    <2> QED
        BY <1>2, <2>1
<1>7. d \in Seq(Int) /\ Len(d) = k /\ \A i \in 1 .. k : d[i] = Zero + f[i]
    <2>1. \A i \in 1 .. k : Zero + f[i] \in Int
        BY <1>6 DEF Zero
    <2> QED
        BY <1>3, <1>5, <2>1
<1>8. Format(at) = <<at.second>> \o (IF d = <<>> THEN <<>> ELSE <<Dot>> \o d) \o <<UTC>>
    BY <1>1, <1>4, <1>5 DEF Format
<1>9. CASE k = 0
    <2>1. d = <<>>
        BY <1>7, <1>9
    <2>2. Format(at) = (<<at.second>> \o <<>>) \o <<UTC>>
        BY <1>8, <2>1
    <2>3. <<at.second>> \o <<>> = <<at.second>>
        BY <1>2
    <2>4. Format(at) = <<at.second>> \o <<UTC>>
        BY <2>2, <2>3
    <2> QED
        BY <1>2, <1>9, <2>4 DEF UTC
<1>10. CASE k > 0
    <2>1. d # <<>>
        BY <1>7, <1>10
    <2>2. PICK e : e = <<at.second>> \o (<<Dot>> \o d)
        OBVIOUS
    <2>3. Format(at) = e \o <<UTC>>
        BY <1>8, <2>1, <2>2
    <2>4. /\ e \in Seq(Int) /\ Len(e) = k + 2 /\ e[1] = at.second /\ e[2] = Dot
          /\ \A i \in 1 .. k : e[i + 2] = d[i]
        BY <1>2, <1>3, <1>7, <2>2 DEF Dot
    <2>5. /\ Format(at) \in Seq(Int) /\ Len(Format(at)) = k + 3
          /\ \A i \in 1 .. k + 2 : Format(at)[i] = e[i]
          /\ Format(at)[k + 3] = UTC
        BY <1>3, <2>3, <2>4 DEF UTC
    <2>6. ASSUME NEW i \in 1 .. k PROVE Format(at)[i + 2] = Zero + f[i]
        <3>1. i + 2 \in 1 .. k + 2
            BY <1>3
        <3> QED
            BY <1>7, <2>4, <2>5, <3>1
    <2>7. 1 \in 1 .. k + 2 /\ 2 \in 1 .. k + 2
        BY <1>3
    <2>8. Format(at)[1] = at.second /\ Format(at)[2] = Dot
        BY <2>4, <2>5, <2>7
    <2> QED
        BY <1>1, <1>10, <2>5, <2>6, <2>8
<1> QED
    BY <1>3, <1>9, <1>10

\* An instant is read back as it was written.
LEMMA ParsedIsWritten ==
    ASSUME NEW w \in Nat, NEW at \in [second : Int, fraction : [1 .. w -> 0 .. 9]]
    PROVE  Parse(Format(at), w) = at
<1>1. PICK k : k = Kept(at.fraction)
    OBVIOUS
<1>2. PICK f : f = at.fraction
    OBVIOUS
<1>3. f \in [1 .. w -> 0 .. 9]
    BY <1>2
<1>4. k \in 0 .. w /\ \A i \in 1 .. w : i > k => f[i] = 0
    BY <1>1, <1>2, <1>3, TrimmedIs
<1>5. PICK F : F = Format(at)
    OBVIOUS
<1>6. /\ F[1] = at.second
      /\ k = 0 => Len(F) = 2
      /\ k > 0 => Len(F) = k + 3 /\ \A i \in 1 .. k : F[i + 2] = Zero + f[i]
    BY <1>1, <1>2, <1>5, FormatIs
<1>7. ASSUME NEW i \in 1 .. w
      PROVE  (IF i + 3 <= Len(F) THEN F[i + 2] - Zero ELSE 0) = f[i]
    <2>1. CASE i <= k
        <3>1. i \in 1 .. k /\ k > 0 /\ i + 3 <= k + 3
            BY <1>4, <2>1
        <3>2. Len(F) = k + 3 /\ F[i + 2] = Zero + f[i] /\ f[i] \in 0 .. 9
            BY <1>3, <1>6, <3>1
        <3> QED
            BY <3>1, <3>2 DEF Zero
    <2>2. CASE i > k
        BY <1>4, <1>6, <2>2
    <2> QED
        BY <1>4, <2>1, <2>2
<1>8. [i \in 1 .. w |-> IF i + 3 <= Len(F) THEN F[i + 2] - Zero ELSE 0] = f
    BY <1>3, <1>7
<1> QED
    BY <1>2, <1>5, <1>6, <1>8 DEF Parse

LEMMA FractionIs ==
    ASSUME NEW w \in Nat, NEW f \in [1 .. w -> 0 .. 9]
    PROVE  f \in Seq(Int) /\ Len(f) = w
OBVIOUS

\* Instants as sequences of a second and the digits.
LEMMA LaterIs ==
    ASSUME NEW w \in Nat,
           NEW a \in [second : Int, fraction : [1 .. w -> 0 .. 9]],
           NEW b \in [second : Int, fraction : [1 .. w -> 0 .. 9]]
    PROVE  Later(b, a) <=>
              \/ b.second > a.second
              \/ /\ b.second = a.second
                 /\ \E n \in 1 .. w :
                       /\ \A m \in 1 .. n - 1 : b.fraction[m] = a.fraction[m]
                       /\ b.fraction[n] > a.fraction[n]
<1>1. PICK f, g : f = a.fraction /\ g = b.fraction
    OBVIOUS
<1>2. PICK s, t : s = <<a.second>> \o f /\ t = <<b.second>> \o g
    OBVIOUS
<1>3. /\ a.second \in Int /\ b.second \in Int
      /\ f \in [1 .. w -> 0 .. 9] /\ g \in [1 .. w -> 0 .. 9]
    BY <1>1
<1>4. /\ f \in Seq(Int) /\ Len(f) = w
      /\ g \in Seq(Int) /\ Len(g) = w
    <2>1. f \in Seq(Int) /\ Len(f) = w
        BY <1>3, FractionIs
    <2>2. g \in Seq(Int) /\ Len(g) = w
        BY <1>3, FractionIs
    <2> QED
        BY <2>1, <2>2
<1>5. /\ s \in Seq(Int) /\ t \in Seq(Int) /\ Len(s) = w + 1 /\ Len(t) = w + 1
      /\ s[1] = a.second /\ t[1] = b.second
      /\ \A n \in 1 .. w : s[n + 1] = f[n] /\ t[n + 1] = g[n]
    <2>1. <<a.second>> \in Seq(Int) /\ <<b.second>> \in Seq(Int)
        BY <1>3
    <2>2. /\ <<a.second>> \o f \in Seq(Int) /\ Len(<<a.second>> \o f) = w + 1
          /\ (<<a.second>> \o f)[1] = a.second
          /\ \A n \in 1 .. w : (<<a.second>> \o f)[n + 1] = f[n]
        BY <1>4, <2>1
    <2>3. /\ <<b.second>> \o g \in Seq(Int) /\ Len(<<b.second>> \o g) = w + 1
          /\ (<<b.second>> \o g)[1] = b.second
          /\ \A n \in 1 .. w : (<<b.second>> \o g)[n + 1] = g[n]
        BY <1>4, <2>1
    <2> QED
        BY <1>2, <2>2, <2>3
<1>6. Later(b, a) <=> \E i \in Nat : AfterAt(t, s, i)
    BY <1>1, <1>2, <1>5, AfterIs DEF Later
<1>7. AfterAt(t, s, 1) <=> b.second > a.second
    <2>1. 1 \in 1 .. Len(t) /\ 1 <= Len(s) /\ 1 <= Len(s) + 1 /\ 1 .. 1 - 1 = {}
        BY <1>5
    <2> QED
        BY <1>5, <2>1 DEF AfterAt
<1>8. ASSUME NEW n \in 1 .. w
      PROVE  AfterAt(t, s, n + 1) <=>
                /\ b.second = a.second
                /\ \A m \in 1 .. n - 1 : g[m] = f[m]
                /\ g[n] > f[n]
    <2>1. n + 1 \in 1 .. Len(t) /\ n + 1 <= Len(s) /\ n + 1 <= Len(s) + 1
        BY <1>5
    <2>2. AfterAt(t, s, n + 1) <=> (\A j \in 1 .. n : t[j] = s[j]) /\ g[n] > f[n]
        <3>1. (n + 1) - 1 = n
            OBVIOUS
        <3> QED
            BY <1>5, <2>1, <3>1 DEF AfterAt
    <2>3. ASSUME \A j \in 1 .. n : t[j] = s[j]
          PROVE  b.second = a.second /\ \A m \in 1 .. n - 1 : g[m] = f[m]
        <3>1. 1 \in 1 .. n
            OBVIOUS
        <3>2. ASSUME NEW m \in 1 .. n - 1 PROVE g[m] = f[m]
            <4>1. m + 1 \in 1 .. n /\ m \in 1 .. w
                OBVIOUS
            <4> QED
                BY <1>5, <2>3, <4>1
        <3> QED
            BY <1>5, <2>3, <3>1, <3>2
    <2>4. ASSUME b.second = a.second, \A m \in 1 .. n - 1 : g[m] = f[m],
                 NEW j \in 1 .. n
          PROVE  t[j] = s[j]
        <3>1. CASE j = 1
            BY <1>5, <2>4, <3>1
        <3>2. CASE j # 1
            <4>1. PICK m \in 1 .. n - 1 : j = m + 1
                <5>1. j - 1 \in 1 .. n - 1 /\ j = (j - 1) + 1
                    BY <3>2
                <5> QED
                    BY <5>1
            <4>2. m \in 1 .. w
                OBVIOUS
            <4> QED
                BY <1>5, <2>4, <4>1, <4>2
        <3> QED
            BY <3>1, <3>2
    <2> QED
        BY <2>2, <2>3, <2>4
<1>9. ASSUME NEW i \in Nat, AfterAt(t, s, i)
      PROVE  i = 1 \/ \E n \in 1 .. w : i = n + 1
    <2>1. i \in 1 .. w + 1
        BY <1>5, <1>9 DEF AfterAt
    <2>2. i # 1 => i - 1 \in 1 .. w /\ i = (i - 1) + 1
        BY <2>1
    <2> QED
        BY <2>2
<1>10. 1 \in Nat /\ \A n \in 1 .. w : n + 1 \in Nat
    OBVIOUS
<1>11. Later(b, a) <=> AfterAt(t, s, 1) \/ \E n \in 1 .. w : AfterAt(t, s, n + 1)
    BY <1>6, <1>9, <1>10
<1> QED
    BY <1>1, <1>7, <1>8, <1>11

\* The older of two instants of a second, whose digits begin the newer's.
MisreadAs(a, b) ==
    a.second = b.second /\ IsStrictPrefix(Trimmed(a.fraction), Trimmed(b.fraction))

\* A misread instant is older.
LEMMA MisreadIsOlder ==
    ASSUME NEW w \in Nat,
           NEW a \in [second : Int, fraction : [1 .. w -> 0 .. 9]],
           NEW b \in [second : Int, fraction : [1 .. w -> 0 .. 9]],
           MisreadAs(a, b)
    PROVE  Later(b, a)
<1>1. PICK f, g : f = a.fraction /\ g = b.fraction
    OBVIOUS
<1>2. f \in [1 .. w -> 0 .. 9] /\ g \in [1 .. w -> 0 .. 9]
    BY <1>1
<1>3. PICK k, l : k = Kept(f) /\ l = Kept(g)
    OBVIOUS
<1>4. /\ k \in 0 .. w /\ l \in 0 .. w
      /\ Trimmed(f) \in Seq(Int) /\ Trimmed(g) \in Seq(Int)
      /\ \A i \in 1 .. k : Trimmed(f)[i] = f[i]
      /\ \A i \in 1 .. l : Trimmed(g)[i] = g[i]
      /\ l > 0 => g[l] # 0
      /\ \A i \in 1 .. w : i > k => f[i] = 0
    BY <1>2, <1>3, TrimmedIs
<1>5. IsStrictPrefix(Trimmed(f), Trimmed(g))
    BY <1>1 DEF MisreadAs
<1>6. k < l /\ \A j \in 1 .. k : Trimmed(f)[j] = Trimmed(g)[j]
    BY <1>3, <1>4, <1>5, StrictPrefixIs DEF Kept
<1>7. PICK S : S = {n \in Nat : n \in 1 .. w /\ n > k /\ g[n] # 0}
    OBVIOUS
<1>8. PICK n \in S : \A m \in S : n <= m
    <2>1. l \in S
        BY <1>4, <1>6, <1>7
    <2>2. S \in SUBSET Nat
        BY <1>7
    <2> QED
        BY <2>1, <2>2, LeastNumber
<1>9. n \in 1 .. w /\ n > k /\ g[n] # 0 /\ f[n] = 0 /\ g[n] \in 0 .. 9
    BY <1>2, <1>4, <1>7, <1>8
<1>10. ASSUME NEW m \in 1 .. n - 1 PROVE g[m] = f[m]
    <2>1. CASE m <= k
        <3>1. m \in 1 .. k /\ m \in 1 .. l
            BY <1>4, <1>6, <2>1
        <3> QED
            BY <1>4, <1>6, <3>1
    <2>2. CASE m > k
        <3>1. m \in 1 .. w /\ m \in Nat /\ ~(n <= m)
            BY <1>9
        <3>2. m \notin S
            BY <1>8, <3>1
        <3> QED
            BY <1>4, <1>7, <2>2, <3>1, <3>2
    <2> QED
        BY <1>4, <2>1, <2>2
<1>11. g[n] > f[n]
    BY <1>9
<1>12. a.second = b.second
    BY DEF MisreadAs
<1>13. \E x \in 1 .. w : (\A m \in 1 .. x - 1 : g[m] = f[m]) /\ g[x] > f[x]
    BY <1>9, <1>10, <1>11
<1> QED
    BY <1>1, <1>12, <1>13, LaterIs

\* A later instant is not after, as a text, only when it is misread.
LEMMA LaterIsAfter ==
    ASSUME NEW w \in Nat,
           NEW a \in [second : Int, fraction : [1 .. w -> 0 .. 9]],
           NEW b \in [second : Int, fraction : [1 .. w -> 0 .. 9]],
           Later(b, a), ~MisreadAs(a, b)
    PROVE  After(Format(b), Format(a))
<1>1. PICK f, g : f = a.fraction /\ g = b.fraction
    OBVIOUS
<1>2. /\ f \in [1 .. w -> 0 .. 9] /\ g \in [1 .. w -> 0 .. 9]
      /\ a.second \in Int /\ b.second \in Int
    BY <1>1
<1>3. PICK k, l : k = Kept(f) /\ l = Kept(g)
    OBVIOUS
<1>4. /\ k \in 0 .. w /\ l \in 0 .. w
      /\ Trimmed(f) \in Seq(Int) /\ Trimmed(g) \in Seq(Int)
      /\ \A i \in 1 .. k : Trimmed(f)[i] = f[i]
      /\ \A i \in 1 .. l : Trimmed(g)[i] = g[i]
      /\ \A i \in 1 .. w : i > l => g[i] = 0
    BY <1>2, <1>3, TrimmedIs
<1>5. PICK A, B : A = Format(a) /\ B = Format(b)
    OBVIOUS
<1>6. /\ A \in Seq(Int) /\ A[1] = a.second
      /\ k = 0 => Len(A) = 2
      /\ k > 0 => /\ Len(A) = k + 3 /\ A[2] = Dot
                  /\ \A i \in 1 .. k : A[i + 2] = Zero + f[i]
    BY <1>1, <1>3, <1>5, FormatIs
<1>7. /\ B \in Seq(Int) /\ B[1] = b.second
      /\ l = 0 => Len(B) = 2
      /\ l > 0 => /\ Len(B) = l + 3 /\ B[2] = Dot
                  /\ \A i \in 1 .. l : B[i + 2] = Zero + g[i]
    BY <1>1, <1>3, <1>5, FormatIs
<1>8. CASE b.second > a.second
    <2>1. Len(B) >= 1 /\ Len(A) >= 1 /\ Len(A) \in Nat /\ Len(B) \in Nat
        <3>1. PICK p, q : p = Len(A) /\ q = Len(B)
            OBVIOUS
        <3>2. k \in Nat /\ l \in Nat
            BY <1>4
        <3>3. p = 2 \/ p = k + 3
            BY <1>6, <3>1, <3>2
        <3>4. q = 2 \/ q = l + 3
            BY <1>7, <3>1, <3>2
        <3>5. p \in Nat /\ p >= 1 /\ q \in Nat /\ q >= 1
            BY <3>2, <3>3, <3>4
        <3> QED
            BY <3>1, <3>5
    <2>2. 1 \in 1 .. Len(B) /\ 1 <= Len(A) + 1 /\ 1 .. 1 - 1 = {} /\ 1 \in Nat
        BY <2>1
    <2>3. AfterAt(B, A, 1)
        BY <1>6, <1>7, <1>8, <2>2 DEF AfterAt
    <2> QED
        BY <1>5, <1>6, <1>7, <2>2, <2>3, AfterIs
<1>9. CASE ~(b.second > a.second)
    <2>1. /\ b.second = a.second
          /\ \E n \in 1 .. w : (\A m \in 1 .. n - 1 : g[m] = f[m]) /\ g[n] > f[n]
        BY <1>1, <1>9, LaterIs
    <2>2. PICK n \in 1 .. w : (\A m \in 1 .. n - 1 : g[m] = f[m]) /\ g[n] > f[n]
        BY <2>1
    <2>3. f[n] \in 0 .. 9 /\ g[n] \in 0 .. 9
        BY <1>2
    <2>4. n <= l /\ n \in Nat
        BY <1>4, <2>2, <2>3
    <2>5. CASE k < n
        <3>1. ASSUME NEW j \in 1 .. k PROVE Trimmed(f)[j] = Trimmed(g)[j]
            <4>1. j \in 1 .. l /\ j \in 1 .. n - 1
                BY <1>4, <2>4, <2>5
            <4> QED
                BY <1>4, <2>2, <4>1
        <3>2. k < l
            BY <1>4, <2>4, <2>5
        <3>3. IsStrictPrefix(Trimmed(f), Trimmed(g))
            BY <1>3, <1>4, <3>1, <3>2, StrictPrefixIs DEF Kept
        <3> QED
            BY <1>1, <2>1, <3>3 DEF MisreadAs
    <2>6. CASE k >= n
        <3>1. /\ Len(A) = k + 3 /\ A[2] = Dot
              /\ Len(B) = l + 3 /\ B[2] = Dot
              /\ \A i \in 1 .. n : A[i + 2] = Zero + f[i] /\ B[i + 2] = Zero + g[i]
            <4>1. k > 0 /\ l > 0 /\ \A i \in 1 .. n : i \in 1 .. k /\ i \in 1 .. l
                BY <1>4, <2>4, <2>6
            <4> QED
                BY <1>6, <1>7, <4>1
        <3>2. ASSUME NEW j \in 1 .. n + 1 PROVE B[j] = A[j]
            <4>1. CASE j = 1
                BY <1>6, <1>7, <2>1, <4>1
            <4>2. CASE j = 2
                BY <3>1, <4>2
            <4>3. CASE j > 2
                <5>1. PICK m \in 1 .. n - 1 : j = m + 2
                    <6>1. j - 2 \in 1 .. n - 1 /\ j = (j - 2) + 2
                        BY <2>4, <4>3
                    <6> QED
                        BY <6>1
                <5>2. m \in 1 .. n
                    BY <2>4
                <5> QED
                    BY <2>2, <3>1, <5>1, <5>2
            <4> QED
                BY <4>1, <4>2, <4>3
        <3>3. n \in 1 .. n /\ n + 2 \in Nat
            BY <2>4
        <3>4. B[n + 2] > A[n + 2]
            <4>1. A[n + 2] = Zero + f[n] /\ B[n + 2] = Zero + g[n]
                BY <3>1, <3>3
            <4>2. PICK x \in 0 .. 9, y \in 0 .. 9 : x = f[n] /\ y = g[n]
                BY <2>3
            <4> QED
                BY <2>2, <4>1, <4>2 DEF Zero
        <3>5. n + 2 \in 1 .. Len(B) /\ n + 2 <= Len(A) + 1 /\ (n + 2) - 1 = n + 1
            BY <1>4, <2>4, <2>6, <3>1
        <3>6. AfterAt(B, A, n + 2)
            BY <3>2, <3>4, <3>5 DEF AfterAt
        <3> QED
            BY <1>5, <1>6, <1>7, <3>3, <3>6, AfterIs
    <2> QED
        BY <1>4, <2>4, <2>5, <2>6
<1> QED
    BY <1>8, <1>9

\* Of finitely many instants, each with a fraction of as many digits: every one
\* is read back as it was written, and they are listed newest first except for
\* two within a second whose digits begin alike (internal/storage/sqlite,
\* SnapshotStore.ListByResource).
THEOREM HistoriesAreOrdered ==
    ASSUME NEW width \in Nat,
           NEW instants \in SUBSET [second : Int, fraction : [1 .. width -> 0 .. 9]],
           IsFiniteSet(instants)
    PROVE  HistoryIsOrdered(instants, width)
<1>1. PICK rows : rows = {Row(at) : at \in instants}
    OBVIOUS
<1>2. IsFiniteSet(rows)
    <2> DEFINE row == [at \in instants |-> Row(at)]
    <2>1. row \in Surjection(instants, rows)
        BY <1>1 DEF Surjection
    <2> HIDE DEF row
    <2> QED
        BY <2>1, FS_Surjection
<1>3. ASSUME NEW at \in instants
      PROVE  Row(at).observed_at \in Seq(Int) /\ Parse(Row(at).observed_at, width) = at
    <2>1. PICK k : k = Kept(at.fraction)
        OBVIOUS
    <2>2. Format(at) \in Seq(Int)
        BY <2>1, FormatIs
    <2>3. Parse(Format(at), width) = at
        BY ParsedIsWritten
    <2> QED
        BY <2>2, <2>3 DEF Row
<1>4. \A r \in rows : r.observed_at \in Seq(Int)
    BY <1>1, <1>3
<1>5. ListByResource(rows) # {}
    BY <1>2, <1>4, RowsAreListed
<1>6. ASSUME NEW list \in ListByResource(rows), NEW i \in DOMAIN list, NEW j \in DOMAIN list,
             i < j
      PROVE  LET a == Parse(list[i].observed_at, width)
                 b == Parse(list[j].observed_at, width)
             IN  Later(b, a) <=> MisreadAs(a, b)
    <2>1. list[i] \in rows /\ list[j] \in rows
        BY <1>6 DEF ListByResource, SetToSeqs
    <2>2. PICK a \in instants, b \in instants : list[i] = Row(a) /\ list[j] = Row(b)
        BY <1>1, <2>1
    <2>3. ~After(list[j].observed_at, list[i].observed_at)
        BY <1>6 DEF ListByResource
    <2>4. ~After(Format(b), Format(a))
        BY <2>2, <2>3 DEF Row
    <2>5. Later(b, a) <=> MisreadAs(a, b)
        BY <2>4, MisreadIsOlder, LaterIsAfter
    <2> QED
        BY <1>3, <2>2, <2>5
<1>7. /\ \A at \in instants : Parse(Row(at).observed_at, width) = at
      /\ ListByResource({Row(at) : at \in instants}) # {}
      /\ \A list \in ListByResource({Row(at) : at \in instants}) :
            \A i, j \in DOMAIN list :
               i < j => (Later(Parse(list[j].observed_at, width),
                               Parse(list[i].observed_at, width))
                            <=> MisreadAs(Parse(list[i].observed_at, width),
                                          Parse(list[j].observed_at, width)))
    BY <1>1, <1>3, <1>5, <1>6
<1> QED
    BY <1>7 DEF HistoryIsOrdered, MisreadAs

(***************************************************************************)
(* What of a content is shown                                              *)
(***************************************************************************)

\* A rune is the k bytes that end at n.
RuneAt(b, n, k) == k <= n /\ IsRune(SubSeq(b, n - k + 1, n))

\* The recursion over the lengths defines where whole runes end.
LEMMA EndsAre ==
    ASSUME NEW b, Len(b) \in Nat
    PROVE  \A n : n \in RuneEnds(b) <=>
                     /\ n \in 0 .. Len(b)
                     /\ \/ n = 0
                        \/ \E k \in 1 .. 4 : RuneAt(b, n, k) /\ n - k \in RuneEnds(b)
<1> DEFINE N == Len(b)
           Ends(f, n) == n = 0 \/ \E k \in 1 .. 4 :
                                     k <= n /\ IsRune(SubSeq(b, n - k + 1, n)) /\ f[n - k]
           Good(f, m) == f = [n \in 0 .. m |-> Ends(f, n)]
           Wrong == {n \in 0 .. N : ~\E f : Good(f, n)}
<1>1. \E f : Good(f, N)
    <2> SUFFICES ASSUME Wrong # {} PROVE FALSE
        OBVIOUS
    <2>1. PICK m \in Wrong : \A n \in Wrong : m <= n
        <3>1. Wrong \in SUBSET Nat
            OBVIOUS
        <3> HIDE DEF Wrong
        <3> QED
            BY <3>1, LeastNumber
    <2>2. m \in 0 .. N /\ ~\E f : Good(f, m)
        OBVIOUS
    <2>3. CASE m = 0
        <3> DEFINE f == [n \in 0 .. 0 |-> TRUE]
        <3>1. \A n \in 0 .. 0 : Ends(f, n) = TRUE
            OBVIOUS
        <3>2. Good(f, 0)
            BY <3>1
        <3> QED
            BY <2>2, <2>3, <3>2
    <2>4. CASE m # 0
        <3>1. m - 1 \in 0 .. N /\ m - 1 \notin Wrong
            BY <2>1, <2>2, <2>4
        <3>2. PICK g : Good(g, m - 1)
            BY <3>1
        <3> DEFINE f == [n \in 0 .. m |-> Ends(g, n)]
        <3>3. \A n \in 0 .. m - 1 : f[n] = g[n]
            <4>1. \A n \in 0 .. m - 1 : g[n] = Ends(g, n) /\ n \in 0 .. m
                BY <2>2, <3>2
            <4> HIDE DEF Ends
            <4> QED
                BY <4>1
        <3>4. ASSUME NEW n \in 0 .. m PROVE Ends(g, n) = Ends(f, n)
            <4>1. ASSUME NEW k \in 1 .. 4, k <= n PROVE f[n - k] = g[n - k]
                <5>1. n - k \in 0 .. m - 1
                    BY <2>2, <4>1
                <5> HIDE DEF f
                <5> QED
                    BY <3>3, <5>1
            <4> HIDE DEF f
            <4> QED
                BY <4>1
        <3>5. Good(f, m)
            <4> HIDE DEF Ends
            <4> QED
                BY <3>4
        <3> QED
            BY <2>2, <3>5
    <2> QED
        BY <2>3, <2>4
<1>2. PICK E : E = CHOOSE f : Good(f, N)
    OBVIOUS
<1>3. RuneEnds(b) = {n \in 0 .. N : E[n]}
    BY <1>2 DEF RuneEnds
<1>4. Good(E, N)
    <2> HIDE DEF Good
    <2> QED
        BY <1>1, <1>2
<1>5. \A n \in 0 .. N : E[n] = Ends(E, n)
    <2> HIDE DEF Ends
    <2> QED
        BY <1>4
<1>6. ASSUME NEW n \in 0 .. N
      PROVE  Ends(E, n) <=> n = 0 \/ \E k \in 1 .. 4 : RuneAt(b, n, k) /\ n - k \in RuneEnds(b)
    <2>1. \A k \in 1 .. 4 : k <= n => n - k \in 0 .. N
        OBVIOUS
    <2>2. \A k \in 1 .. 4 : k <= n => (E[n - k] <=> n - k \in RuneEnds(b))
        BY <1>3, <2>1
    <2> QED
        BY <2>2 DEF RuneAt
<1>7. \A n \in 0 .. N : n \in RuneEnds(b) <=> Ends(E, n)
    BY <1>3, <1>5
<1>8. \A n : n \in RuneEnds(b) => n \in 0 .. N
    BY <1>3
<1> HIDE DEF Ends
<1> QED
    BY <1>6, <1>7, <1>8

LEMMA LengthsAre == \A byte : sequenceLength(byte) \in 1 .. 4
BY DEF sequenceLength

\* The bytes of a rune in its content.
LEMMA RuneIs ==
    ASSUME NEW b \in Seq(ByteClasses), NEW n \in 1 .. Len(b), NEW k \in 1 .. 4
    PROVE  RuneAt(b, n, k) <=>
              /\ k <= n
              /\ b[n - k + 1] \notin {"cont", "bad"}
              /\ k = sequenceLength(b[n - k + 1])
              /\ \A i \in n - k + 2 .. n : b[i] = "cont"
<1> SUFFICES ASSUME k <= n
             PROVE  IsRune(SubSeq(b, n - k + 1, n)) <=>
                       /\ b[n - k + 1] \notin {"cont", "bad"}
                       /\ k = sequenceLength(b[n - k + 1])
                       /\ \A i \in n - k + 2 .. n : b[i] = "cont"
    BY DEF RuneAt
<1>1. Len(b) \in Nat
    OBVIOUS
<1>2. PICK p \in 1 .. n : p = n - k + 1
    OBVIOUS
<1>3. PICK s : s = SubSeq(b, p, n)
    OBVIOUS
<1>4. Len(s) = k /\ \A i \in 1 .. k : s[i] = b[p + i - 1]
    <2>1. SubSeq(b, p, n) = [i \in 1 .. n - p + 1 |-> b[p + i - 1]]
        BY <1>1
    <2>2. n - p + 1 = k
        BY <1>2
    <2>3. s = [i \in 1 .. k |-> b[p + i - 1]]
        BY <1>3, <2>1, <2>2
    <2> QED
        BY <2>3
<1>5. s[1] = b[p]
    <2>1. 1 \in 1 .. k /\ p + 1 - 1 = p
        OBVIOUS
    <2> QED
        BY <1>4, <2>1
<1>6. (\A i \in 2 .. k : s[i] = "cont") <=> \A i \in p + 1 .. n : b[i] = "cont"
    <2>1. ASSUME \A i \in 2 .. k : s[i] = "cont", NEW j \in p + 1 .. n
          PROVE  b[j] = "cont"
        <3>1. j - p + 1 \in 2 .. k /\ j - p + 1 \in 1 .. k /\ p + (j - p + 1) - 1 = j
            BY <1>2
        <3> QED
            BY <1>4, <2>1, <3>1
    <2>2. ASSUME \A j \in p + 1 .. n : b[j] = "cont", NEW i \in 2 .. k
          PROVE  s[i] = "cont"
        <3>1. p + i - 1 \in p + 1 .. n /\ i \in 1 .. k
            BY <1>2
        <3> QED
            BY <1>4, <2>2, <3>1
    <2> QED
        BY <2>1, <2>2
<1>7. n - k + 2 = p + 1
    BY <1>2
<1> QED
    BY <1>2, <1>3, <1>4, <1>5, <1>6, <1>7 DEF IsRune

\* The rune that opens at q holds the byte p and is one of the content's.
Cover(b, p, q) ==
    LET l == sequenceLength(b[q]) IN
    /\ q \in 1 .. p /\ p <= q - 1 + l
    /\ b[q] \notin {"cont", "bad"}
    /\ q - 1 \in RuneEnds(b) /\ q - 1 + l \in RuneEnds(b)
    /\ \A i \in q + 1 .. q - 1 + l : b[i] = "cont"

\* Every byte of a valid content is in one of its runes.
LEMMA EveryByteIsCovered ==
    ASSUME NEW b \in Seq(ByteClasses), Valid(b), NEW p \in 1 .. Len(b)
    PROVE  \E q \in 1 .. p : Cover(b, p, q)
<1> DEFINE Wrong == {n \in Nat : n \in RuneEnds(b) /\ \E x \in 1 .. n : ~\E q \in 1 .. x : Cover(b, x, q)}
<1>1. Len(b) \in Nat
    OBVIOUS
<1>2. \A n : n \in RuneEnds(b) <=>
                /\ n \in 0 .. Len(b)
                /\ \/ n = 0
                   \/ \E k \in 1 .. 4 : RuneAt(b, n, k) /\ n - k \in RuneEnds(b)
    BY <1>1, EndsAre
<1>3. Wrong = {}
    <2> SUFFICES ASSUME Wrong # {} PROVE FALSE
        OBVIOUS
    <2>1. PICK n \in Wrong : \A m \in Wrong : n <= m
        <3>1. Wrong \in SUBSET Nat
            OBVIOUS
        <3> HIDE DEF Wrong
        <3> QED
            BY <3>1, LeastNumber
    <2>2. n \in RuneEnds(b) /\ n \in Nat
        OBVIOUS
    <2>3. PICK x \in 1 .. n : ~\E q \in 1 .. x : Cover(b, x, q)
        BY <2>1
    <2>4. n \in 1 .. Len(b)
        BY <1>1, <1>2, <2>2, <2>3
    <2>5. PICK k \in 1 .. 4 : RuneAt(b, n, k) /\ n - k \in RuneEnds(b)
        BY <1>2, <2>2, <2>4
    <2>6. /\ k <= n
          /\ b[n - k + 1] \notin {"cont", "bad"}
          /\ k = sequenceLength(b[n - k + 1])
          /\ \A i \in n - k + 2 .. n : b[i] = "cont"
        BY <2>4, <2>5, RuneIs
    <2>7. PICK m \in Nat : m = n - k
        BY <2>2, <2>6
    <2>8. CASE x <= m
        <3>1. m \notin Wrong
            <4>1. ~(n <= m)
                BY <2>2, <2>7
            <4> HIDE DEF Wrong
            <4> QED
                BY <2>1, <4>1
        <3>2. x \in 1 .. m /\ m \in RuneEnds(b)
            BY <2>5, <2>7, <2>8
        <3> QED
            BY <2>3, <3>1, <3>2
    <2>9. CASE x > m
        <3>1. PICK q \in 1 .. x : q = m + 1
            BY <2>7, <2>9
        <3>2. /\ q = n - k + 1 /\ q + 1 = n - k + 2 /\ q - 1 + k = n /\ q - 1 = n - k
              /\ x <= q - 1 + k
            BY <2>2, <2>7, <3>1
        <3>3. Cover(b, x, q)
            BY <2>2, <2>5, <2>6, <3>2 DEF Cover
        <3> QED
            BY <2>3, <3>3
    <2> QED
        BY <2>2, <2>7, <2>8, <2>9
<1> QED
    BY <1>1, <1>3 DEF Valid

\* A rune that ends in a rune of the content is that rune.
LEMMA RunesAreTheContents ==
    ASSUME NEW b \in Seq(ByteClasses), NEW n \in 1 .. Len(b), NEW k \in 1 .. 4,
           RuneAt(b, n, k), NEW q \in 1 .. n, Cover(b, n, q)
    PROVE  n = q - 1 + sequenceLength(b[q])
<1>1. PICK l \in 1 .. 4 : l = sequenceLength(b[q])
    BY LengthsAre
<1>2. /\ k <= n
      /\ b[n - k + 1] \notin {"cont", "bad"}
      /\ k = sequenceLength(b[n - k + 1])
      /\ \A i \in n - k + 2 .. n : b[i] = "cont"
    BY RuneIs
<1>3. PICK p \in 1 .. n : p = n - k + 1
    BY <1>2
<1>4. /\ n <= q - 1 + l /\ b[q] \notin {"cont", "bad"}
      /\ \A i \in q + 1 .. q - 1 + l : b[i] = "cont"
    BY <1>1 DEF Cover
<1>5. CASE p = q
    BY <1>1, <1>2, <1>3, <1>5
<1>6. CASE p < q
    <2>1. q \in n - k + 2 .. n
        BY <1>3, <1>6
    <2> QED
        BY <1>2, <1>4, <2>1
<1>7. CASE p > q
    <2>1. p \in q + 1 .. q - 1 + l
        BY <1>3, <1>4, <1>7
    <2>2. b[p] # "cont"
        BY <1>2, <1>3
    <2> QED
        BY <1>4, <2>1, <2>2
<1> QED
    BY <1>3, <1>5, <1>6, <1>7

\* In a valid content a rune ends only where one of its runes does.
LEMMA EndsOfRunes ==
    ASSUME NEW b \in Seq(ByteClasses), Valid(b), NEW n \in 1 .. Len(b)
    PROVE  n \in RuneEnds(b) <=> \E k \in 1 .. 4 : RuneAt(b, n, k)
<1>1. Len(b) \in Nat
    OBVIOUS
<1>2. ASSUME n \in RuneEnds(b) PROVE \E k \in 1 .. 4 : RuneAt(b, n, k)
    BY <1>1, <1>2, EndsAre
<1>3. ASSUME NEW k \in 1 .. 4, RuneAt(b, n, k) PROVE n \in RuneEnds(b)
    <2>1. PICK q \in 1 .. n : Cover(b, n, q)
        BY EveryByteIsCovered
    <2>2. n = q - 1 + sequenceLength(b[q])
        BY <1>3, <2>1, RunesAreTheContents
    <2> QED
        BY <2>1, <2>2 DEF Cover
<1> QED
    BY <1>2, <1>3

LEMMA PartIs ==
    ASSUME NEW b \in Seq(ByteClasses), NEW n \in 0 .. Len(b), NEW p \in 1 .. n
    PROVE  SubSeq(b, p, n) = [i \in 1 .. n - p + 1 |-> b[p + i - 1]]
OBVIOUS

LEMMA PrefixIs ==
    ASSUME NEW b \in Seq(ByteClasses), NEW n \in 0 .. Len(b)
    PROVE  /\ Prefix(b, n) \in Seq(ByteClasses)
           /\ Len(Prefix(b, n)) = n
           /\ \A i \in 1 .. n : Prefix(b, n)[i] = b[i]
<1>1. Prefix(b, n) = [i \in 1 .. n |-> b[i]]
    BY DEF Prefix
<1>2. \A i \in 1 .. n : b[i] \in ByteClasses
    OBVIOUS
<1> QED
    BY <1>1, <1>2

LEMMA PrefixOfPrefix ==
    ASSUME NEW b \in Seq(ByteClasses), NEW m \in 0 .. Len(b), NEW n \in 0 .. m
    PROVE  Prefix(Prefix(b, m), n) = Prefix(b, n)
<1>1. n \in 0 .. Len(b) /\ Len(b) \in Nat
    OBVIOUS
<1>2. Prefix(b, m) \in Seq(ByteClasses) /\ Len(Prefix(b, m)) = m
      /\ \A i \in 1 .. m : Prefix(b, m)[i] = b[i]
    BY PrefixIs
<1>3. PICK c : c = Prefix(b, m)
    OBVIOUS
<1>4. c \in Seq(ByteClasses) /\ n \in 0 .. Len(c)
    BY <1>2, <1>3
<1>5. Prefix(c, n) = [i \in 1 .. n |-> c[i]] /\ Prefix(b, n) = [i \in 1 .. n |-> b[i]]
    BY <1>1, <1>4 DEF Prefix
<1>6. \A i \in 1 .. n : c[i] = b[i]
    BY <1>2, <1>3
<1> QED
    BY <1>3, <1>5, <1>6

\* Whole runes end at 0 and at a last length within a cap.
LEMMA WholeIs ==
    ASSUME NEW b \in Seq(ByteClasses), NEW L \in Nat,
           NEW whole, whole = {n \in RuneEnds(b) : n <= L}
    PROVE  /\ 0 \in whole
           /\ Max(whole) \in whole /\ Max(whole) \in 0 .. Len(b)
           /\ \A n \in whole : n <= Max(whole)
<1>1. Len(b) \in Nat
    OBVIOUS
<1>2. \A n : n \in RuneEnds(b) => n \in 0 .. Len(b)
    BY <1>1, EndsAre
<1>3. 0 \in RuneEnds(b)
    BY <1>1, EndsAre
<1>4. whole \in SUBSET Int /\ 0 \in whole /\ (\A n \in whole : n <= L) /\ L \in Int
    BY <1>1, <1>2, <1>3
<1>5. Max(whole) \in whole /\ \A n \in whole : n <= Max(whole)
    BY <1>4, GreatestIs
<1> QED
    BY <1>2, <1>4, <1>5

\* The server drops bytes until a rune ends.
LEMMA ServerTrims ==
    ASSUME NEW b \in Seq(ByteClasses), NEW L \in Nat, L <= Len(b)
    PROVE  /\ \E n \in 0 .. L : trimToRuneBoundary(Prefix(b, L)) = Prefix(b, n)
           /\ Valid(b) =>
                 trimToRuneBoundary(Prefix(b, L))
                     = Prefix(b, Max({n \in RuneEnds(b) : n <= L}))
<1>1. Len(b) \in Nat
    OBVIOUS
<1>2. PICK c : c = Prefix(b, L)
    OBVIOUS
<1>3. c \in Seq(ByteClasses) /\ Len(c) = L /\ \A n \in 0 .. L : Prefix(c, n) = Prefix(b, n)
    BY <1>1, <1>2, PrefixIs, PrefixOfPrefix
<1>4. PICK S : S = {0} \cup {n \in 1 .. L : EndsWithRune(Prefix(b, n))}
    OBVIOUS
<1>5. {0} \cup {n \in 1 .. Len(c) : EndsWithRune(Prefix(c, n))} = S
    BY <1>3, <1>4
<1>6. S \in SUBSET Int /\ S # {} /\ (\A n \in S : n <= L) /\ L \in Int
    BY <1>4
<1>7. Max(S) \in S
    BY <1>6, GreatestIs
<1>8. Max(S) \in 0 .. L
    BY <1>4, <1>7
<1>9. trimToRuneBoundary(c) = Prefix(b, Max(S))
    BY <1>3, <1>5, <1>8 DEF trimToRuneBoundary
<1>10. ASSUME Valid(b) PROVE S = {n \in RuneEnds(b) : n <= L}
    <2>1. ASSUME NEW n \in 1 .. L
          PROVE  EndsWithRune(Prefix(b, n)) <=> n \in RuneEnds(b)
        <3>1. n \in 0 .. Len(b) /\ n \in 1 .. Len(b)
            BY <1>1
        <3>2. PICK d : d = Prefix(b, n)
            OBVIOUS
        <3>3. d \in Seq(ByteClasses) /\ Len(d) = n /\ \A i \in 1 .. n : d[i] = b[i]
            BY <3>1, <3>2, PrefixIs
        <3>4. ASSUME NEW k \in 1 .. 4, k <= n
              PROVE  SubSeq(d, n - k + 1, n) = SubSeq(b, n - k + 1, n)
            <4>1. PICK p \in 1 .. n : p = n - k + 1
                BY <3>4
            <4> n \in 0 .. Len(d)
                BY <3>3
            <4>2. /\ SubSeq(d, p, n) = [i \in 1 .. n - p + 1 |-> d[p + i - 1]]
                  /\ SubSeq(b, p, n) = [i \in 1 .. n - p + 1 |-> b[p + i - 1]]
                BY <3>1, <3>3, PartIs
            <4>3. \A i \in 1 .. n - p + 1 : p + i - 1 \in 1 .. n
                OBVIOUS
            <4>4. \A i \in 1 .. n - p + 1 : d[p + i - 1] = b[p + i - 1]
                BY <3>3, <4>3
            <4> QED
                BY <4>1, <4>2, <4>4
        <3>5. EndsWithRune(d) <=> \E k \in 1 .. 4 : RuneAt(b, n, k)
            BY <3>3, <3>4 DEF EndsWithRune, RuneAt
        <3>6. n \in RuneEnds(b) <=> \E k \in 1 .. 4 : RuneAt(b, n, k)
            BY <1>10, <3>1, EndsOfRunes
        <3> QED
            BY <3>2, <3>5, <3>6
    <2>2. \A n : n \in RuneEnds(b) => n \in 0 .. Len(b)
        BY <1>1, EndsAre
    <2>3. 0 \in RuneEnds(b)
        BY <1>1, EndsAre
    <2>4. ASSUME NEW n \in RuneEnds(b), n <= L PROVE n \in S
        BY <1>4, <2>1, <2>2, <2>4
    <2>5. ASSUME NEW n \in S PROVE n \in RuneEnds(b) /\ n <= L
        BY <1>4, <2>1, <2>3
    <2> QED
        BY <2>4, <2>5
<1>11. \E n \in 0 .. L : trimToRuneBoundary(c) = Prefix(b, n)
    BY <1>8, <1>9
<1>12. Valid(b) => trimToRuneBoundary(c) = Prefix(b, Max({n \in RuneEnds(b) : n <= L}))
    BY <1>9, <1>10
<1> QED
    BY <1>2, <1>11, <1>12

\* The plugin goes back to the byte that opens the last rune, and drops it when
\* it does not end within the cap.
LEMMA PluginTrims ==
    ASSUME NEW b \in Seq(ByteClasses), NEW L \in Nat \ {0}, L <= Len(b), Valid(b)
    PROVE  trimToBoundary(Prefix(b, L)) = Prefix(b, Max({n \in RuneEnds(b) : n <= L}))
<1>1. Len(b) \in Nat /\ L \in 1 .. Len(b)
    OBVIOUS
<1>2. PICK c : c = Prefix(b, L)
    OBVIOUS
<1>3. /\ c \in Seq(ByteClasses) /\ Len(c) = L
      /\ \A i \in 1 .. L : c[i] = b[i]
      /\ \A n \in 0 .. L : Prefix(c, n) = Prefix(b, n)
    BY <1>1, <1>2, PrefixIs, PrefixOfPrefix
<1>4. PICK q \in 1 .. L : Cover(b, L, q)
    BY <1>1, EveryByteIsCovered
<1>5. PICK l \in 1 .. 4 : l = sequenceLength(b[q])
    BY LengthsAre
<1>6. /\ L <= q - 1 + l /\ b[q] # "cont"
      /\ q - 1 \in RuneEnds(b) /\ q - 1 + l \in RuneEnds(b)
      /\ \A i \in q + 1 .. q - 1 + l : b[i] = "cont"
    BY <1>4, <1>5 DEF Cover
<1>7. PICK S : S = {0} \cup {p \in 1 .. L : p <= L - 3 \/ c[p] # "cont"}
    OBVIOUS
<1>8. {0} \cup {p \in 1 .. Len(c) : p <= Len(c) - 3 \/ c[p] # "cont"} = S
    BY <1>3, <1>7
<1>9. Max(S) = q
    <2>1. S \in SUBSET Int /\ S # {} /\ (\A n \in S : n <= L) /\ L \in Int
        BY <1>7
    <2>2. Max(S) \in S /\ \A n \in S : n <= Max(S)
        BY <2>1, GreatestIs
    <2>3. q \in S
        BY <1>3, <1>6, <1>7
    <2>4. ASSUME NEW p \in S PROVE p <= q
        <3> SUFFICES ASSUME p > q PROVE FALSE
            BY <2>1
        <3>1. p \in 1 .. L /\ (p <= L - 3 \/ c[p] # "cont")
            BY <1>7
        <3>2. ~(p <= L - 3)
            BY <1>6, <3>1
        <3>3. p \in q + 1 .. q - 1 + l
            BY <1>6, <3>1
        <3> QED
            BY <1>3, <1>6, <3>1, <3>2, <3>3
    <2>5. Max(S) \in Int /\ Max(S) <= q /\ q <= Max(S)
        BY <2>1, <2>2, <2>3, <2>4
    <2> QED
        BY <2>5
<1>10. c[q] = b[q] /\ q # 0 /\ Prefix(c, q - 1) = Prefix(b, q - 1)
    <2>1. q - 1 \in 0 .. L
        OBVIOUS
    <2> QED
        BY <1>3, <2>1
<1>11. trimToBoundary(c) = IF q - 1 + l <= L THEN c ELSE Prefix(b, q - 1)
    BY <1>3, <1>5, <1>8, <1>9, <1>10 DEF trimToBoundary
<1>12. PICK W : W = {n \in RuneEnds(b) : n <= L}
    OBVIOUS
<1>13. Max(W) \in W /\ Max(W) \in 0 .. Len(b) /\ \A n \in W : n <= Max(W)
    BY <1>12, WholeIs
<1>14. CASE q - 1 + l <= L
    <2>1. q - 1 + l = L
        BY <1>6, <1>14
    <2>2. L \in W
        BY <1>6, <1>12, <2>1
    <2>3. Max(W) <= L
        BY <1>12, <1>13
    <2>4. Max(W) = L
        BY <1>13, <2>2, <2>3
    <2> QED
        BY <1>2, <1>11, <1>12, <1>14, <2>4
<1>15. CASE ~(q - 1 + l <= L)
    <2>1. q - 1 \in W
        BY <1>6, <1>12
    <2>2. ASSUME NEW n \in W PROVE n <= q - 1
        <3>1. n \in RuneEnds(b) /\ n <= L /\ n \in 0 .. Len(b)
            BY <1>1, <1>12, EndsAre
        <3> SUFFICES ASSUME n >= q PROVE FALSE
            BY <3>1
        <3>2. n \in 1 .. Len(b) /\ q \in 1 .. n
            BY <3>1
        <3>3. PICK k \in 1 .. 4 : RuneAt(b, n, k)
            BY <1>1, <3>1, <3>2, EndsAre
        <3>4. Cover(b, n, q)
            <4>1. n <= q - 1 + l
                BY <1>15, <3>1
            <4> QED
                BY <1>4, <1>5, <3>2, <4>1 DEF Cover
        <3>5. n = q - 1 + l
            BY <1>5, <3>2, <3>3, <3>4, RunesAreTheContents
        <3> QED
            BY <1>15, <3>1, <3>5
    <2>3. Max(W) = q - 1
        BY <1>13, <2>1, <2>2
    <2> QED
        BY <1>2, <1>11, <1>12, <1>15, <2>3
<1> QED
    BY <1>14, <1>15

\* Of a content within the cap nothing is dropped.
LEMMA AllIsShown ==
    ASSUME NEW b \in Seq(ByteClasses), NEW L \in Nat, Len(b) <= L, Valid(b)
    PROVE  Prefix(b, Max({n \in RuneEnds(b) : n <= L})) = b
<1>1. Len(b) \in Nat /\ Len(b) \in RuneEnds(b)
    BY DEF Valid
<1>2. PICK W : W = {n \in RuneEnds(b) : n <= L}
    OBVIOUS
<1>3. Max(W) \in W /\ Max(W) \in 0 .. Len(b) /\ \A n \in W : n <= Max(W)
    BY <1>2, WholeIs
<1>4. Max(W) = Len(b)
    <2>1. PICK m \in Nat, n \in Nat : m = Len(b) /\ n = Max(W) /\ n <= m
        BY <1>1, <1>3
    <2>2. Len(b) \in W
        BY <1>1, <1>2
    <2>3. m <= n
        BY <1>3, <2>1, <2>2
    <2> QED
        BY <2>1, <2>3
<1>5. Prefix(b, Len(b)) = b
    BY DEF Prefix
<1> QED
    BY <1>2, <1>4, <1>5

LEMMA LessIs ==
    ASSUME NEW m \in Int, NEW n \in Int
    PROVE  Min({m, n}) = IF m <= n THEN m ELSE n
BY DEF Min

\* Of any content, of any type, under any cap: what is shown of a text is the
\* longest prefix of whole runes within the cap, by the server and by the plugin,
\* and of other bytes the prefix that the cap allows (internal/mcp/content.go,
\* encode; content.ts, encodeContent).
THEOREM ContentsAreShown ==
    ASSUME NEW content \in Seq(ByteClasses), NEW contentType, NEW maxBytes \in Int
    PROVE  ContentIsShown(content, contentType, maxBytes)
<1>1. PICK N \in Nat : N = Len(content)
    OBVIOUS
<1>2. PICK L \in Nat \ {0} : L = Limit(maxBytes)
    BY SomeBytesAreShown DEF Limit
<1>3. PICK W : W = {n \in RuneEnds(content) : n <= L}
    OBVIOUS
<1>4. PICK x : x = Prefix(content, Max(W))
    OBVIOUS
<1>5. PICK go, ts : /\ go = encode(content, contentType, maxBytes)
                    /\ ts = encodeContent(content, maxBytes)
    OBVIOUS
<1>6. PICK text \in BOOLEAN :
          text <=> isTextual(contentType, content)
    OBVIOUS
<1>7. PICK cut : cut = Prefix(content, L)
    OBVIOUS
<1>8. /\ go.totalBytes = N
      /\ go.truncated = (N > L)
      /\ go.encoding = IF text THEN "utf-8" ELSE "base64"
      /\ go.shown = IF N > L THEN IF text THEN trimToRuneBoundary(cut) ELSE cut
                    ELSE content
    BY <1>1, <1>2, <1>5, <1>6, <1>7 DEF encode
<1>9. ts = [encoding |-> "utf-8", shown |-> IF N > L THEN trimToBoundary(cut) ELSE content,
            truncated |-> N > L, totalBytes |-> N]
    <2>1. ts = IF N <= L
               THEN [encoding |-> "utf-8", shown |-> content, truncated |-> FALSE,
                     totalBytes |-> N]
               ELSE [encoding |-> "utf-8", shown |-> trimToBoundary(cut),
                     truncated |-> TRUE, totalBytes |-> N]
        BY <1>1, <1>2, <1>5, <1>7 DEF encodeContent
    <2>2. CASE N > L
        <3>1. ~(N <= L) /\ (N > L) = TRUE
            BY <2>2
        <3> QED
            BY <2>1, <3>1
    <2>3. CASE ~(N > L)
        <3>1. N <= L /\ (N > L) = FALSE
            BY <2>3
        <3> QED
            BY <2>1, <3>1
    <2> QED
        BY <2>2, <2>3
<1>10. go = [encoding |-> go.encoding, shown |-> go.shown,
             truncated |-> go.truncated, totalBytes |-> go.totalBytes]
    BY <1>5 DEF encode
<1>11. go.truncated <=> go.shown # content
    <2>1. ASSUME N > L PROVE go.shown # content
        <3>1. PICK n \in 0 .. L : go.shown = Prefix(content, n)
            <4>1. L <= Len(content) /\ L \in 0 .. L
                BY <1>1, <2>1
            <4>2. \E n \in 0 .. L : trimToRuneBoundary(cut) = Prefix(content, n)
                BY <1>7, <4>1, ServerTrims
            <4> QED
                BY <1>7, <1>8, <2>1, <4>1, <4>2
        <3>2. n \in 0 .. Len(content) /\ n < N
            BY <1>1, <2>1
        <3>3. Len(go.shown) = n
            BY <3>1, <3>2, PrefixIs
        <3> QED
            BY <1>1, <3>2, <3>3
    <2> QED
        BY <1>8, <2>1
<1>12. contentType = "" =>
           (go.encoding = "utf-8"
               <=> Valid(content) /\ \A i \in DOMAIN content : content[i] # "nul")
    BY <1>6, <1>8 DEF isTextual
<1>13. ASSUME Valid(content)
       PROVE  /\ go.encoding = "utf-8" =>
                    go.shown = x /\ (go.truncated => Len(go.shown) > L - 4) /\ ts = go
              /\ ts.shown = x
    <2>1. CASE N > L
        <3>1. L <= Len(content) /\ L + 1 \in 1 .. Len(content)
            BY <1>1, <2>1
        <3>2. trimToRuneBoundary(cut) = x /\ trimToBoundary(cut) = x
            BY <1>3, <1>4, <1>7, <1>13, <3>1, ServerTrims, PluginTrims
        <3>3. Len(x) > L - 4
            <4>1. PICK q \in 1 .. L + 1 : Cover(content, L + 1, q)
                BY <1>13, <3>1, EveryByteIsCovered
            <4>2. PICK l \in 1 .. 4 : l = sequenceLength(content[q])
                BY LengthsAre
            <4>3. L + 1 <= q - 1 + l /\ q - 1 \in RuneEnds(content)
                BY <4>1, <4>2 DEF Cover
            <4>4. q - 1 \in W
                BY <1>3, <4>3
            <4>5. Max(W) \in 0 .. Len(content) /\ \A n \in W : n <= Max(W)
                BY <1>3, WholeIs
            <4>6. Len(x) = Max(W)
                BY <1>4, <4>5, PrefixIs
            <4>7. q - 1 <= Len(x) /\ Len(x) \in Int
                BY <4>4, <4>5, <4>6
            <4> QED
                BY <4>2, <4>3, <4>7
        <3>4. ts.shown = x
            BY <1>9, <2>1, <3>2
        <3>5. ASSUME go.encoding = "utf-8"
              PROVE  go.shown = x /\ ts = go
            <4>1. go.shown = x
                BY <1>8, <2>1, <3>2, <3>5
            <4>2. go = [encoding |-> "utf-8", shown |-> x, truncated |-> N > L,
                        totalBytes |-> N]
                BY <1>8, <1>10, <3>5, <4>1
            <4> QED
                BY <1>9, <2>1, <3>2, <4>1, <4>2
        <3> QED
            BY <3>3, <3>4, <3>5
    <2>2. CASE ~(N > L)
        <3>1. x = content
            BY <1>1, <1>3, <1>4, <1>13, <2>2, AllIsShown
        <3>2. ts.shown = x /\ go.shown = x
            BY <1>8, <1>9, <2>2, <3>1
        <3>3. ASSUME go.encoding = "utf-8" PROVE ts = go
            <4>1. go = [encoding |-> "utf-8", shown |-> x, truncated |-> N > L,
                        totalBytes |-> N]
                BY <1>8, <1>10, <3>2, <3>3
            <4> QED
                BY <1>9, <2>2, <3>1, <4>1
        <3> QED
            BY <1>8, <2>2, <3>2, <3>3
    <2> QED
        BY <2>1, <2>2
<1>14. go.encoding = "base64" => go.shown = Prefix(content, Min({N, L}))
    <2>1. Min({N, L}) = IF N <= L THEN N ELSE L
        BY LessIs
    <2>2. Prefix(content, N) = content
        BY <1>1 DEF Prefix
    <2> QED
        BY <1>7, <1>8, <2>1, <2>2
<1> QED
    BY <1>1, <1>2, <1>3, <1>4, <1>5, <1>8, <1>11, <1>12, <1>13, <1>14 DEF ContentIsShown

(***************************************************************************)
(* Ages over the wire                                                      *)
(***************************************************************************)

LEMMA WholeSeconds ==
    ASSUME NEW n \in Nat
    PROVE  /\ n \div Second \in Nat
           /\ (n \div Second) * Second <= n
           /\ n < (n \div Second) * Second + Second
BY DurationsAreInt64

LEMMA MultiplesOfSecond ==
    ASSUME NEW k \in Nat
    PROVE  /\ k * Second \in Nat
           /\ (k * Second) \div Second = k
           /\ k * Second > 0 <=> k # 0
<1>1. PICK S \in Nat \ {0} : S = Second
    BY DurationsAreInt64
<1>2. k * S \in Nat
    BY <1>1
<1>3. PICK q \in Nat : q = (k * S) \div S
    BY <1>1, <1>2, WholeSeconds
<1>4. q * S <= k * S /\ k * S < q * S + S
    BY <1>1, <1>2, <1>3, WholeSeconds
<1>5. q = k
    <2>1. CASE q < k
        <3>1. PICK d \in Nat : k = q + 1 + d
            <4>1. k - q - 1 \in Nat /\ k = q + 1 + (k - q - 1)
                BY <2>1
            <4> QED
                BY <4>1
        <3>2. k * S = q * S + S + d * S /\ d * S \in Nat /\ q * S \in Nat
            BY <3>1
        <3> QED
            BY <1>4, <3>2
    <2>2. CASE k < q
        <3>1. PICK d \in Nat : q = k + 1 + d
            <4>1. q - k - 1 \in Nat /\ q = k + 1 + (q - k - 1)
                BY <2>2
            <4> QED
                BY <4>1
        <3>2. q * S = k * S + S + d * S /\ d * S \in Nat /\ k * S \in Nat
            BY <3>1
        <3> QED
            BY <1>4, <3>2
    <2> QED
        BY <2>1, <2>2
<1>6. k * S > 0 <=> k # 0
    <2>1. CASE k = 0
        BY <2>1
    <2>2. CASE k # 0
        <3>1. k * S >= S
            <4>1. PICK d \in Nat : k = d + 1
                <5>1. k - 1 \in Nat /\ k = (k - 1) + 1
                    BY <2>2
                <5> QED
                    BY <5>1
            <4>2. k * S = d * S + S /\ d * S \in Nat
                BY <4>1
            <4> QED
                BY <4>2
        <3> QED
            BY <1>2, <2>2, <3>1
    <2> QED
        BY <2>1, <2>2
<1> QED
    BY <1>1, <1>2, <1>3, <1>5, <1>6

\* A duration that fits is not wrapped.
LEMMA WrappedIs ==
    ASSUME NEW n \in Nat, n < Half
    PROVE  Wrapped(n) = n
<1>1. PICK H \in Nat \ {0} : H = Half
    BY DurationsAreInt64
<1>2. PICK m \in Nat, M \in Nat \ {0} : m = n + H /\ M = 2 * H
    BY <1>1
<1>3. m < M
    BY <1>1, <1>2
<1>4. m % M = m
    BY <1>2, <1>3
<1> QED
    BY <1>1, <1>2, <1>4 DEF Wrapped

\* A policy as the store returns it: an age of whole seconds that fits.
Stored(p) == \E k \in Nat : p.MaxAge = k * Second /\ p.MaxAge < Half

LEMMA StoredRoundTrip ==
    ASSUME NEW p, Stored(p)
    PROVE  /\ PolicyFromWire(PolicyToWire(p))
                 = [Strategy |-> p.Strategy, Pinned |-> p.Pinned, MaxAge |-> p.MaxAge]
           /\ PolicyToWire(p).seconds = p.MaxAge \div Second
           /\ PolicyToWire(p).seconds # 0 <=> p.MaxAge > 0
<1>1. PICK k \in Nat : p.MaxAge = k * Second /\ p.MaxAge < Half
    BY DEF Stored
<1>2. PICK n \in Nat : n = k * Second
    BY MultiplesOfSecond
<1>3. p.MaxAge = n /\ n \div Second = k /\ (n > 0 <=> k # 0) /\ n < Half
    BY <1>1, <1>2, MultiplesOfSecond
<1>4. (IF n > 0 THEN n \div Second ELSE 0) = k
    BY <1>3
<1>5. PolicyToWire(p) = [strategy |-> p.Strategy, pinned |-> p.Pinned, seconds |-> k]
    BY <1>3, <1>4 DEF PolicyToWire
<1>6. Wrapped(n) = n
    BY <1>3, WrappedIs
<1> QED
    BY <1>2, <1>3, <1>5, <1>6 DEF PolicyFromWire

\* Of every policy whose age fits a duration, the store keeps the age that was
\* asked for, in whole seconds, through the wire or in process; and of every
\* number of seconds that fits (internal/wire, PolicyToWire, PolicyFromWire).
THEOREM AgesAgreeOfPolicies ==
    ASSUME NEW p, NEW age \in Int, age < Half,
           p = [Strategy |-> p.Strategy, MaxAge |-> age, Pinned |-> p.Pinned]
    PROVE  AgesAgree(p)
<1>1. p.MaxAge = age
    OBVIOUS
<1>2. Half \in Nat \ {0} /\ Second \in Nat \ {0}
    BY DurationsAreInt64
<1>3. PICK k \in Nat : k = IF age > 0 THEN age \div Second ELSE 0
    BY WholeSeconds
<1>4. PICK n \in Nat : n = k * Second
    BY MultiplesOfSecond
<1>5. n < Half
    <2>1. CASE age > 0
        BY <1>2, <1>3, <1>4, <2>1, WholeSeconds
    <2>2. CASE ~(age > 0)
        <3>1. n = 0
            BY <1>2, <1>3, <1>4, <2>2
        <3> QED
            BY <1>2, <3>1
    <2> QED
        BY <2>1, <2>2
<1>6. n \div Second = k /\ (n > 0 <=> k # 0)
    BY <1>4, MultiplesOfSecond
<1>7. (IF age > 0 THEN (age \div Second) * Second ELSE 0) = n
    BY <1>2, <1>3, <1>4
<1>8. StoredPolicy(p) = [Strategy |-> p.Strategy, MaxAge |-> n, Pinned |-> p.Pinned]
    <2>1. StoredPolicy(p) =
             [p EXCEPT !.MaxAge = IF age > 0 THEN (age \div Second) * Second ELSE 0]
        BY <1>1 DEF StoredPolicy
    <2> QED
        BY <1>7, <2>1
<1>9. (IF n > 0 THEN (n \div Second) * Second ELSE 0) = n
    BY <1>2, <1>4, <1>6
<1>10. PolicyFromWire(PolicyToWire(p)) =
          [Strategy |-> p.Strategy, Pinned |-> p.Pinned, MaxAge |-> n]
    <2>1. PolicyToWire(p) = [strategy |-> p.Strategy, pinned |-> p.Pinned, seconds |-> k]
        BY <1>1, <1>3 DEF PolicyToWire
    <2>2. Wrapped(n) = n
        BY <1>5, WrappedIs
    <2> QED
        BY <1>4, <2>1, <2>2 DEF PolicyFromWire
<1>11. StoredPolicy(PolicyFromWire(PolicyToWire(p))) =
          [Strategy |-> p.Strategy, MaxAge |-> n, Pinned |-> p.Pinned]
    BY <1>9, <1>10 DEF StoredPolicy
<1>12. ASSUME NEW seconds \in 0 .. (Half - 1) \div Second
       PROVE  StoredPolicy(PolicyFromWire([PolicyToWire(p) EXCEPT !.seconds = seconds])).MaxAge
                 = seconds * Second
    <2>1. PICK H \in Nat : H = Half - 1
        BY <1>2
    <2>2. PICK q \in Nat : q = H \div Second /\ q * Second <= H
        BY <2>1, WholeSeconds
    <2>3. seconds \in Nat /\ seconds <= q
        BY <2>1, <2>2
    <2>4. PICK x \in Nat : x = seconds * Second
        BY <2>3, MultiplesOfSecond
    <2>5. x <= q * Second
        <3>1. PICK d \in Nat : q = seconds + d
            <4>1. q - seconds \in Nat /\ q = seconds + (q - seconds)
                BY <2>3
            <4> QED
                BY <4>1
        <3>2. q * Second = seconds * Second + d * Second /\ d * Second \in Nat
            BY <1>2, <2>3, <3>1
        <3> QED
            BY <1>2, <2>3, <2>4, <3>2
    <2>6. x < Half /\ x \div Second = seconds /\ (x > 0 <=> seconds # 0)
        <3>1. q * Second \in Nat
            BY MultiplesOfSecond
        <3>2. x < Half
            BY <1>2, <2>1, <2>2, <2>5, <3>1
        <3> QED
            BY <2>3, <2>4, <3>2, MultiplesOfSecond
    <2>7. Wrapped(x) = x
        BY <2>6, WrappedIs
    <2>8. PICK w : w = [PolicyToWire(p) EXCEPT !.seconds = seconds]
        OBVIOUS
    <2>9. w.seconds = seconds
        BY <2>8 DEF PolicyToWire
    <2>10. PolicyFromWire(w) = [Strategy |-> w.strategy, Pinned |-> w.pinned, MaxAge |-> x]
        BY <2>4, <2>7, <2>9 DEF PolicyFromWire
    <2>11. (IF x > 0 THEN (x \div Second) * Second ELSE 0) = x
        BY <1>2, <2>3, <2>4, <2>6
    <2>12. StoredPolicy(PolicyFromWire(w)).MaxAge = x
        BY <2>10, <2>11 DEF StoredPolicy
    <2> QED
        BY <2>4, <2>8, <2>12
<1> QED
    BY <1>8, <1>11, <1>12 DEF AgesAgree

(***************************************************************************)
(* The calls of an operation                                               *)
(***************************************************************************)

ChosenUpTo(f, s, at, n) ==
    IF n = 0 THEN <<>> ELSE IF n \in at THEN Append(f[n - 1], s[n]) ELSE f[n - 1]

\* The recursion over the indices defines what is chosen up to each.
LEMMA ChosenIs ==
    ASSUME NEW s, NEW at, Len(s) \in Nat
    PROVE  \E f : /\ f[0] = <<>>
                  /\ \A n \in 1 .. Len(s) :
                        f[n] = IF n \in at THEN Append(f[n - 1], s[n]) ELSE f[n - 1]
                  /\ Chosen(s, at) = f[Len(s)]
<1> DEFINE N == Len(s)
           Good(f, m) == f = [n \in 0 .. m |-> ChosenUpTo(f, s, at, n)]
           Wrong == {n \in 0 .. N : ~\E f : Good(f, n)}
<1>1. \E f : Good(f, N)
    <2> SUFFICES ASSUME Wrong # {} PROVE FALSE
        OBVIOUS
    <2>1. PICK m \in Wrong : \A n \in Wrong : m <= n
        <3>1. Wrong \in SUBSET Nat
            OBVIOUS
        <3> HIDE DEF Wrong
        <3> QED
            BY <3>1, LeastNumber
    <2>2. m \in 0 .. N /\ ~\E f : Good(f, m)
        OBVIOUS
    <2>3. CASE m = 0
        <3> DEFINE f == [n \in 0 .. 0 |-> <<>>]
        <3>1. \A n \in 0 .. 0 : ChosenUpTo(f, s, at, n) = <<>>
            BY DEF ChosenUpTo
        <3>2. Good(f, 0)
            BY <3>1
        <3> QED
            BY <2>2, <2>3, <3>2
    <2>4. CASE m # 0
        <3>1. m - 1 \in 0 .. N /\ m - 1 \notin Wrong
            BY <2>1, <2>2, <2>4
        <3>2. PICK g : Good(g, m - 1)
            BY <3>1
        <3> DEFINE f == [n \in 0 .. m |-> ChosenUpTo(g, s, at, n)]
        <3>3. \A n \in 0 .. m - 1 : f[n] = g[n]
            <4>1. \A n \in 0 .. m - 1 : g[n] = ChosenUpTo(g, s, at, n) /\ n \in 0 .. m
                BY <2>2, <3>2
            <4> QED
                BY <4>1
        <3>4. ASSUME NEW n \in 0 .. m PROVE ChosenUpTo(g, s, at, n) = ChosenUpTo(f, s, at, n)
            <4>1. ASSUME n # 0 PROVE f[n - 1] = g[n - 1]
                <5>1. n - 1 \in 0 .. m - 1
                    BY <2>2, <4>1
                <5> HIDE DEF f
                <5> QED
                    BY <3>3, <5>1
            <4> HIDE DEF f
            <4> QED
                BY <4>1 DEF ChosenUpTo
        <3>5. Good(f, m)
            <4> QED
                BY <3>4
        <3> QED
            BY <2>2, <3>5
    <2> QED
        BY <2>3, <2>4
<1>2. PICK E : E = CHOOSE f : Good(f, N)
    OBVIOUS
<1>3. Chosen(s, at) = E[N]
    BY <1>2 DEF Chosen, ChosenUpTo
<1>4. Good(E, N)
    <2> HIDE DEF Good
    <2> QED
        BY <1>1, <1>2
<1>5. \A n \in 0 .. N : E[n] = ChosenUpTo(E, s, at, n)
    <2> QED
        BY <1>4
<1>6. E[0] = <<>>
    <2>1. 0 \in 0 .. N /\ ChosenUpTo(E, s, at, 0) = <<>>
        BY DEF ChosenUpTo
    <2> QED
        BY <1>5, <2>1
<1>7. ASSUME NEW n \in 1 .. N
      PROVE  E[n] = IF n \in at THEN Append(E[n - 1], s[n]) ELSE E[n - 1]
    <2>1. n \in 0 .. N /\ n # 0
        OBVIOUS
    <2>2. E[n] = ChosenUpTo(E, s, at, n)
        BY <1>5, <2>1
    <2> QED
        BY <2>1, <2>2 DEF ChosenUpTo
<1> QED
    BY <1>3, <1>6, <1>7

LEMMA AppendedToOne ==
    ASSUME NEW x, NEW y
    PROVE  Append(<<x>>, y) = <<x, y>>
<1>1. <<x>> \in Seq({x, y}) /\ Len(<<x>>) = 1
    OBVIOUS
<1>2. PICK s, t : s = Append(<<x>>, y) /\ t = <<x, y>>
    OBVIOUS
<1>3. s \in Seq({x, y}) /\ Len(s) = 2 /\ s[1] = x /\ s[2] = y
    BY <1>1, <1>2
<1>4. t \in Seq({x, y}) /\ Len(t) = 2 /\ t[1] = x /\ t[2] = y
    BY <1>2
<1>5. \A i \in 1 .. Len(s) : i = 1 \/ i = 2
    BY <1>3
<1>6. Len(s) = Len(t) /\ \A i \in 1 .. Len(s) : s[i] = t[i]
    BY <1>3, <1>4, <1>5
<1>7. s = t
    BY <1>3, <1>4, <1>6, SeqEqual
<1> QED
    BY <1>2, <1>7

LEMMA AppendedToTwo ==
    ASSUME NEW x, NEW y, NEW z
    PROVE  Append(<<x, y>>, z) = <<x, y, z>>
<1> DEFINE S == {x, y, z}
<1>1. <<x, y>> \in Seq(S) /\ Len(<<x, y>>) = 2
    OBVIOUS
<1>2. PICK s, t : s = Append(<<x, y>>, z) /\ t = <<x, y, z>>
    OBVIOUS
<1>3. s \in Seq(S) /\ Len(s) = 3 /\ s[1] = x /\ s[2] = y /\ s[3] = z
    BY <1>1, <1>2
<1>4. t \in Seq(S) /\ Len(t) = 3 /\ t[1] = x /\ t[2] = y /\ t[3] = z
    BY <1>2
<1>5. \A i \in 1 .. Len(s) : i = 1 \/ i = 2 \/ i = 3
    BY <1>3
<1>6. Len(s) = Len(t) /\ \A i \in 1 .. Len(s) : s[i] = t[i]
    BY <1>3, <1>4, <1>5
<1>7. s = t
    BY <1>3, <1>4, <1>6, SeqEqual
<1> QED
    BY <1>2, <1>7

\* A list of up to four calls, some of which are chosen.
LEMMA ChosenOfOne ==
    ASSUME NEW x, NEW at
    PROVE  Chosen(<<x>>, at) = IF 1 \in at THEN <<x>> ELSE <<>>
<1>1. Len(<<x>>) = 1 /\ <<x>>[1] = x /\ 1 - 1 = 0 /\ 1 \in 1 .. 1
    OBVIOUS
<1>2. PICK f : /\ f[0] = <<>>
               /\ \A n \in 1 .. 1 :
                     f[n] = IF n \in at THEN Append(f[n - 1], <<x>>[n]) ELSE f[n - 1]
               /\ Chosen(<<x>>, at) = f[1]
    BY <1>1, ChosenIs
<1>3. f[1] = IF 1 \in at THEN Append(f[0], x) ELSE f[0]
    BY <1>1, <1>2
<1>4. Append(<<>>, x) = <<x>>
    OBVIOUS
<1> QED
    BY <1>2, <1>3, <1>4

LEMMA ChosenOfTwo ==
    ASSUME NEW x, NEW y, NEW at
    PROVE  Chosen(<<x, y>>, at) =
              IF 1 \in at THEN IF 2 \in at THEN <<x, y>> ELSE <<x>>
              ELSE IF 2 \in at THEN <<y>> ELSE <<>>
<1>1. /\ Len(<<x, y>>) = 2 /\ <<x, y>>[1] = x /\ <<x, y>>[2] = y
      /\ 1 - 1 = 0 /\ 2 - 1 = 1 /\ 1 \in 1 .. 2 /\ 2 \in 1 .. 2
    OBVIOUS
<1>2. PICK f : /\ f[0] = <<>>
               /\ \A n \in 1 .. 2 :
                     f[n] = IF n \in at THEN Append(f[n - 1], <<x, y>>[n]) ELSE f[n - 1]
               /\ Chosen(<<x, y>>, at) = f[2]
    BY <1>1, ChosenIs
<1>3. /\ f[1] = IF 1 \in at THEN Append(f[0], x) ELSE f[0]
      /\ f[2] = IF 2 \in at THEN Append(f[1], y) ELSE f[1]
    BY <1>1, <1>2
<1>4. Append(<<>>, x) = <<x>> /\ Append(<<>>, y) = <<y>> /\ Append(<<x>>, y) = <<x, y>>
    <2>1. Append(<<>>, x) = <<x>> /\ Append(<<>>, y) = <<y>>
        OBVIOUS
    <2> QED
        BY <2>1, AppendedToOne
<1> QED
    BY <1>2, <1>3, <1>4

LEMMA ChosenOfThree ==
    ASSUME NEW x, NEW y, NEW z, NEW at, 1 \notin at, 2 \in at, 3 \in at
    PROVE  Chosen(<<x, y, z>>, at) = <<y, z>>
<1>0. PICK s : s = <<x, y, z>>
    OBVIOUS
<1>1. /\ Len(s) = 3 /\ s[1] = x /\ s[2] = y /\ s[3] = z
      /\ 1 - 1 = 0 /\ 2 - 1 = 1 /\ 3 - 1 = 2 /\ 1 \in 1 .. 3 /\ 2 \in 1 .. 3 /\ 3 \in 1 .. 3
    BY <1>0
<1>2. PICK f : /\ f[0] = <<>>
               /\ \A n \in 1 .. 3 :
                     f[n] = IF n \in at THEN Append(f[n - 1], s[n]) ELSE f[n - 1]
               /\ Chosen(s, at) = f[3]
    <2>1. Len(s) \in Nat
        BY <1>1
    <2>2. PICK f : /\ f[0] = <<>>
                   /\ \A n \in 1 .. Len(s) :
                         f[n] = IF n \in at THEN Append(f[n - 1], s[n]) ELSE f[n - 1]
                   /\ Chosen(s, at) = f[Len(s)]
        BY <2>1, ChosenIs
    <2> QED
        BY <1>1, <2>2
<1>3. /\ f[1] = f[0]
      /\ f[2] = Append(f[1], y)
      /\ f[3] = Append(f[2], z)
    BY <1>1, <1>2
<1>4. /\ Append(<<>>, y) = <<y>> /\ Append(<<y>>, z) = <<y, z>>
    <2>1. Append(<<>>, y) = <<y>>
        OBVIOUS
    <2> QED
        BY <2>1, AppendedToOne
<1>5. Chosen(s, at) = <<y, z>>
    <2>1. f[1] = <<>>
        BY <1>2, <1>3
    <2>2. f[2] = <<y>>
        BY <1>3, <1>4, <2>1
    <2>3. f[3] = <<y, z>>
        BY <1>3, <1>4, <2>2
    <2> QED
        BY <1>2, <2>3
<1> QED
    BY <1>0, <1>5

LEMMA ChosenOfFour ==
    ASSUME NEW w, NEW x, NEW y, NEW z, NEW at, 1 \notin at, 2 \in at, 3 \in at
    PROVE  Chosen(<<w, x, y, z>>, at) = IF 4 \in at THEN <<x, y, z>> ELSE <<x, y>>
<1>0. PICK s : s = <<w, x, y, z>>
    OBVIOUS
<1>1. /\ Len(s) = 4 /\ s[1] = w /\ s[2] = x /\ s[3] = y /\ s[4] = z
      /\ 1 - 1 = 0 /\ 2 - 1 = 1 /\ 3 - 1 = 2 /\ 4 - 1 = 3
      /\ 1 \in 1 .. 4 /\ 2 \in 1 .. 4 /\ 3 \in 1 .. 4 /\ 4 \in 1 .. 4
    BY <1>0
<1>2. PICK f : /\ f[0] = <<>>
               /\ \A n \in 1 .. 4 :
                     f[n] = IF n \in at THEN Append(f[n - 1], s[n]) ELSE f[n - 1]
               /\ Chosen(s, at) = f[4]
    <2>1. Len(s) \in Nat
        BY <1>1
    <2>2. PICK f : /\ f[0] = <<>>
                   /\ \A n \in 1 .. Len(s) :
                         f[n] = IF n \in at THEN Append(f[n - 1], s[n]) ELSE f[n - 1]
                   /\ Chosen(s, at) = f[Len(s)]
        BY <2>1, ChosenIs
    <2> QED
        BY <1>1, <2>2
<1>3. /\ f[1] = f[0]
      /\ f[2] = Append(f[1], x)
      /\ f[3] = Append(f[2], y)
      /\ f[4] = IF 4 \in at THEN Append(f[3], z) ELSE f[3]
    BY <1>1, <1>2
<1>4. /\ Append(<<>>, x) = <<x>> /\ Append(<<x>>, y) = <<x, y>>
      /\ Append(<<x, y>>, z) = <<x, y, z>>
    <2>1. Append(<<>>, x) = <<x>>
        OBVIOUS
    <2> QED
        BY <2>1, AppendedToOne, AppendedToTwo
<1>5. Chosen(<<w, x, y, z>>, at) = IF 4 \in at THEN <<x, y, z>> ELSE <<x, y>>
    <2>1. f[1] = <<>>
        BY <1>2, <1>3
    <2>2. f[2] = <<x>>
        BY <1>3, <1>4, <2>1
    <2>3. f[3] = <<x, y>>
        BY <1>3, <1>4, <2>2
    <2>4. f[4] = IF 4 \in at THEN <<x, y, z>> ELSE <<x, y>>
        BY <1>3, <1>4, <2>3
    <2> QED
        BY <1>0, <1>2, <2>4
<1> QED
    BY <1>5

CalledBy(m) == [i \in DOMAIN HandlerOf(m) |-> HandlerOf(m)[i].call]

Shared(m) == {i \in DOMAIN CalledBy(m) : CalledBy(m)[i] \notin OfTheServer(m)}

\* The handler makes the calls of the local client in their order, and no others
\* but the server's own.
CallsMatch(m) ==
    /\ Chosen(CalledBy(m), Shared(m)) = LocalCalls(m)
    /\ \A c : c \notin OfTheServer(m) =>
                 (c \in ToSet(LocalCalls(m))
                     <=> \E i \in DOMAIN HandlerOf(m) : HandlerOf(m)[i].call = c)
    /\ ToSet(LocalCalls(m)) \cap OfTheServer(m) = {}

LEMMA OneCall ==
    ASSUME NEW m, NEW a, HandlerOf(m) = <<a>>,
           LocalCalls(m) = <<a.call>>, a.call \notin OfTheServer(m)
    PROVE  CallsMatch(m)
<1>1. PICK x : x = a.call
    OBVIOUS
<1>2. DOMAIN HandlerOf(m) = {1} /\ HandlerOf(m)[1].call = x
    BY <1>1
<1>3. CalledBy(m) = <<x>>
    <2>1. CalledBy(m) = [i \in {1} |-> x]
        BY <1>2 DEF CalledBy
    <2>2. <<x>> = [i \in 1 .. 1 |-> x] /\ 1 .. 1 = {1}
        OBVIOUS
    <2> QED
        BY <2>1, <2>2
<1>4. 1 \in Shared(m)
    BY <1>1, <1>3 DEF Shared
<1>5. ToSet(LocalCalls(m)) = {x}
    BY <1>1 DEF ToSet
<1> QED
    BY <1>1, <1>2, <1>3, <1>4, <1>5, ChosenOfOne DEF CallsMatch

LEMMA NamesOfTwo ==
    ASSUME NEW m, NEW a, NEW b, HandlerOf(m) = <<a, b>>
    PROVE  CalledBy(m) = <<a.call, b.call>> /\ DOMAIN HandlerOf(m) = {1, 2}
<1>1. PICK h : h = <<a, b>>
    OBVIOUS
<1>2. DOMAIN h = 1 .. 2 /\ h[1] = a /\ h[2] = b /\ 1 .. 2 = {1, 2}
    BY <1>1
<1>3. PICK x, y : x = a.call /\ y = b.call
    OBVIOUS
<1>4. PICK t : t = <<x, y>>
    OBVIOUS
<1>5. t = [i \in 1 .. 2 |-> t[i]] /\ t[1] = x /\ t[2] = y
    BY <1>4
<1>6. [i \in 1 .. 2 |-> h[i].call] = t
    <2>1. \A i \in 1 .. 2 : i = 1 \/ i = 2
        OBVIOUS
    <2>2. \A i \in 1 .. 2 : h[i].call = t[i]
        BY <1>2, <1>3, <1>5, <2>1
    <2> QED
        BY <1>5, <2>2
<1> QED
    BY <1>1, <1>2, <1>3, <1>4, <1>6 DEF CalledBy

\* The server refuses an empty argument before the call.
LEMMA ArgumentAndCall ==
    ASSUME NEW m, NEW a, NEW b, HandlerOf(m) = <<a, b>>, LocalCalls(m) = <<b.call>>,
           a.call \in OfTheServer(m), b.call \notin OfTheServer(m)
    PROVE  CallsMatch(m)
<1>1. PICK x, y : x = a.call /\ y = b.call
    OBVIOUS
<1>2. CalledBy(m) = <<x, y>> /\ DOMAIN HandlerOf(m) = {1, 2}
    BY <1>1, NamesOfTwo
<1>3. HandlerOf(m)[1].call = x /\ HandlerOf(m)[2].call = y
    BY <1>1
<1>4. 1 \notin Shared(m) /\ 2 \in Shared(m)
    BY <1>1, <1>2 DEF Shared
<1>5. Chosen(CalledBy(m), Shared(m)) = <<y>>
    <2>1. PICK at : at = Shared(m)
        OBVIOUS
    <2>2. Chosen(<<x, y>>, at) =
              IF 1 \in at THEN IF 2 \in at THEN <<x, y>> ELSE <<x>>
              ELSE IF 2 \in at THEN <<y>> ELSE <<>>
        BY ChosenOfTwo
    <2> QED
        BY <1>2, <1>4, <2>1, <2>2
<1>6. ToSet(LocalCalls(m)) = {y}
    BY <1>1 DEF ToSet
<1> QED
    BY <1>1, <1>2, <1>3, <1>5, <1>6 DEF CallsMatch

LEMMA TwoCalls ==
    ASSUME NEW m, NEW a, NEW b, HandlerOf(m) = <<a, b>>, LocalCalls(m) = <<a.call, b.call>>,
           a.call \notin OfTheServer(m), b.call \notin OfTheServer(m)
    PROVE  CallsMatch(m)
<1>1. PICK x, y : x = a.call /\ y = b.call
    OBVIOUS
<1>2. CalledBy(m) = <<x, y>> /\ DOMAIN HandlerOf(m) = {1, 2}
    BY <1>1, NamesOfTwo
<1>3. HandlerOf(m)[1].call = x /\ HandlerOf(m)[2].call = y
    BY <1>1
<1>4. 1 \in Shared(m) /\ 2 \in Shared(m)
    BY <1>1, <1>2 DEF Shared
<1>5. Chosen(CalledBy(m), Shared(m)) = <<x, y>>
    <2>1. PICK at : at = Shared(m)
        OBVIOUS
    <2>2. Chosen(<<x, y>>, at) =
              IF 1 \in at THEN IF 2 \in at THEN <<x, y>> ELSE <<x>>
              ELSE IF 2 \in at THEN <<y>> ELSE <<>>
        BY ChosenOfTwo
    <2> QED
        BY <1>2, <1>4, <2>1, <2>2
<1>6. ToSet(LocalCalls(m)) = {x, y}
    <2>1. DOMAIN <<x, y>> = {1, 2} /\ <<x, y>>[1] = x /\ <<x, y>>[2] = y
        OBVIOUS
    <2> QED
        BY <1>1, <2>1 DEF ToSet
<1> QED
    BY <1>1, <1>2, <1>3, <1>5, <1>6 DEF CallsMatch

LEMMA ArgumentAndTwoCalls ==
    ASSUME NEW m, NEW a, NEW b, NEW c, HandlerOf(m) = <<a, b, c>>,
           LocalCalls(m) = <<b.call, c.call>>,
           a.call \in OfTheServer(m), b.call \notin OfTheServer(m), c.call \notin OfTheServer(m)
    PROVE  CallsMatch(m)
<1>1. PICK x, y, z : x = a.call /\ y = b.call /\ z = c.call
    OBVIOUS
<1>2. PICK h : h = HandlerOf(m)
    OBVIOUS
<1>3. DOMAIN h = 1 .. 3 /\ h[1].call = x /\ h[2].call = y /\ h[3].call = z
    BY <1>1, <1>2
<1>4. \A i \in 1 .. 3 : i = 1 \/ i = 2 \/ i = 3
    OBVIOUS
<1>5. PICK t : t = <<x, y, z>>
    OBVIOUS
<1>6. t = [i \in 1 .. 3 |-> t[i]] /\ t[1] = x /\ t[2] = y /\ t[3] = z
    BY <1>5
<1>7. CalledBy(m) = t
    <2>1. \A i \in 1 .. 3 : h[i].call = t[i]
        BY <1>3, <1>4, <1>6
    <2>2. [i \in 1 .. 3 |-> h[i].call] = t
        BY <1>6, <2>1
    <2> QED
        BY <1>2, <1>3, <2>2 DEF CalledBy
<1>8. DOMAIN t = 1 .. 3
    BY <1>6
<1>9. 1 \notin Shared(m) /\ 2 \in Shared(m) /\ 3 \in Shared(m)
    BY <1>1, <1>6, <1>7, <1>8 DEF Shared
<1>10. Chosen(CalledBy(m), Shared(m)) = <<y, z>>
    BY <1>5, <1>7, <1>9, ChosenOfThree
<1>11. ToSet(LocalCalls(m)) = {y, z}
    <2>1. DOMAIN <<y, z>> = {1, 2} /\ <<y, z>>[1] = y /\ <<y, z>>[2] = z
        OBVIOUS
    <2> QED
        BY <1>1, <2>1 DEF ToSet
<1>12. ASSUME NEW d, d \notin OfTheServer(m)
       PROVE  d \in {y, z} <=> \E i \in DOMAIN h : h[i].call = d
    BY <1>1, <1>3, <1>4, <1>12
<1> QED
    BY <1>1, <1>2, <1>10, <1>11, <1>12 DEF CallsMatch

\* Four calls of the server, the first its own, and the last its own or not.
LEMMA FourCalls ==
    ASSUME NEW m, NEW a, NEW b, NEW c, NEW d, HandlerOf(m) = <<a, b, c, d>>,
           a.call \in OfTheServer(m), b.call \notin OfTheServer(m), c.call \notin OfTheServer(m),
           LocalCalls(m) = IF d.call \in OfTheServer(m) THEN <<b.call, c.call>>
                           ELSE <<b.call, c.call, d.call>>
    PROVE  CallsMatch(m)
<1>1. PICK w, x, y, z : w = a.call /\ x = b.call /\ y = c.call /\ z = d.call
    OBVIOUS
<1>2. PICK h : h = HandlerOf(m)
    OBVIOUS
<1>3. DOMAIN h = 1 .. 4 /\ h[1].call = w /\ h[2].call = x /\ h[3].call = y /\ h[4].call = z
    BY <1>1, <1>2
<1>4. \A i \in 1 .. 4 : i = 1 \/ i = 2 \/ i = 3 \/ i = 4
    OBVIOUS
<1>5. PICK t : t = <<w, x, y, z>>
    OBVIOUS
<1>6. t = [i \in 1 .. 4 |-> t[i]] /\ t[1] = w /\ t[2] = x /\ t[3] = y /\ t[4] = z
    BY <1>5
<1>7. CalledBy(m) = t
    <2>1. \A i \in 1 .. 4 : h[i].call = t[i]
        BY <1>3, <1>4, <1>6
    <2>2. [i \in 1 .. 4 |-> h[i].call] = t
        BY <1>6, <2>1
    <2> QED
        BY <1>2, <1>3, <2>2 DEF CalledBy
<1>8. DOMAIN t = 1 .. 4
    BY <1>6
<1>9. /\ 1 \notin Shared(m) /\ 2 \in Shared(m) /\ 3 \in Shared(m)
      /\ 4 \in Shared(m) <=> z \notin OfTheServer(m)
    BY <1>1, <1>6, <1>7, <1>8 DEF Shared
<1>10. Chosen(CalledBy(m), Shared(m)) =
          IF z \in OfTheServer(m) THEN <<x, y>> ELSE <<x, y, z>>
    <2>1. Chosen(CalledBy(m), Shared(m)) =
             IF 4 \in Shared(m) THEN <<x, y, z>> ELSE <<x, y>>
        BY <1>5, <1>7, <1>9, ChosenOfFour
    <2> QED
        BY <1>9, <2>1
<1>11. ToSet(LocalCalls(m)) = IF z \in OfTheServer(m) THEN {x, y} ELSE {x, y, z}
    <2>1. DOMAIN <<x, y>> = {1, 2} /\ <<x, y>>[1] = x /\ <<x, y>>[2] = y
        OBVIOUS
    <2>2. /\ DOMAIN <<x, y, z>> = {1, 2, 3}
          /\ <<x, y, z>>[1] = x /\ <<x, y, z>>[2] = y /\ <<x, y, z>>[3] = z
        OBVIOUS
    <2> QED
        BY <1>1, <2>1, <2>2 DEF ToSet
<1>12. ASSUME NEW e, e \notin OfTheServer(m)
       PROVE  e \in (IF z \in OfTheServer(m) THEN {x, y} ELSE {x, y, z})
                 <=> \E i \in DOMAIN h : h[i].call = e
    BY <1>1, <1>3, <1>4, <1>12
<1>13. LocalCalls(m) = IF z \in OfTheServer(m) THEN <<x, y>> ELSE <<x, y, z>>
    BY <1>1
<1> QED
    BY <1>2, <1>10, <1>11, <1>12, <1>13 DEF CallsMatch

LEMMA EveryOperationMatches ==
    ASSUME NEW m \in Methods
    PROVE  CallsMatch(m)
<1>1. CASE m = "RegisterResource"
    <2>1. HandlerOf(m) =
             <<Bad("ParseURI"), Bad("Sources.Validate"),
               Internal("Resources.Create"), Internal("Resources.Get")>>
        BY <1>1 DEF HandlerOf, handleRegisterResource
    <2>2. LocalCalls(m) = <<"Sources.Validate", "Resources.Create">>
        BY <1>1 DEF LocalCalls
    <2> QED
        BY <1>1, <2>1, <2>2, FourCalls DEF Bad, Internal, OfTheServer
<1>2. CASE m = "ListResources"
    <2>1. HandlerOf(m) = <<Internal("Resources.List")>>
        BY <1>2 DEF HandlerOf, handleListResources
    <2>2. LocalCalls(m) = <<"Resources.List">>
        BY <1>2 DEF LocalCalls
    <2> QED
        BY <1>2, <2>1, <2>2, OneCall DEF Internal, OfTheServer
<1>3. CASE m = "GetResource"
    <2>1. HandlerOf(m) = <<Bad("argument"), Domain("Resources.Get")>>
        BY <1>3 DEF HandlerOf, handleGetResource
    <2>2. LocalCalls(m) = <<"Resources.Get">>
        BY <1>3 DEF LocalCalls
    <2> QED
        BY <1>3, <2>1, <2>2, ArgumentAndCall DEF Bad, Domain, OfTheServer
<1>4. CASE m = "History"
    <2>1. HandlerOf(m) = <<Bad("argument"), Domain("Snapshots.ListByResource")>>
        BY <1>4 DEF HandlerOf, handleHistory
    <2>2. LocalCalls(m) = <<"Snapshots.ListByResource">>
        BY <1>4 DEF LocalCalls
    <2> QED
        BY <1>4, <2>1, <2>2, ArgumentAndCall DEF Bad, Domain, OfTheServer
<1>5. CASE m = "GetSnapshot"
    <2>1. HandlerOf(m) = <<Bad("argument"), Domain("Snapshots.Get")>>
        BY <1>5 DEF HandlerOf, handleGetSnapshot
    <2>2. LocalCalls(m) = <<"Snapshots.Get">>
        BY <1>5 DEF LocalCalls
    <2> QED
        BY <1>5, <2>1, <2>2, ArgumentAndCall DEF Bad, Domain, OfTheServer
<1>6. CASE m = "SetTag"
    <2>1. HandlerOf(m) = <<Bad("argument"), Domain("Tags.Set"), Domain("Tags.Get")>>
        BY <1>6 DEF HandlerOf, handleSetTag
    <2>2. LocalCalls(m) = <<"Tags.Set", "Tags.Get">>
        BY <1>6 DEF LocalCalls
    <2> QED
        BY <1>6, <2>1, <2>2, ArgumentAndTwoCalls DEF Bad, Domain, OfTheServer
<1>7. CASE m = "ListTags"
    <2>1. HandlerOf(m) = <<Bad("argument"), Domain("Tags.List")>>
        BY <1>7 DEF HandlerOf, handleListTags
    <2>2. LocalCalls(m) = <<"Tags.List">>
        BY <1>7 DEF LocalCalls
    <2> QED
        BY <1>7, <2>1, <2>2, ArgumentAndCall DEF Bad, Domain, OfTheServer
<1>8. CASE m = "DeleteTag"
    <2>1. HandlerOf(m) = <<Bad("argument"), Domain("Tags.Delete")>>
        BY <1>8 DEF HandlerOf, handleDeleteTag
    <2>2. LocalCalls(m) = <<"Tags.Delete">>
        BY <1>8 DEF LocalCalls
    <2> QED
        BY <1>8, <2>1, <2>2, ArgumentAndCall DEF Bad, Domain, OfTheServer
<1>9. CASE m = "Resolve"
    <2>1. HandlerOf(m) = <<Domain("Resolver.Resolve")>>
        BY <1>9 DEF HandlerOf, handleResolve
    <2>2. LocalCalls(m) = <<"Resolver.Resolve">>
        BY <1>9 DEF LocalCalls
    <2> QED
        BY <1>9, <2>1, <2>2, OneCall DEF Domain, OfTheServer
<1>10. CASE m = "RunStart"
    <2>1. HandlerOf(m) = <<Internal("RunBuilder.Start")>>
        BY <1>10 DEF HandlerOf, handleRunStart
    <2>2. LocalCalls(m) = <<"RunBuilder.Start">>
        BY <1>10 DEF LocalCalls
    <2> QED
        BY <1>10, <2>1, <2>2, OneCall DEF Internal, OfTheServer
<1>11. CASE m = "RunMount"
    <2>1. HandlerOf(m) = <<Internal("Runs.ListMounts"), Domain("RunBuilder.Mount")>>
        BY <1>11 DEF HandlerOf, handleRunMount
    <2>2. LocalCalls(m) = <<"Runs.ListMounts", "RunBuilder.Mount">>
        BY <1>11 DEF LocalCalls
    <2> QED
        BY <1>11, <2>1, <2>2, TwoCalls DEF Domain, Internal, OfTheServer
<1>12. CASE m = "RunCommit"
    <2>1. HandlerOf(m) = <<Domain("RunBuilder.Commit")>>
        BY <1>12 DEF HandlerOf, handleRunCommit
    <2>2. LocalCalls(m) = <<"RunBuilder.Commit">>
        BY <1>12 DEF LocalCalls
    <2> QED
        BY <1>12, <2>1, <2>2, OneCall DEF Domain, OfTheServer
<1>13. CASE m = "GetManifest"
    <2>1. PICK a, b : /\ a = Bad("argument") /\ b = Domain("Manifests.GetByIDOrRun a")
                      /\ HandlerOf(m) = <<a, b>>
        BY <1>13, Zenon DEF HandlerOf, handleGetManifest
    <2>2. LocalCalls(m) = <<b.call>>
        BY <1>13, <2>1, Zenon DEF LocalCalls, Domain
    <2>3. a.call \in OfTheServer(m) /\ b.call \notin OfTheServer(m)
        BY <1>13, <2>1, Zenon DEF OfTheServer, Bad, Domain
    <2>4. HandlerOf(m) = <<a, b>>
        BY <2>1, Zenon
    <2> QED
        BY <2>2, <2>3, <2>4, ArgumentAndCall
<1>14. CASE m = "Diff"
    <2>1. PICK a, b, c, d :
             /\ a = Bad("argument") /\ b = Domain("Manifests.GetByIDOrRun a")
             /\ c = Domain("Manifests.GetByIDOrRun b") /\ d = Internal("diff.Compute")
             /\ HandlerOf(m) = <<a, b, c, d>>
        BY <1>14, Zenon DEF HandlerOf, handleDiff
    <2>2. LocalCalls(m) = <<b.call, c.call, d.call>>
        BY <1>14, <2>1, Zenon DEF LocalCalls, Domain, Internal
    <2>3. /\ a.call \in OfTheServer(m) /\ b.call \notin OfTheServer(m)
          /\ c.call \notin OfTheServer(m) /\ d.call \notin OfTheServer(m)
        BY <1>14, <2>1, Zenon DEF OfTheServer, Bad, Domain, Internal
    <2>4. HandlerOf(m) = <<a, b, c, d>>
        BY <2>1, Zenon
    <2> QED
        BY <2>2, <2>3, <2>4, FourCalls
<1>15. CASE m = "Replay"
    <2>1. HandlerOf(m) = <<Bad("argument"), Domain("Replayer.Replay")>>
        BY <1>15 DEF HandlerOf, handleReplay
    <2>2. LocalCalls(m) = <<"Replayer.Replay">>
        BY <1>15 DEF LocalCalls
    <2> QED
        BY <1>15, <2>1, <2>2, ArgumentAndCall DEF Bad, Domain, OfTheServer
<1> QED
    BY <1>1, <1>2, <1>3, <1>4, <1>5, <1>6, <1>7, <1>8, <1>9, <1>10, <1>11, <1>12, <1>13, <1>14, <1>15 DEF Methods

(***************************************************************************)
(* Answers                                                                 *)
(***************************************************************************)

\* A call of the handler fails.
Failing(m, outcome) ==
    \E i \in DOMAIN HandlerOf(m) : HandlerOf(m)[i].call = outcome.failed

LEMMA DomainErrorIs ==
    ASSUME NEW err
    PROVE  \/ err \in NotFoundSentinels /\ writeDomainError(err) = 404
           \/ /\ err \notin NotFoundSentinels
              /\ \/ writeDomainError(err) = 409 \/ writeDomainError(err) = 400
                 \/ writeDomainError(err) = 500
<1> DEFINE committed == "already committed"
           refused == {"denied", "invalid tag name", "snapshot mismatch"}
<1>1. writeDomainError(err) =
         CASE err \in NotFoundSentinels -> 404
           [] err = committed           -> 409
           [] err \in refused           -> 400
           [] OTHER                     -> 500
    BY Zenon DEF writeDomainError
<1>2. committed \notin NotFoundSentinels /\ committed \notin refused
    BY Zenon DEF NotFoundSentinels
<1>3. \A x \in refused : x \notin NotFoundSentinels
    BY Zenon DEF NotFoundSentinels
<1>4. PICK S, c, R : S = NotFoundSentinels /\ c = committed /\ R = refused
    BY Zenon
<1>5. PICK w : w = writeDomainError(err)
    OBVIOUS
<1>6. /\ w = CASE err \in S -> 404 [] err = c -> 409 [] err \in R -> 400 [] OTHER -> 500
      /\ c \notin S /\ c \notin R /\ \A x \in R : x \notin S
    BY <1>1, <1>2, <1>3, <1>4, <1>5, Zenon
<1>7. (err \in S /\ w = 404) \/ (err \notin S /\ (w = 409 \/ w = 400 \/ w = 500))
    BY <1>6
<1> QED
    BY <1>4, <1>5, <1>7, Zenon

LEMMA HttpStatusIs ==
    ASSUME NEW kind, NEW err
    PROVE  HttpStatus(kind, err) \in {400, 404, 409, 500}
<1>1. PICK w : w = writeDomainError(err)
    OBVIOUS
<1>2. w \in {400, 404, 409, 500}
    BY <1>1, DomainErrorIs
<1>3. HttpStatus(kind, err) = CASE kind = "bad" -> 400 [] kind = "internal" -> 500 [] OTHER -> w
    BY <1>1 DEF HttpStatus
<1>4. PICK s : s = HttpStatus(kind, err)
    OBVIOUS
<1>5. s \in {400, 404, 409, 500}
    BY <1>2, <1>3, <1>4
<1> QED
    BY <1>4, <1>5

LEMMA ErrorIs ==
    ASSUME NEW status, NEW err
    PROVE  writeError(status, err).status = status
BY Zenon DEF writeError

\* What the SDK makes of the body of an answer.
SdkValue(m, body) ==
    CASE m = "Resolve"  -> decodeResolveResponse(body)
      [] m = "RunMount" -> [body EXCEPT !.resolve = decodeResolveResponse(@)]
      [] m = "Replay"   -> decodeReplayResult(body)
      [] OTHER          -> body

\* What the remote client and the SDK make of an answer.
LEMMA AnswersAre ==
    ASSUME NEW m, NEW outcome
    PROVE  /\ Failing(m, outcome) =>
                 \E i \in DOMAIN HandlerOf(m) :
                    /\ HandlerOf(m)[i].call = outcome.failed
                    /\ Remote(m, outcome) =
                          [ok |-> FALSE,
                           error |-> writeError(HttpStatus(HandlerOf(m)[i].as, outcome.error),
                                                outcome.error).error]
                    /\ ~SdkRequest(m, outcome).ok
           /\ ~Failing(m, outcome) =>
                 /\ Remote(m, outcome) =
                       [ok |-> TRUE, value |-> FromWire(m, ToWire(m, outcome.value))]
                 /\ SdkRequest(m, outcome).ok
                 /\ SdkRequest(m, outcome).value = SdkValue(m, ToWire(m, outcome.value))
<1>1. PICK h, r : h = HandlerOf(m) /\ r = Respond(m, outcome)
    OBVIOUS
<1>2. PICK at : at = {i \in DOMAIN h : h[i].call = outcome.failed}
    OBVIOUS
<1>3. Failing(m, outcome) <=> at # {}
    BY <1>1, <1>2 DEF Failing
<1>4. r = IF at # {}
          THEN writeError(HttpStatus(h[CHOOSE i \in at : TRUE].as, outcome.error), outcome.error)
          ELSE [status |-> 200, body |-> ToWire(m, outcome.value)]
    BY <1>1, <1>2 DEF Respond
<1>5. CASE at # {}
    <2>1. PICK i : i = CHOOSE j \in at : TRUE
        OBVIOUS
    <2>2. i \in at
        BY <1>5, <2>1
    <2>3. PICK s : s = HttpStatus(h[i].as, outcome.error)
        OBVIOUS
    <2>4. r = writeError(s, outcome.error)
        BY <1>4, <1>5, <2>1, <2>3
    <2>5. r.status = s
        BY <2>4, ErrorIs
    <2>6. s \in {400, 404, 409, 500}
        BY <2>3, HttpStatusIs
    <2>7. r.status >= 300
        BY <2>5, <2>6
    <2>8. Remote(m, outcome) = [ok |-> FALSE, error |-> writeError(s, outcome.error).error]
        BY <1>1, <2>4, <2>7 DEF Remote
    <2>9. ~SdkRequest(m, outcome).ok
        BY <1>1, <2>7 DEF SdkRequest
    <2> QED
        BY <1>1, <1>2, <1>3, <1>5, <2>2, <2>3, <2>8, <2>9
<1>6. CASE at = {}
    <2>1. r.status = 200 /\ r.body = ToWire(m, outcome.value)
        BY <1>4, <1>6
    <2>2. ~(r.status >= 300)
        BY <2>1
    <2>3. Remote(m, outcome) = [ok |-> TRUE, value |-> FromWire(m, ToWire(m, outcome.value))]
        BY <1>1, <2>1, <2>2 DEF Remote
    <2>4. /\ SdkRequest(m, outcome).ok
          /\ SdkRequest(m, outcome).value = SdkValue(m, ToWire(m, outcome.value))
        BY <1>1, <2>1, <2>2 DEF SdkRequest, SdkValue
    <2> QED
        BY <1>3, <1>6, <2>3, <2>4
<1> QED
    BY <1>5, <1>6

\* An error that the server tells by its text is "not found" as its sentinel is;
\* go-github's text apart, which the server does not tell.
LEMMA NotFoundAlike ==
    ASSUME NEW err, err # NotFoundText, NEW status, status = writeDomainError(err)
    PROVE  isNotFound(err) <=> isNotFound(writeError(status, err).error)
<1>1. \/ err \in NotFoundSentinels /\ status = 404
      \/ err \notin NotFoundSentinels /\ (status = 409 \/ status = 400 \/ status = 500)
    BY DomainErrorIs
<1>2. PICK text : text = "internal server error"
    BY Zenon
<1>3. writeError(status, err).error = IF status >= 500 THEN text ELSE err
    BY <1>2, Zenon DEF writeError
<1>4. ~isNotFound(text)
    BY <1>2, Zenon DEF isNotFound, NotFoundSentinels, NotFoundText
<1>5. isNotFound(err) <=> err \in NotFoundSentinels
    BY Zenon DEF isNotFound
<1>6. CASE status = 500
    <2>1. status >= 500 /\ err \notin NotFoundSentinels
        BY <1>1, <1>6
    <2> QED
        BY <1>3, <1>4, <1>5, <2>1
<1>7. CASE status # 500
    <2>1. ~(status >= 500)
        BY <1>1, <1>7
    <2> QED
        BY <1>3, <2>1
<1> QED
    BY <1>6, <1>7

(***************************************************************************)
(* Round trips                                                             *)
(***************************************************************************)

\* A header is redacted once, however many layers redact it.
LEMMA RedactedTwice == \A header : Redact(Redact(header)) = Redact(header)
    BY DEF Redact

LEMMA ResourceIsShown ==
    ASSUME NEW r, Stored(r.Policy)
    PROVE  /\ resourceInfo(ResourceFromWire(ResourceToWireRedacted(r))) = resourceInfo(r)
           /\ PluginResourceInfo(ResourceToWireRedacted(r)) = resourceInfo(r)
<1>1. PICK w : w = ResourceToWireRedacted(r)
    OBVIOUS
<1>2. PICK v : v = ResourceFromWire(w)
    OBVIOUS
<1>3. PICK p, q, k : p = r.Policy /\ q = PolicyToWire(p) /\ k = PolicyFromWire(q)
    OBVIOUS
<1>4. /\ k = [Strategy |-> p.Strategy, Pinned |-> p.Pinned, MaxAge |-> p.MaxAge]
      /\ q.seconds = p.MaxAge \div Second
      /\ q.seconds # 0 <=> p.MaxAge > 0
      /\ q.strategy = p.Strategy /\ q.pinned = p.Pinned
    <2>1. q.strategy = p.Strategy /\ q.pinned = p.Pinned
        BY <1>3 DEF PolicyToWire
    <2> QED
        BY <1>3, <2>1, StoredRoundTrip
<1>5. PICK c : c = r.SourceConfig
    OBVIOUS
<1>6. SourceToWireRedacted(c) =
         [kind |-> c.Kind, locator |-> c.Locator, headers |-> Redact(c.Headers)]
    BY DEF SourceToWireRedacted, SourceToWire
<1>7. /\ w.uri = r.URI /\ w.current = r.CurrentSnapshotID /\ w.policy = q
      /\ w.source = [kind |-> c.Kind, locator |-> c.Locator, headers |-> Redact(c.Headers)]
    BY <1>1, <1>3, <1>5, <1>6 DEF ResourceToWireRedacted
<1>8. /\ v.URI = r.URI /\ v.CurrentSnapshotID = r.CurrentSnapshotID /\ v.Policy = k
      /\ v.SourceConfig = [Kind |-> c.Kind, Locator |-> c.Locator, Headers |-> Redact(c.Headers)]
    BY <1>2, <1>3, <1>7 DEF ResourceFromWire, SourceFromWire
<1>9. /\ sourceInfo(v.SourceConfig) = sourceInfo(c)
      /\ PluginSourceInfo(w) = sourceInfo(c)
    BY <1>7, <1>8, RedactedTwice DEF sourceInfo, PluginSourceInfo
<1>10. /\ policyInfo(v.Policy) = policyInfo(p)
       /\ PluginPolicyInfo(w) = policyInfo(p)
    BY <1>4, <1>7, <1>8 DEF policyInfo, PluginPolicyInfo
<1>11. policyLabel(v.Policy) = policyLabel(p) /\ PluginPolicyLabel(w) = policyLabel(p)
    <2>1. k.Strategy = p.Strategy /\ k.MaxAge = p.MaxAge /\ k.Pinned = p.Pinned
        BY <1>4
    <2>2. policyLabel(k) = policyLabel(p)
        BY <2>1, Zenon DEF policyLabel
    <2>3. PICK s, n, z, old : /\ s = p.Strategy /\ n = p.MaxAge \div Second /\ z = p.Pinned
                              /\ old <=> p.MaxAge > 0
        <3>1. \E old : old <=> p.MaxAge > 0
            <4>2. CASE p.MaxAge > 0
                <5>1. TRUE <=> p.MaxAge > 0
                    BY <4>2
                <5> QED
                    BY <5>1, Zenon
            <4>3. CASE ~(p.MaxAge > 0)
                <5>1. FALSE <=> p.MaxAge > 0
                    BY <4>3
                <5> QED
                    BY <5>1, Zenon
            <4> QED
                BY <4>2, <4>3
        <3> QED
            BY <3>1
    <2>4. policyLabel(p) = <<s, CASE s = "allow_stale" /\ old -> n
                                  [] s = "pinned" -> z [] OTHER -> None>>
        BY <2>3, Zenon DEF policyLabel
    <2>5. /\ w.policy.strategy = s /\ w.policy.seconds = n /\ w.policy.pinned = z
          /\ w.policy.seconds # 0 <=> old
        BY <1>4, <1>7, <2>3
    <2>6. PluginPolicyLabel(w) = <<s, CASE s = "allow_stale" /\ old -> n
                                        [] s = "pinned" -> z [] OTHER -> None>>
        BY <2>5 DEF PluginPolicyLabel
    <2> QED
        BY <1>8, <2>2, <2>4, <2>6
<1>12. /\ describeResource(v) = describeResource(r)
       /\ PluginDescribe(w) = describeResource(r)
    BY <1>3, <1>5, <1>7, <1>8, <1>11 DEF describeResource, PluginDescribe
<1>13. resourceInfo(v) = resourceInfo(r)
    BY <1>3, <1>5, <1>8, <1>9, <1>10, <1>12 DEF resourceInfo
<1>14. PluginResourceInfo(w) = resourceInfo(r)
    BY <1>3, <1>5, <1>7, <1>9, <1>10, <1>12 DEF resourceInfo, PluginResourceInfo
<1> QED
    BY <1>1, <1>2, <1>13, <1>14

Instant == [second : Int, fraction : [1 .. Digits -> 0 .. 9]]

\* An instant is carried as a text, and the text begins with its second.
LEMMA TimesAreCarried ==
    ASSUME NEW t \in Instant
    PROVE  /\ UnmarshalJSON(MarshalJSON(t)) = t
           /\ <<Head(MarshalJSON(t)), UTC>> = formatTime(t)
<1>1. Digits \in Nat /\ t \in [second : Int, fraction : [1 .. Digits -> 0 .. 9]]
    BY DigitsAreCounted DEF Instant
<1>2. Parse(Format(t), Digits) = t
    BY <1>1, ParsedIsWritten
<1>3. PICK k : k = Kept(t.fraction)
    OBVIOUS
<1>4. Format(t)[1] = t.second
    BY <1>1, <1>3, FormatIs
<1> QED
    BY <1>2, <1>4 DEF UnmarshalJSON, MarshalJSON, formatTime

LEMMA SnapshotIsShown ==
    ASSUME NEW s, s.ObservedAt \in Instant, s.CreatedAt \in Instant, NEW tags
    PROVE  /\ snapshotInfo(SnapshotFromWire(SnapshotToWire(s)), tags) = snapshotInfo(s, tags)
           /\ ToSeconds(PluginSnapshotInfo(SnapshotToWire(s), tags)) = snapshotInfo(s, tags)
<1>1. PICK w, o, c : /\ w = SnapshotToWire(s)
                     /\ o = MarshalJSON(s.ObservedAt) /\ c = MarshalJSON(s.CreatedAt)
    OBVIOUS
<1>2. /\ w.id = s.SnapshotID /\ w.resource_uri = s.ResourceURI
      /\ w.content_hash = s.ContentHash /\ w.observation = s.Observation
      /\ w.observed_at = o /\ w.created_at = c
    BY <1>1 DEF SnapshotToWire
<1>3. /\ UnmarshalJSON(o) = s.ObservedAt /\ <<Head(o), UTC>> = formatTime(s.ObservedAt)
      /\ UnmarshalJSON(c) = s.CreatedAt /\ <<Head(c), UTC>> = formatTime(s.CreatedAt)
    BY <1>1, TimesAreCarried
<1>4. PICK v : v = SnapshotFromWire(w)
    OBVIOUS
<1>5. /\ v.SnapshotID = s.SnapshotID /\ v.ResourceURI = s.ResourceURI
      /\ v.ContentHash = s.ContentHash /\ v.Observation = s.Observation
      /\ v.ObservedAt = s.ObservedAt /\ v.CreatedAt = s.CreatedAt
    BY <1>2, <1>3, <1>4 DEF SnapshotFromWire
<1>6. snapshotInfo(v, tags) = snapshotInfo(s, tags)
    BY <1>5 DEF snapshotInfo
<1>7. ToSeconds(PluginSnapshotInfo(w, tags)) =
         [snapshot_id |-> w.id, resource_uri |-> w.resource_uri,
          content_hash |-> w.content_hash, observation |-> w.observation,
          observed_at |-> <<Head(o), UTC>>, created_at |-> <<Head(c), UTC>>, tags |-> tags]
    BY <1>2 DEF ToSeconds, TimeFields, PluginSnapshotInfo
<1>8. ToSeconds(PluginSnapshotInfo(w, tags)) = snapshotInfo(s, tags)
    BY <1>2, <1>3, <1>7 DEF snapshotInfo
<1> QED
    BY <1>1, <1>4, <1>6, <1>8

LEMMA TagIsShown ==
    ASSUME NEW t, t.UpdatedAt \in Instant
    PROVE  /\ tagInfo(TagFromWire(TagToWire(t))) = tagInfo(t)
           /\ ToSeconds(PluginTagInfo(TagToWire(t))) = tagInfo(t)
<1>1. PICK w, u : w = TagToWire(t) /\ u = MarshalJSON(t.UpdatedAt)
    OBVIOUS
<1>2. /\ w.uri = t.ResourceURI /\ w.tag = t.Name /\ w.snapshot_id = t.SnapshotID
      /\ w.updated_at = u
    BY <1>1 DEF TagToWire
<1>3. UnmarshalJSON(u) = t.UpdatedAt /\ <<Head(u), UTC>> = formatTime(t.UpdatedAt)
    BY <1>1, TimesAreCarried
<1>4. PICK v : v = TagFromWire(w)
    OBVIOUS
<1>5. /\ v.ResourceURI = t.ResourceURI /\ v.Name = t.Name /\ v.SnapshotID = t.SnapshotID
      /\ v.UpdatedAt = t.UpdatedAt
    BY <1>2, <1>3, <1>4 DEF TagFromWire
<1>6. tagInfo(v) = tagInfo(t)
    BY <1>5 DEF tagInfo
<1>7. ToSeconds(PluginTagInfo(w)) =
         [uri |-> w.uri, tag |-> w.tag, snapshot_id |-> w.snapshot_id,
          updated_at |-> <<Head(u), UTC>>, reference |-> <<w.uri, w.tag>>]
    BY <1>2 DEF ToSeconds, TimeFields, PluginTagInfo
<1>8. ToSeconds(PluginTagInfo(w)) = tagInfo(t)
    BY <1>2, <1>3, <1>7 DEF tagInfo
<1> QED
    BY <1>1, <1>4, <1>6, <1>8

Decisions == {"fetch", "use_current", "use_pinned", "use_tag"}

\* Of a resolve, although not all of the resource is sent.
LEMMA ResolveIsShown ==
    ASSUME NEW r, r.Decision \in Decisions, r.Snapshot.ObservedAt \in Instant,
           r.Snapshot.CreatedAt \in Instant
    PROVE  /\ resolveOut(ResolveResponseToResult(ResolveResultToWire(r))) = resolveOut(r)
           /\ ResolveResponseToResult(ResolveResultToWire(r)).Content = r.Content
           /\ r.Content \notin Binary =>
                 ToSeconds(PluginResolveOut(decodeResolveResponse(ResolveResultToWire(r))))
                    = resolveOut(r)
<1>1. PICK w : w = ResolveResultToWire(r)
    OBVIOUS
<1>2. PICK s : s = r.Snapshot
    OBVIOUS
<1>3. w = [resource |-> w.resource, snapshot |-> SnapshotToWire(s),
           materialization |-> r.Materialization, status |-> r.Decision, content |-> r.Content]
    BY <1>1, <1>2 DEF ResolveResultToWire
<1>4. w.resource.ref = r.Ref
    BY <1>1 DEF ResolveResultToWire
<1>5. PICK ws, o : ws = SnapshotToWire(s) /\ o = MarshalJSON(s.ObservedAt)
    OBVIOUS
<1>6. /\ ws.id = s.SnapshotID /\ ws.resource_uri = s.ResourceURI
      /\ ws.content_hash = s.ContentHash /\ ws.observation = s.Observation
      /\ ws.observed_at = o
    BY <1>5 DEF SnapshotToWire
<1>6a. UnmarshalJSON(o) = s.ObservedAt /\ <<Head(o), UTC>> = formatTime(s.ObservedAt)
    BY <1>2, <1>5, TimesAreCarried
<1>7. /\ w.snapshot = ws /\ w.materialization = r.Materialization /\ w.status = r.Decision
      /\ w.content = r.Content
    BY <1>3, <1>5
<1>8. PICK v : v = ResolveResponseToResult(w)
    OBVIOUS
<1>9. /\ v.Snapshot = SnapshotFromWire(ws) /\ v.Materialization = r.Materialization
      /\ v.Ref = r.Ref /\ v.Content = r.Content
    BY <1>4, <1>7, <1>8 DEF ResolveResponseToResult
<1>10. v.Decision = r.Decision
    <2>1. v.Decision = IF r.Decision \in {"use_current", "use_pinned", "use_tag"}
                       THEN r.Decision ELSE "fetch"
        BY <1>7, <1>8 DEF ResolveResponseToResult
    <2> QED
        BY <2>1 DEF Decisions
<1>11. PICK vs : vs = v.Snapshot
    OBVIOUS
<1>12. /\ vs.SnapshotID = s.SnapshotID /\ vs.ResourceURI = s.ResourceURI
       /\ vs.ContentHash = s.ContentHash /\ vs.Observation = s.Observation
       /\ vs.ObservedAt = s.ObservedAt
    BY <1>6, <1>9, <1>11, <1>6a DEF SnapshotFromWire
<1>13. resolveOut(v) = resolveOut(r)
    BY <1>2, <1>9, <1>10, <1>11, <1>12 DEF resolveOut
<1>14. ASSUME r.Content \notin Binary
       PROVE  ToSeconds(PluginResolveOut(decodeResolveResponse(w))) = resolveOut(r)
    <2>1. PICK x : x = decodeResolveResponse(w)
        OBVIOUS
    <2>2. x = [w EXCEPT !.content = r.Content]
        BY <1>7, <1>14, <2>1 DEF decodeResolveResponse, Decoded
    <2>3. x = w
        BY <1>3, <2>2
    <2>4. PluginResolveOut(w) =
             [uri |-> s.ResourceURI, ref |-> r.Ref, decision |-> r.Decision,
              snapshot_id |-> s.SnapshotID, content_hash |-> s.ContentHash,
              observation |-> s.Observation, observed_at |-> o,
              materialization |-> r.Materialization, content |-> r.Content]
        BY <1>4, <1>6, <1>7 DEF PluginResolveOut
    <2>5. ToSeconds(PluginResolveOut(w)) =
             [uri |-> s.ResourceURI, ref |-> r.Ref, decision |-> r.Decision,
              snapshot_id |-> s.SnapshotID, content_hash |-> s.ContentHash,
              observation |-> s.Observation, observed_at |-> <<Head(o), UTC>>,
              materialization |-> r.Materialization, content |-> r.Content]
        BY <2>4 DEF ToSeconds, TimeFields
    <2> QED
        BY <1>2, <1>6a, <2>1, <2>3, <2>5 DEF resolveOut
<1> QED
    BY <1>1, <1>8, <1>9, <1>13, <1>14

LEMMA ManifestIsShown ==
    ASSUME NEW v, v.CreatedAt \in Instant
    PROVE  /\ manifestOut(ManifestFromWire(ManifestToWire(v))) = manifestOut(v)
           /\ ToSeconds(PluginManifestOut(ManifestToWire(v))) = manifestOut(v)
<1>1. PICK w, c : w = ManifestToWire(v) /\ c = MarshalJSON(v.CreatedAt)
    OBVIOUS
<1>2. /\ w.manifest_id = v.ManifestID /\ w.run_id = v.RunID /\ w.entries = v.Entries
      /\ w.created_at = c
    BY <1>1 DEF ManifestToWire
<1>3. UnmarshalJSON(c) = v.CreatedAt /\ <<Head(c), UTC>> = formatTime(v.CreatedAt)
    BY <1>1, TimesAreCarried
<1>4. PICK x : x = ManifestFromWire(w)
    OBVIOUS
<1>5. /\ x.ManifestID = v.ManifestID /\ x.RunID = v.RunID /\ x.Entries = v.Entries
      /\ x.CreatedAt = v.CreatedAt
    BY <1>2, <1>3, <1>4 DEF ManifestFromWire
<1>6. manifestOut(x) = manifestOut(v)
    BY <1>5 DEF manifestOut
<1>7. ToSeconds(PluginManifestOut(w)) =
         [manifest_id |-> w.manifest_id, run_id |-> w.run_id, entries |-> w.entries,
          created_at |-> <<Head(c), UTC>>]
    BY <1>2 DEF ToSeconds, TimeFields, PluginManifestOut
<1>8. ToSeconds(PluginManifestOut(w)) = manifestOut(v)
    BY <1>2, <1>3, <1>7 DEF manifestOut
<1> QED
    BY <1>1, <1>4, <1>6, <1>8

\* What else is shown of a manifest, of a difference and of a replay.
LEMMA ManifestIsNamed ==
    ASSUME NEW v
    PROVE  /\ ManifestToWire(v).manifest_id = v.ManifestID
           /\ ManifestToWire(v).run_id = v.RunID
           /\ ManifestFromWire(ManifestToWire(v)).ManifestID = v.ManifestID
           /\ ManifestFromWire(ManifestToWire(v)).RunID = v.RunID
BY DEF ManifestToWire, ManifestFromWire

\* The sides of the entries of a difference, and when what they name was observed.
SidesTyped(es) ==
    \A u \in DOMAIN es : \A side \in {es[u].a, es[u].b} :
        side.snapshot # None => side.provenance.ObservedAt \in Instant

LEMMA ProvenanceIsShown ==
    ASSUME NEW p, p.ObservedAt \in Instant
    PROVE  /\ provenanceOut(ProvenanceFromWire(ProvenanceToWire(p))) = provenanceOut(p)
           /\ ToSeconds(ProvenanceToWire(p)) = provenanceOut(p)
<1>1. PICK w, o : w = ProvenanceToWire(p) /\ o = MarshalJSON(p.ObservedAt)
    OBVIOUS
<1>2. w = [revision |-> p.Revision, observed_at |-> o]
    BY <1>1 DEF ProvenanceToWire
<1>3. UnmarshalJSON(o) = p.ObservedAt /\ <<Head(o), UTC>> = formatTime(p.ObservedAt)
    BY <1>1, TimesAreCarried
<1>4. provenanceOut(ProvenanceFromWire(w)) = provenanceOut(p)
    BY <1>2, <1>3 DEF ProvenanceFromWire, provenanceOut
<1>5. ToSeconds(w) = provenanceOut(p)
    BY <1>2, <1>3 DEF ToSeconds, TimeFields, provenanceOut
<1> QED
    BY <1>1, <1>4, <1>5

LEMMA EntriesAreShown ==
    ASSUME NEW es, SidesTyped(es)
    PROVE  LET ws == EntriesWith(ProvenanceToWire, es)
               xs == EntriesWith(ProvenanceFromWire, ws)
           IN  /\ EntriesWith(provenanceOut, xs) = EntriesWith(provenanceOut, es)
               /\ EntriesWith(ToSeconds, ws) = EntriesWith(provenanceOut, es)
               /\ DOMAIN ws = DOMAIN es /\ DOMAIN xs = DOMAIN es
               /\ \A u \in DOMAIN es : /\ ws[u].status = es[u].status
                                       /\ xs[u].status = es[u].status
<1>1. PICK ws, xs : /\ ws = EntriesWith(ProvenanceToWire, es)
                    /\ xs = EntriesWith(ProvenanceFromWire, ws)
    OBVIOUS
<1> DEFINE SideW(s) == [snapshot |-> s.snapshot, ref |-> s.ref,
                        provenance |-> IF s.snapshot = None THEN None
                                       ELSE ProvenanceToWire(s.provenance)]
           SideX(s) == [snapshot |-> s.snapshot, ref |-> s.ref,
                        provenance |-> IF s.snapshot = None THEN None
                                       ELSE ProvenanceFromWire(s.provenance)]
           SideO(s) == [snapshot |-> s.snapshot, ref |-> s.ref,
                        provenance |-> IF s.snapshot = None THEN None
                                       ELSE provenanceOut(s.provenance)]
           SideS(s) == [snapshot |-> s.snapshot, ref |-> s.ref,
                        provenance |-> IF s.snapshot = None THEN None
                                       ELSE ToSeconds(s.provenance)]
<1>2. ws = [u \in DOMAIN es |-> [status |-> es[u].status, text |-> es[u].text,
                                 a |-> SideW(es[u].a), b |-> SideW(es[u].b)]]
    BY <1>1 DEF EntriesWith
<1>3. xs = [u \in DOMAIN ws |-> [status |-> ws[u].status, text |-> ws[u].text,
                                 a |-> SideX(ws[u].a), b |-> SideX(ws[u].b)]]
    BY <1>1 DEF EntriesWith
<1>4. /\ EntriesWith(provenanceOut, es) =
            [u \in DOMAIN es |-> [status |-> es[u].status, text |-> es[u].text,
                                  a |-> SideO(es[u].a), b |-> SideO(es[u].b)]]
      /\ EntriesWith(provenanceOut, xs) =
            [u \in DOMAIN xs |-> [status |-> xs[u].status, text |-> xs[u].text,
                                  a |-> SideO(xs[u].a), b |-> SideO(xs[u].b)]]
      /\ EntriesWith(ToSeconds, ws) =
            [u \in DOMAIN ws |-> [status |-> ws[u].status, text |-> ws[u].text,
                                  a |-> SideS(ws[u].a), b |-> SideS(ws[u].b)]]
    BY DEF EntriesWith
<1>5. ASSUME NEW s, s.snapshot # None => s.provenance.ObservedAt \in Instant
      PROVE  SideO(SideX(SideW(s))) = SideO(s) /\ SideS(SideW(s)) = SideO(s)
    <2>1. CASE s.snapshot = None
        BY <2>1
    <2>2. CASE s.snapshot # None
        <3>1. PICK p : p = s.provenance
            OBVIOUS
        <3>2. /\ provenanceOut(ProvenanceFromWire(ProvenanceToWire(p))) = provenanceOut(p)
              /\ ToSeconds(ProvenanceToWire(p)) = provenanceOut(p)
            BY <1>5, <2>2, <3>1, ProvenanceIsShown
        <3> QED
            BY <2>2, <3>1, <3>2
    <2> QED
        BY <2>1, <2>2
<1> HIDE DEF SideW, SideX, SideO, SideS
<1>6. DOMAIN ws = DOMAIN es /\ DOMAIN xs = DOMAIN es
    BY <1>2, <1>3
<1>7. ASSUME NEW u \in DOMAIN es
      PROVE  /\ ws[u].status = es[u].status /\ ws[u].text = es[u].text
             /\ xs[u].status = es[u].status /\ xs[u].text = es[u].text
             /\ SideO(xs[u].a) = SideO(es[u].a) /\ SideO(xs[u].b) = SideO(es[u].b)
             /\ SideS(ws[u].a) = SideO(es[u].a) /\ SideS(ws[u].b) = SideO(es[u].b)
    <2>1. PICK a, b : a = es[u].a /\ b = es[u].b
        OBVIOUS
    <2>2. /\ ws[u].status = es[u].status /\ ws[u].text = es[u].text
          /\ ws[u].a = SideW(a) /\ ws[u].b = SideW(b)
        BY <1>2, <1>7, <2>1
    <2>3. /\ xs[u].status = es[u].status /\ xs[u].text = es[u].text
          /\ xs[u].a = SideX(SideW(a)) /\ xs[u].b = SideX(SideW(b))
        BY <1>3, <1>6, <1>7, <2>2
    <2>4. /\ a.snapshot # None => a.provenance.ObservedAt \in Instant
          /\ b.snapshot # None => b.provenance.ObservedAt \in Instant
        BY <1>7, <2>1 DEF SidesTyped
    <2> QED
        BY <1>5, <2>1, <2>2, <2>3, <2>4
<1>8. EntriesWith(provenanceOut, xs) = EntriesWith(provenanceOut, es)
    BY <1>4, <1>6, <1>7
<1>9. EntriesWith(ToSeconds, ws) = EntriesWith(provenanceOut, es)
    BY <1>4, <1>6, <1>7
<1> QED
    BY <1>1, <1>6, <1>7, <1>8, <1>9

LEMMA DiffIsShown ==
    ASSUME NEW d, SidesTyped(d.Entries)
    PROVE  /\ diffOut(DiffResponseToResult(DiffResultToWire(d))) = diffOut(d)
           /\ InSeconds("Diff", PluginDiffOut(DiffResultToWire(d))) = diffOut(d)
<1> DEFINE Statuses == {"changed", "added", "removed", "unchanged"}
           Counted(es) == [status \in Statuses |->
                              Cardinality({u \in DOMAIN es : es[u].status = status})]
<1>1. PICK w, a, b, es : /\ w = DiffResultToWire(d)
                         /\ a = d.ManifestA /\ b = d.ManifestB /\ es = d.Entries
    OBVIOUS
<1>2. PICK ws, xs : /\ ws = EntriesWith(ProvenanceToWire, es)
                    /\ xs = EntriesWith(ProvenanceFromWire, ws)
    OBVIOUS
<1>3. /\ w.manifest_a = ManifestToWire(a) /\ w.manifest_b = ManifestToWire(b)
      /\ w.entries = ws
    BY <1>1, <1>2 DEF DiffResultToWire
<1>4. PICK x : x = DiffResponseToResult(w)
    OBVIOUS
<1>5. /\ x.ManifestA = ManifestFromWire(ManifestToWire(a))
      /\ x.ManifestB = ManifestFromWire(ManifestToWire(b)) /\ x.Entries = xs
    BY <1>2, <1>3, <1>4 DEF DiffResponseToResult
<1>6. /\ x.ManifestA.ManifestID = a.ManifestID /\ x.ManifestB.ManifestID = b.ManifestID
      /\ w.manifest_a.manifest_id = a.ManifestID /\ w.manifest_b.manifest_id = b.ManifestID
    BY <1>3, <1>5, ManifestIsNamed
<1>7. /\ EntriesWith(provenanceOut, xs) = EntriesWith(provenanceOut, es)
      /\ EntriesWith(ToSeconds, ws) = EntriesWith(provenanceOut, es)
      /\ DOMAIN ws = DOMAIN es /\ DOMAIN xs = DOMAIN es
      /\ \A u \in DOMAIN es : ws[u].status = es[u].status /\ xs[u].status = es[u].status
    BY <1>1, <1>2, EntriesAreShown
<1>8. Counted(ws) = Counted(es) /\ Counted(xs) = Counted(es)
    <2>1. ASSUME NEW status
          PROVE  /\ {u \in DOMAIN ws : ws[u].status = status}
                       = {u \in DOMAIN es : es[u].status = status}
                 /\ {u \in DOMAIN xs : xs[u].status = status}
                       = {u \in DOMAIN es : es[u].status = status}
        BY <1>7
    <2> QED
        BY <2>1
<1>9. PICK shown : shown = EntriesWith(provenanceOut, es)
    OBVIOUS
<1>10. diffOut(d) = [manifest_a |-> a.ManifestID, manifest_b |-> b.ManifestID,
                     counts |-> Counted(es), entries |-> shown]
    BY <1>1, <1>9 DEF diffOut, Count
<1>11. diffOut(x) = [manifest_a |-> a.ManifestID, manifest_b |-> b.ManifestID,
                     counts |-> Counted(xs), entries |-> shown]
    BY <1>5, <1>6, <1>7, <1>9 DEF diffOut, Count
<1>12. PluginDiffOut(w) = [manifest_a |-> a.ManifestID, manifest_b |-> b.ManifestID,
                           counts |-> Counted(ws), entries |-> ws]
    BY <1>3, <1>6 DEF PluginDiffOut
<1>13. PICK counts : counts = Counted(es)
    OBVIOUS
<1> HIDE DEF Counted
<1>14. PluginDiffOut(w) = [manifest_a |-> a.ManifestID, manifest_b |-> b.ManifestID,
                           counts |-> counts, entries |-> ws]
    BY <1>8, <1>12, <1>13
<1>15. \A p : InSeconds("Diff", p) = [p EXCEPT !.entries = EntriesWith(ToSeconds, @)]
    BY DEF InSeconds
<1>16. InSeconds("Diff", PluginDiffOut(w)) =
          [PluginDiffOut(w) EXCEPT !.entries = EntriesWith(ToSeconds, ws)]
    BY <1>14, <1>15
<1>17. InSeconds("Diff", PluginDiffOut(w)) = diffOut(d)
    BY <1>7, <1>9, <1>10, <1>13, <1>14, <1>16
<1> QED
    BY <1>1, <1>4, <1>8, <1>10, <1>11, <1>17

\* An entry of a replay is a record, and what it read is a text.
AreTexts(es) ==
    \A i \in DOMAIN es :
        /\ es[i] = [f \in DOMAIN es[i] |-> es[i][f]]
        /\ es[i].content \notin Binary

LEMMA ReplayIsShown ==
    ASSUME NEW r, NEW include
    PROVE  /\ replayOut(ReplayResponseToResult(ReplayResultToWire(r)), include)
                 = replayOut(r, include)
           /\ AreTexts(r.Entries) =>
                 PluginReplayOut(decodeReplayResult(ReplayResultToWire(r)), include)
                    = replayOut(r, include)
<1>1. PICK w, a, es : w = ReplayResultToWire(r) /\ a = r.Manifest /\ es = r.Entries
    OBVIOUS
<1>2. w = [manifest |-> ManifestToWire(a), entries |-> es]
    BY <1>1 DEF ReplayResultToWire
<1>3. PICK x : x = ReplayResponseToResult(w)
    OBVIOUS
<1>4. x.Manifest = ManifestFromWire(ManifestToWire(a)) /\ x.Entries = es
    BY <1>2, <1>3 DEF ReplayResponseToResult
<1>5. /\ x.Manifest.ManifestID = a.ManifestID /\ x.Manifest.RunID = a.RunID
      /\ w.manifest.manifest_id = a.ManifestID /\ w.manifest.run_id = a.RunID
    BY <1>2, <1>4, ManifestIsNamed
<1>6. replayOut(x, include) = replayOut(r, include)
    BY <1>1, <1>4, <1>5 DEF replayOut
<1>7. ASSUME AreTexts(es)
      PROVE  PluginReplayOut(decodeReplayResult(w), include) = replayOut(r, include)
    <2>1. PICK y : y = decodeReplayResult(w)
        OBVIOUS
    <2>2. PICK fs : fs = [i \in DOMAIN es |-> [es[i] EXCEPT !.content = Decoded(@)]]
        OBVIOUS
    <2>3. y.manifest = w.manifest /\ y.entries = fs
        <3>1. y = [w EXCEPT !.entries = fs]
            BY <1>2, <2>1, <2>2 DEF decodeReplayResult
        <3> QED
            BY <1>2, <3>1
    <2>4. \A i \in DOMAIN es : fs[i] = es[i]
        <3> SUFFICES ASSUME NEW i \in DOMAIN es PROVE fs[i] = es[i]
            OBVIOUS
        <3>1. PICK e, c : e = es[i] /\ c = e.content
            OBVIOUS
        <3>2. e = [f \in DOMAIN e |-> e[f]] /\ c \notin Binary
            BY <1>7, <3>1 DEF AreTexts
        <3>3. fs[i] = [e EXCEPT !.content = c]
            BY <2>2, <3>1, <3>2 DEF Decoded
        <3> QED
            BY <3>1, <3>2, <3>3
    <2>5. DOMAIN fs = DOMAIN es
        BY <2>2
    <2>6. y.manifest.manifest_id = a.ManifestID /\ y.manifest.run_id = a.RunID
        BY <1>5, <2>3
    <2>7. AllMatch(es) <=> \A i \in DOMAIN fs : fs[i].match
        BY <2>4, <2>5 DEF AllMatch
    <2>8. [i \in DOMAIN fs |-> IF include THEN fs[i] ELSE [fs[i] EXCEPT !.content = None]]
             = [i \in DOMAIN es |-> IF include THEN es[i] ELSE [es[i] EXCEPT !.content = None]]
        BY <2>4, <2>5
    <2> QED
        BY <1>1, <2>1, <2>3, <2>6, <2>7, <2>8 DEF replayOut, PluginReplayOut, AllMatch
<1> QED
    BY <1>1, <1>3, <1>6, <1>7

\* What the store returns of a resource, what the resolver decides, and times.
SnapshotTyped(s) == s.ObservedAt \in Instant /\ s.CreatedAt \in Instant

ResultTyped(r) == r.Decision \in Decisions /\ SnapshotTyped(r.Snapshot)

ValueTyped(m, v) ==
    /\ m = "ListResources" => \A i \in DOMAIN v : Stored(v[i].Policy)
    /\ m = "GetResource" => Stored(v.Policy)
    /\ m = "History" => \A i \in DOMAIN v : SnapshotTyped(v[i])
    /\ m = "GetSnapshot" => SnapshotTyped(v)
    /\ m = "SetTag" => v.UpdatedAt \in Instant
    /\ m = "ListTags" => \A i \in DOMAIN v : v[i].UpdatedAt \in Instant
    /\ m = "Resolve" => ResultTyped(v)
    /\ m = "RunMount" => ResultTyped(v.Result)
    /\ m \in {"RunCommit", "GetManifest"} => v.CreatedAt \in Instant
    /\ m = "Diff" => SidesTyped(v.Entries)

\* What the wire has carried is shown as what was put on it.
LEMMA ValuesAreShown ==
    ASSUME NEW m \in Methods, NEW v, ValueTyped(m, v)
    PROVE  Shown(m, FromWire(m, ToWire(m, v))) = Shown(m, v)
<1>1. CASE m = "ListResources"
    <2>1. PICK w : w = [i \in DOMAIN v |-> ResourceToWireRedacted(v[i])]
        OBVIOUS
    <2>2. PICK x : x = [i \in DOMAIN w |-> ResourceFromWire(w[i])]
        OBVIOUS
    <2>3. FromWire(m, ToWire(m, v)) = x
        BY <1>1, <2>1, <2>2 DEF FromWire, ToWire, Each
    <2>4. DOMAIN x = DOMAIN v
          /\ \A i \in DOMAIN v : resourceInfo(x[i]) = resourceInfo(v[i])
        <3>1. DOMAIN x = DOMAIN v
            BY <2>1, <2>2
        <3>2. ASSUME NEW i \in DOMAIN v PROVE resourceInfo(x[i]) = resourceInfo(v[i])
            <4>1. x[i] = ResourceFromWire(ResourceToWireRedacted(v[i]))
                BY <2>1, <2>2, <3>2
            <4>2. Stored(v[i].Policy)
                BY <1>1, <3>2 DEF ValueTyped
            <4> QED
                BY <4>1, <4>2, ResourceIsShown
        <3> QED
            BY <3>1, <3>2
    <2>5. Shown(m, x) = [i \in DOMAIN x |-> resourceInfo(x[i])]
        BY <1>1 DEF Shown, Each
    <2>6. Shown(m, v) = [i \in DOMAIN v |-> resourceInfo(v[i])]
        BY <1>1 DEF Shown, Each
    <2> QED
        BY <2>3, <2>4, <2>5, <2>6
<1>2. CASE m = "GetResource"
    <2>1. FromWire(m, ToWire(m, v)) = ResourceFromWire(ResourceToWireRedacted(v))
        BY <1>2 DEF FromWire, ToWire
    <2>2. \A x : Shown(m, x) = resourceInfo(x)
        BY <1>2 DEF Shown
    <2>3. Stored(v.Policy)
        BY <1>2 DEF ValueTyped
    <2> QED
        BY <2>1, <2>2, <2>3, ResourceIsShown
<1>3. CASE m = "History"
    <2>1. PICK w : w = [i \in DOMAIN v |-> SnapshotToWire(v[i])]
        OBVIOUS
    <2>2. PICK x : x = [i \in DOMAIN w |-> SnapshotFromWire(w[i])]
        OBVIOUS
    <2>3. FromWire(m, ToWire(m, v)) = x
        BY <1>3, <2>1, <2>2 DEF FromWire, ToWire, Each
    <2>4. DOMAIN x = DOMAIN v
          /\ \A i \in DOMAIN v : snapshotInfo(x[i], <<>>) = snapshotInfo(v[i], <<>>)
        BY <1>3, <2>1, <2>2, SnapshotIsShown DEF ValueTyped, SnapshotTyped
    <2>5. Shown(m, x) = [i \in DOMAIN x |-> snapshotInfo(x[i], <<>>)]
        BY <1>3 DEF Shown
    <2>6. Shown(m, v) = [i \in DOMAIN v |-> snapshotInfo(v[i], <<>>)]
        BY <1>3 DEF Shown
    <2> QED
        BY <2>3, <2>4, <2>5, <2>6
<1>4. CASE m = "GetSnapshot"
    <2>1. FromWire(m, ToWire(m, v)) = SnapshotFromWire(SnapshotToWire(v))
        BY <1>4 DEF FromWire, ToWire
    <2>2. \A x : Shown(m, x) = snapshotInfo(x, <<>>)
        BY <1>4 DEF Shown
    <2> QED
        BY <1>4, <2>1, <2>2, SnapshotIsShown DEF ValueTyped, SnapshotTyped
<1>5. CASE m = "SetTag"
    <2>1. FromWire(m, ToWire(m, v)) = TagFromWire(TagToWire(v))
        BY <1>5 DEF FromWire, ToWire
    <2>2. \A x : Shown(m, x) = tagInfo(x)
        BY <1>5 DEF Shown
    <2> QED
        BY <1>5, <2>1, <2>2, TagIsShown DEF ValueTyped
<1>6. CASE m = "ListTags"
    <2>1. PICK w : w = [i \in DOMAIN v |-> TagToWire(v[i])]
        OBVIOUS
    <2>2. PICK x : x = [i \in DOMAIN w |-> TagFromWire(w[i])]
        OBVIOUS
    <2>3. FromWire(m, ToWire(m, v)) = x
        BY <1>6, <2>1, <2>2 DEF FromWire, ToWire, Each
    <2>4. DOMAIN x = DOMAIN v /\ \A i \in DOMAIN v : tagInfo(x[i]) = tagInfo(v[i])
        BY <1>6, <2>1, <2>2, TagIsShown DEF ValueTyped
    <2>5. Shown(m, x) = [i \in DOMAIN x |-> tagInfo(x[i])]
        BY <1>6 DEF Shown, Each
    <2>6. Shown(m, v) = [i \in DOMAIN v |-> tagInfo(v[i])]
        BY <1>6 DEF Shown, Each
    <2> QED
        BY <2>3, <2>4, <2>5, <2>6
<1>7. CASE m = "Resolve"
    <2>1. FromWire(m, ToWire(m, v)) = ResolveResponseToResult(ResolveResultToWire(v))
        BY <1>7 DEF FromWire, ToWire
    <2>2. \A x : Shown(m, x) = resolveOut(x)
        BY <1>7 DEF Shown
    <2>3. ResultTyped(v)
        BY <1>7 DEF ValueTyped
    <2> QED
        BY <2>1, <2>2, <2>3, ResolveIsShown DEF ResultTyped, SnapshotTyped
<1>8. CASE m = "RunMount"
    <2>1. PICK r : r = v.Result
        OBVIOUS
    <2>2. PICK x : x = ResolveResponseToResult(ResolveResultToWire(r))
        OBVIOUS
    <2>3. FromWire(m, ToWire(m, v)) = [Position |-> v.Position, Result |-> x]
        BY <1>8, <2>1, <2>2 DEF FromWire, ToWire
    <2>4. \A y : Shown(m, y) = [position |-> y.Position, resolved |-> resolveOut(y.Result)]
        BY <1>8 DEF Shown
    <2>5. resolveOut(x) = resolveOut(r)
        BY <1>8, <2>1, <2>2, ResolveIsShown DEF ValueTyped, ResultTyped, SnapshotTyped
    <2> QED
        BY <2>1, <2>3, <2>4, <2>5
<1>9. CASE m \in {"RunCommit", "GetManifest"}
    <2>1. FromWire(m, ToWire(m, v)) = ManifestFromWire(ManifestToWire(v))
        BY <1>9 DEF FromWire, ToWire
    <2>2. \A x : Shown(m, x) = manifestOut(x)
        BY <1>9 DEF Shown
    <2> QED
        BY <1>9, <2>1, <2>2, ManifestIsShown DEF ValueTyped
<1>10. CASE m = "Diff"
    <2>1. FromWire(m, ToWire(m, v)) = DiffResponseToResult(DiffResultToWire(v))
        BY <1>10 DEF FromWire, ToWire
    <2>2. \A x : Shown(m, x) = diffOut(x)
        BY <1>10 DEF Shown
    <2> QED
        BY <1>10, <2>1, <2>2, DiffIsShown DEF ValueTyped
<1>11. CASE m = "Replay"
    <2>1. FromWire(m, ToWire(m, v)) = ReplayResponseToResult(ReplayResultToWire(v))
        BY <1>11 DEF FromWire, ToWire
    <2>2. \A x : Shown(m, x) = <<replayOut(x, FALSE), replayOut(x, TRUE)>>
        BY <1>11 DEF Shown
    <2> QED
        BY <2>1, <2>2, ReplayIsShown
<1>12. CASE m \in {"RegisterResource", "DeleteTag", "RunStart"}
    BY <1>12 DEF Shown
<1> QED
    BY <1>1, <1>2, <1>3, <1>4, <1>5, <1>6, <1>7, <1>8, <1>9, <1>10, <1>11, <1>12 DEF Methods

\* What the domain does with a call of an operation: one of its calls fails with
\* an error of that call, or it has a value.
OutcomeTyped(m, outcome) ==
    IF Failing(m, outcome) THEN outcome.error \in CallErrors(outcome.failed)
    ELSE ValueTyped(m, outcome.value)

LEMMA LocalIs ==
    ASSUME NEW m, NEW outcome
    PROVE  /\ outcome.failed \in ToSet(LocalCalls(m)) =>
                 Local(m, outcome) = [ok |-> FALSE, error |-> outcome.error]
           /\ outcome.failed \notin ToSet(LocalCalls(m)) =>
                 Local(m, outcome) = [ok |-> TRUE, value |-> outcome.value]
BY DEF Local

\* A failure of an operation ends it alike for both clients.
LEMMA FailuresAgree ==
    ASSUME NEW m \in Methods, NEW outcome, Failing(m, outcome), OutcomeTyped(m, outcome)
    PROVE  LET local  == Local(m, outcome)
               remote == Remote(m, outcome)
           IN  /\ ~remote.ok
               /\ outcome.failed \notin OfTheServer(m) => ~local.ok
               /\ m = "Resolve" /\ outcome.error # NotFoundText =>
                     readResource(local) = readResource(remote)
               /\ m = "GetResource" /\ ~local.ok =>
                     (isNotFound(local.error) <=> isNotFound(remote.error))
<1>1. PICK i \in DOMAIN HandlerOf(m) :
         /\ HandlerOf(m)[i].call = outcome.failed
         /\ Remote(m, outcome) =
               [ok |-> FALSE,
                error |-> writeError(HttpStatus(HandlerOf(m)[i].as, outcome.error),
                                     outcome.error).error]
    BY AnswersAre
<1>2. PICK c, err, l, r : /\ c = outcome.failed /\ err = outcome.error
                          /\ l = Local(m, outcome) /\ r = Remote(m, outcome)
    OBVIOUS
<1>3. PICK kind, status : /\ kind = HandlerOf(m)[i].as
                          /\ status = HttpStatus(kind, err)
    OBVIOUS
<1>4. r = [ok |-> FALSE, error |-> writeError(status, err).error]
    BY <1>1, <1>2, <1>3
<1>5. c \notin OfTheServer(m) => c \in ToSet(LocalCalls(m))
    BY <1>1, <1>2, EveryOperationMatches DEF CallsMatch
<1>6. c \in ToSet(LocalCalls(m)) => l = [ok |-> FALSE, error |-> err]
    BY <1>2, LocalIs
<1>7. c \notin ToSet(LocalCalls(m)) => l.ok
    BY <1>2, LocalIs
<1>8. kind = "domain" => status = writeDomainError(err)
    BY <1>3 DEF HttpStatus
<1>9. ASSUME kind = "domain", err # NotFoundText
      PROVE  isNotFound(err) <=> isNotFound(r.error)
    <2>1. r.error = writeError(status, err).error
        BY <1>4
    <2>2. status = writeDomainError(err)
        BY <1>8, <1>9
    <2> QED
        BY <1>9, <2>1, <2>2, NotFoundAlike
<1>10. ASSUME m = "Resolve", err # NotFoundText
       PROVE  readResource(l) = readResource(r)
    <2>1. HandlerOf(m) = <<Domain("Resolver.Resolve")>>
        BY <1>10 DEF HandlerOf, handleResolve
    <2>2. c = "Resolver.Resolve" /\ kind = "domain"
        BY <1>1, <1>2, <1>3, <2>1 DEF Domain
    <2>3. c \notin OfTheServer(m)
        BY <1>10, <2>2 DEF OfTheServer
    <2>4. l = [ok |-> FALSE, error |-> err]
        BY <1>5, <1>6, <2>3
    <2>5. isNotFound(err) <=> isNotFound(r.error)
        BY <1>9, <1>10, <2>2
    <2>6. readResource(l) = [notFound |-> isNotFound(err)]
        BY <2>4 DEF readResource
    <2>7. readResource(r) = [notFound |-> isNotFound(r.error)]
        BY <1>4 DEF readResource
    <2>8. isNotFound(err) = isNotFound(r.error)
        BY <2>5 DEF isNotFound
    <2> QED
        BY <2>6, <2>7, <2>8
<1>11. ASSUME m = "GetResource", ~l.ok
       PROVE  isNotFound(l.error) <=> isNotFound(r.error)
    <2>1. HandlerOf(m) = <<Bad("argument"), Domain("Resources.Get")>>
        BY <1>11 DEF HandlerOf, handleGetResource
    <2>2. LocalCalls(m) = <<"Resources.Get">>
        BY <1>11 DEF LocalCalls
    <2>3. c \in ToSet(LocalCalls(m))
        BY <1>7, <1>11
    <2>4. c = "Resources.Get"
        BY <2>2, <2>3 DEF ToSet
    <2>5. kind = "domain"
        BY <1>1, <1>2, <1>3, <2>1, <2>4 DEF Bad, Domain
    <2>6. err \in CallErrors(c)
        BY <1>2 DEF OutcomeTyped
    <2>7. err # NotFoundText
        BY <2>4, <2>6, Zenon DEF CallErrors, NotFoundText
    <2>8. l = [ok |-> FALSE, error |-> err]
        BY <1>6, <2>3
    <2>9. isNotFound(err) <=> isNotFound(r.error)
        BY <1>9, <2>5, <2>7
    <2> QED
        BY <2>8, <2>9
<1>12. ~r.ok
    BY <1>4
<1>13. c \notin OfTheServer(m) => ~l.ok
    BY <1>5, <1>6
<1> QED
    BY <1>2, <1>10, <1>11, <1>12, <1>13

\* Whatever the domain does with a call, the local and the remote client make
\* the same calls of it, end alike and are shown alike (internal/client/local,
\* internal/client/remote, internal/api, internal/wire).
THEOREM ClientsAgreeOnOutcomes ==
    ASSUME NEW m \in Methods, NEW outcome, OutcomeTyped(m, outcome)
    PROVE  ClientsAgree(m, outcome)
<1>1. PICK l, r : l = Local(m, outcome) /\ r = Remote(m, outcome)
    OBVIOUS
<1>2. Chosen(CalledBy(m), Shared(m)) = LocalCalls(m)
    BY EveryOperationMatches DEF CallsMatch
<1>3. /\ outcome.failed \notin OfTheServer(m) => (l.ok <=> r.ok)
      /\ l.ok /\ r.ok => Shown(m, l.value) = Shown(m, r.value)
      /\ m = "Resolve" /\ outcome.error # NotFoundText => readResource(l) = readResource(r)
      /\ m = "GetResource" /\ ~l.ok => (isNotFound(l.error) <=> isNotFound(r.error))
    <2>1. CASE Failing(m, outcome)
        BY <1>1, <2>1, FailuresAgree
    <2>2. CASE ~Failing(m, outcome)
        <3>1. PICK v, x : v = outcome.value /\ x = FromWire(m, ToWire(m, v))
            OBVIOUS
        <3>2. r = [ok |-> TRUE, value |-> x]
            BY <1>1, <2>2, <3>1, AnswersAre
        <3>3. outcome.failed \notin ToSet(LocalCalls(m))
            <4>1. CallsMatch(m)
                BY EveryOperationMatches
            <4> QED
                BY <2>2, <4>1 DEF CallsMatch, Failing
        <3>4. l = [ok |-> TRUE, value |-> v]
            BY <1>1, <3>1, <3>3, LocalIs
        <3>5. ValueTyped(m, v)
            BY <2>2, <3>1 DEF OutcomeTyped
        <3>6. Shown(m, x) = Shown(m, v)
            BY <3>1, <3>5, ValuesAreShown
        <3>7. ASSUME m = "Resolve" PROVE readResource(l) = readResource(r)
            <4>1. x = ResolveResponseToResult(ResolveResultToWire(v))
                BY <3>1, <3>7 DEF FromWire, ToWire
            <4>2. ResultTyped(v)
                BY <3>5, <3>7 DEF ValueTyped
            <4>3. resolveOut(x) = resolveOut(v) /\ x.Content = v.Content
                BY <4>1, <4>2, ResolveIsShown DEF ResultTyped, SnapshotTyped
            <4>4. readMeta(x) = readMeta(v)
                BY <4>3 DEF readMeta
            <4>5. readResource(l) = [contents |-> v.Content, meta |-> readMeta(v)]
                BY <3>4 DEF readResource
            <4>6. readResource(r) = [contents |-> x.Content, meta |-> readMeta(x)]
                BY <3>2 DEF readResource
            <4> QED
                BY <4>3, <4>4, <4>5, <4>6
        <3>8. l.ok /\ r.ok /\ l.value = v /\ r.value = x
            BY <3>2, <3>4
        <3> QED
            BY <3>6, <3>7, <3>8
    <2> QED
        BY <2>1, <2>2
<1> QED
    BY <1>1, <1>2, <1>3 DEF ClientsAgree, CalledBy, Shared, Each

\* What the plugin shows of an operation is a text, which the SDK decodes as it is.
ShownAsText(m, v) ==
    /\ m = "Resolve" => v.Content \notin Binary
    /\ m = "RunMount" => v.Result.Content \notin Binary
    /\ m = "Replay" => AreTexts(v.Entries)

LEMMA PluginShowsTheSame ==
    ASSUME NEW m \in Methods, NEW v, ValueTyped(m, v), ShownAsText(m, v),
           PluginShown(m, SdkValue(m, ToWire(m, v))) # None
    PROVE  InSeconds(m, PluginShown(m, SdkValue(m, ToWire(m, v)))) = Shown(m, v)
<1>1. CASE m = "ListResources"
    <2>1. PICK w : w = [i \in DOMAIN v |-> ResourceToWireRedacted(v[i])]
        OBVIOUS
    <2>2. SdkValue(m, ToWire(m, v)) = w
        BY <1>1, <2>1 DEF SdkValue, ToWire, Each
    <2>3. PluginShown(m, w) = [i \in DOMAIN w |-> PluginResourceInfo(w[i])]
        BY <1>1 DEF PluginShown, Each
    <2>4. Shown(m, v) = [i \in DOMAIN v |-> resourceInfo(v[i])]
        BY <1>1 DEF Shown, Each
    <2>5. ASSUME NEW i \in DOMAIN v PROVE PluginResourceInfo(w[i]) = resourceInfo(v[i])
        <3>1. w[i] = ResourceToWireRedacted(v[i])
            BY <2>1, <2>5
        <3>2. Stored(v[i].Policy)
            BY <1>1, <2>5 DEF ValueTyped
        <3> QED
            BY <3>1, <3>2, ResourceIsShown
    <2>6. DOMAIN w = DOMAIN v
        BY <2>1
    <2>7. \A y : InSeconds(m, y) = y
        BY <1>1 DEF InSeconds
    <2> QED
        BY <2>2, <2>3, <2>4, <2>5, <2>6, <2>7
<1>2. CASE m = "SetTag"
    <2>1. SdkValue(m, ToWire(m, v)) = TagToWire(v)
        BY <1>2 DEF SdkValue, ToWire
    <2>2. \A w : PluginShown(m, w) = PluginTagInfo(w)
        BY <1>2 DEF PluginShown
    <2>3. Shown(m, v) = tagInfo(v)
        BY <1>2 DEF Shown
    <2>4. \A y : InSeconds(m, y) = ToSeconds(y)
        BY <1>2 DEF InSeconds
    <2> QED
        BY <1>2, <2>1, <2>2, <2>3, <2>4, TagIsShown DEF ValueTyped
<1>3. CASE m = "ListTags"
    <2>1. PICK w : w = [i \in DOMAIN v |-> TagToWire(v[i])]
        OBVIOUS
    <2>2. SdkValue(m, ToWire(m, v)) = w
        BY <1>3, <2>1 DEF SdkValue, ToWire, Each
    <2>3. PluginShown(m, w) = [i \in DOMAIN w |-> PluginTagInfo(w[i])]
        BY <1>3 DEF PluginShown, Each
    <2>4. Shown(m, v) = [i \in DOMAIN v |-> tagInfo(v[i])]
        BY <1>3 DEF Shown, Each
    <2>5. DOMAIN w = DOMAIN v
          /\ \A i \in DOMAIN v : ToSeconds(PluginTagInfo(w[i])) = tagInfo(v[i])
        BY <1>3, <2>1, TagIsShown DEF ValueTyped
    <2>6. \A y : InSeconds(m, y) = [i \in DOMAIN y |-> ToSeconds(y[i])]
        BY <1>3 DEF InSeconds, Each
    <2>7. PICK y : y = PluginShown(m, w)
        OBVIOUS
    <2>8. DOMAIN y = DOMAIN v /\ \A i \in DOMAIN v : ToSeconds(y[i]) = tagInfo(v[i])
        BY <2>3, <2>5, <2>7
    <2> QED
        BY <2>2, <2>4, <2>6, <2>7, <2>8
<1>4. CASE m = "Resolve"
    <2>1. SdkValue(m, ToWire(m, v)) = decodeResolveResponse(ResolveResultToWire(v))
        BY <1>4 DEF SdkValue, ToWire
    <2>2. \A w : PluginShown(m, w) = PluginResolveOut(w)
        BY <1>4 DEF PluginShown
    <2>3. Shown(m, v) = resolveOut(v)
        BY <1>4 DEF Shown
    <2>4. ResultTyped(v) /\ v.Content \notin Binary
        BY <1>4 DEF ValueTyped, ShownAsText
    <2>5. \A y : InSeconds(m, y) = ToSeconds(y)
        BY <1>4 DEF InSeconds
    <2> QED
        BY <2>1, <2>2, <2>3, <2>4, <2>5, ResolveIsShown DEF ResultTyped, SnapshotTyped
<1>5. CASE m = "RunMount"
    <2>1. PICK r : r = v.Result
        OBVIOUS
    <2>2. PICK w, x : w = ResolveResultToWire(r) /\ x = decodeResolveResponse(w)
        OBVIOUS
    <2>3. ToWire(m, v) = [position |-> v.Position, resolve |-> w]
        BY <1>5, <2>1, <2>2 DEF ToWire
    <2>4. SdkValue(m, ToWire(m, v)) = [position |-> v.Position, resolve |-> x]
        BY <1>5, <2>2, <2>3 DEF SdkValue
    <2>5. \A y : PluginShown(m, y) = [position |-> y.position,
                                      resolved |-> PluginResolveOut(y.resolve)]
        BY <1>5 DEF PluginShown
    <2>6. Shown(m, v) = [position |-> v.Position, resolved |-> resolveOut(r)]
        BY <1>5, <2>1 DEF Shown
    <2>7. ToSeconds(PluginResolveOut(x)) = resolveOut(r)
        BY <1>5, <2>1, <2>2, ResolveIsShown
           DEF ValueTyped, ShownAsText, ResultTyped, SnapshotTyped
    <2>8. PICK out : out = PluginResolveOut(x)
        OBVIOUS
    <2>9. PICK y : y = [position |-> v.Position, resolved |-> out]
        OBVIOUS
    <2>10. PluginShown(m, SdkValue(m, ToWire(m, v))) = y
        BY <2>4, <2>5, <2>8, <2>9
    <2>11. InSeconds(m, y) = [y EXCEPT !.resolved = ToSeconds(out)]
        <3>1. \A z : InSeconds(m, z) = [z EXCEPT !.resolved = ToSeconds(@)]
            BY <1>5 DEF InSeconds
        <3> QED
            BY <2>9, <3>1
    <2> QED
        BY <2>6, <2>7, <2>8, <2>9, <2>10, <2>11
<1>6. CASE m \in {"RunCommit", "GetManifest"}
    <2>1. SdkValue(m, ToWire(m, v)) = ManifestToWire(v)
        BY <1>6 DEF SdkValue, ToWire
    <2>2. \A w : PluginShown(m, w) = PluginManifestOut(w)
        BY <1>6 DEF PluginShown
    <2>3. Shown(m, v) = manifestOut(v)
        BY <1>6 DEF Shown
    <2>4. \A y : InSeconds(m, y) = ToSeconds(y)
        BY <1>6 DEF InSeconds
    <2> QED
        BY <1>6, <2>1, <2>2, <2>3, <2>4, ManifestIsShown DEF ValueTyped
<1>7. CASE m = "Diff"
    <2>1. SdkValue(m, ToWire(m, v)) = DiffResultToWire(v)
        BY <1>7 DEF SdkValue, ToWire
    <2>2. \A w : PluginShown(m, w) = PluginDiffOut(w)
        BY <1>7 DEF PluginShown
    <2>3. Shown(m, v) = diffOut(v)
        BY <1>7 DEF Shown
    <2> QED
        BY <1>7, <2>1, <2>2, <2>3, DiffIsShown DEF ValueTyped
<1>8. CASE m = "Replay"
    <2>1. SdkValue(m, ToWire(m, v)) = decodeReplayResult(ReplayResultToWire(v))
        BY <1>8 DEF SdkValue, ToWire
    <2>2. \A w : PluginShown(m, w) = <<PluginReplayOut(w, FALSE), PluginReplayOut(w, TRUE)>>
        BY <1>8 DEF PluginShown
    <2>3. Shown(m, v) = <<replayOut(v, FALSE), replayOut(v, TRUE)>>
        BY <1>8 DEF Shown
    <2>4. AreTexts(v.Entries)
        BY <1>8 DEF ShownAsText
    <2>5. \A y : InSeconds(m, y) = y
        BY <1>8 DEF InSeconds
    <2> QED
        BY <2>1, <2>2, <2>3, <2>4, <2>5, ReplayIsShown
<1>9. CASE m \in {"RegisterResource", "GetResource", "History", "GetSnapshot",
                  "DeleteTag", "RunStart"}
    BY <1>9 DEF PluginShown
<1> QED
    BY <1>1, <1>2, <1>3, <1>4, <1>5, <1>6, <1>7, <1>8, <1>9 DEF Methods

LEMMA HistoriesAreShown ==
    ASSUME NEW v, ValueTyped("History", v), NEW tags
    PROVE  InSeconds("History", PluginHistory(ToWire("History", v), Each(TagToWire, tags)))
              = toolHistory(FromWire("History", ToWire("History", v)), tags)
<1>1. PICK w : w = [i \in DOMAIN v |-> SnapshotToWire(v[i])]
    OBVIOUS
<1>2. PICK x : x = [i \in DOMAIN w |-> SnapshotFromWire(w[i])]
    OBVIOUS
<1>3. ToWire("History", v) = w /\ FromWire("History", w) = x
    BY <1>1, <1>2 DEF ToWire, FromWire, Each
<1>4. PICK ts : ts = [j \in DOMAIN tags |-> TagToWire(tags[j])]
    OBVIOUS
<1>5. Each(TagToWire, tags) = ts
    BY <1>4 DEF Each
<1>6. /\ DOMAIN ts = DOMAIN tags
      /\ \A j \in DOMAIN tags : /\ ts[j].tag = tags[j].Name
                                /\ ts[j].snapshot_id = tags[j].SnapshotID
    BY <1>4 DEF TagToWire
<1>7. PICK names : names = [j \in DOMAIN tags |-> tags[j].Name]
    OBVIOUS
<1>8. [j \in DOMAIN ts |-> ts[j].tag] = names
    BY <1>6, <1>7
<1>9. DOMAIN w = DOMAIN v /\ DOMAIN x = DOMAIN v
    BY <1>1, <1>2
<1>10. PICK a : a = [i \in DOMAIN v |->
                        snapshotInfo(v[i],
                            Chosen(names, {j \in DOMAIN tags : tags[j].SnapshotID = v[i].SnapshotID}))]
    OBVIOUS
<1>11. toolHistory(x, tags) = a
    <2>1. ASSUME NEW i \in DOMAIN v
          PROVE  snapshotInfo(x[i], Chosen(names,
                     {j \in DOMAIN tags : tags[j].SnapshotID = x[i].SnapshotID})) = a[i]
        <3>1. PICK s, y : s = v[i] /\ y = x[i]
            OBVIOUS
        <3>2. y = SnapshotFromWire(SnapshotToWire(s))
            BY <1>1, <1>2, <2>1, <3>1
        <3>3. y.SnapshotID = s.SnapshotID
            BY <3>2 DEF SnapshotFromWire, SnapshotToWire
        <3>4. PICK of : of = {j \in DOMAIN tags : tags[j].SnapshotID = s.SnapshotID}
            OBVIOUS
        <3>5. {j \in DOMAIN tags : tags[j].SnapshotID = y.SnapshotID} = of
            BY <3>3, <3>4
        <3>6. a[i] = snapshotInfo(s, Chosen(names, of))
            BY <1>10, <2>1, <3>1, <3>4
        <3>7. snapshotInfo(y, Chosen(names, of)) = snapshotInfo(s, Chosen(names, of))
            BY <2>1, <3>1, <3>2, SnapshotIsShown DEF ValueTyped, SnapshotTyped
        <3> QED
            BY <3>1, <3>5, <3>6, <3>7
    <2>2. toolHistory(x, tags) =
             [i \in DOMAIN x |->
                 snapshotInfo(x[i], Chosen(names,
                     {j \in DOMAIN tags : tags[j].SnapshotID = x[i].SnapshotID}))]
        BY <1>7 DEF toolHistory, Each
    <2> QED
        BY <1>9, <1>10, <2>1, <2>2
<1>12. InSeconds("History", PluginHistory(w, ts)) = a
    <2>1. ASSUME NEW i \in DOMAIN v
          PROVE  ToSeconds(PluginSnapshotInfo(w[i], Chosen(names,
                     {j \in DOMAIN ts : ts[j].snapshot_id = w[i].id}))) = a[i]
        <3>1. PICK s, y : s = v[i] /\ y = w[i]
            OBVIOUS
        <3>2. y = SnapshotToWire(s)
            BY <1>1, <2>1, <3>1
        <3>3. y.id = s.SnapshotID
            BY <3>2 DEF SnapshotToWire
        <3>4. PICK of : of = {j \in DOMAIN tags : tags[j].SnapshotID = s.SnapshotID}
            OBVIOUS
        <3>5. {j \in DOMAIN ts : ts[j].snapshot_id = y.id} = of
            BY <1>6, <3>3, <3>4
        <3>6. a[i] = snapshotInfo(s, Chosen(names, of))
            BY <1>10, <2>1, <3>1, <3>4
        <3>7. ToSeconds(PluginSnapshotInfo(y, Chosen(names, of)))
                 = snapshotInfo(s, Chosen(names, of))
            BY <2>1, <3>1, <3>2, SnapshotIsShown DEF ValueTyped, SnapshotTyped
        <3> QED
            BY <3>1, <3>5, <3>6, <3>7
    <2>2. PluginHistory(w, ts) =
             [i \in DOMAIN w |->
                 PluginSnapshotInfo(w[i], Chosen(names,
                     {j \in DOMAIN ts : ts[j].snapshot_id = w[i].id}))]
        BY <1>8 DEF PluginHistory, Each
    <2>3. \A y : InSeconds("History", y) = [i \in DOMAIN y |-> ToSeconds(y[i])]
        BY DEF InSeconds, Each
    <2>4. PICK y : y = PluginHistory(w, ts)
        OBVIOUS
    <2>5. DOMAIN y = DOMAIN v /\ \A i \in DOMAIN v : ToSeconds(y[i]) = a[i]
        BY <1>9, <2>1, <2>2, <2>4
    <2>6. a = [i \in DOMAIN v |-> a[i]]
        BY <1>10
    <2> QED
        BY <2>3, <2>4, <2>5, <2>6
<1> QED
    BY <1>3, <1>5, <1>11, <1>12

\* Of an operation whose contents are texts, the plugin shows what the MCP server
\* shows, but for the fractions of its times: the server drops them, and cutting
\* them off the texts that the plugin copies leaves exactly what the server formats
\* (dsh-plugin-readproof/src/payloads.ts, internal/mcp/types.go, resources.go).
THEOREM ToolsAgreeOnOutcomes ==
    ASSUME NEW m \in Methods, NEW outcome, OutcomeTyped(m, outcome),
           ~Failing(m, outcome) => ShownAsText(m, outcome.value), NEW tags
    PROVE  ToolsAgree(m, outcome, tags)
<1>1. PICK r, k : r = Remote(m, outcome) /\ k = SdkRequest(m, outcome)
    OBVIOUS
<1>2. CASE Failing(m, outcome)
    <2>1. ~r.ok /\ ~k.ok
        BY <1>1, <1>2, AnswersAre, FailuresAgree
    <2>2. r.ok <=> k.ok
        BY <2>1
    <2> QED
        BY <1>1, <2>1, <2>2 DEF ToolsAgree
<1>3. CASE ~Failing(m, outcome)
    <2>1. PICK v, w, x : v = outcome.value /\ w = ToWire(m, v) /\ x = FromWire(m, w)
        OBVIOUS
    <2>2. r.ok /\ r.value = x
        BY <1>1, <1>3, <2>1, AnswersAre
    <2>3. k.ok /\ k.value = SdkValue(m, w)
        BY <1>1, <1>3, <2>1, AnswersAre
    <2>4. ValueTyped(m, v) /\ ShownAsText(m, v)
        BY <1>3, <2>1 DEF OutcomeTyped
    <2>5. Shown(m, x) = Shown(m, v)
        BY <2>1, <2>4, ValuesAreShown
    <2>6. PluginShown(m, k.value) # None =>
             InSeconds(m, PluginShown(m, k.value)) = Shown(m, r.value)
        BY <2>1, <2>2, <2>3, <2>4, <2>5, PluginShowsTheSame
    <2>7. ASSUME m = "History"
          PROVE  InSeconds(m, PluginHistory(k.value, Each(TagToWire, tags)))
                    = toolHistory(r.value, tags)
        <3>1. k.value = w
            BY <2>3, <2>7 DEF SdkValue
        <3>2. InSeconds("History", PluginHistory(w, Each(TagToWire, tags)))
                 = toolHistory(x, tags)
            BY <2>1, <2>4, <2>7, HistoriesAreShown
        <3> QED
            BY <2>2, <2>7, <3>1, <3>2
    <2>8. r.ok <=> k.ok
        BY <2>2, <2>3
    <2> QED
        BY <1>1, <2>6, <2>7, <2>8 DEF ToolsAgree
<1> QED
    BY <1>2, <1>3

\* The plugin finds the resource and the tag of every reference that the server
\* accepts (dsh-plugin-readproof/src/tools.ts, internal/mcp/mcp.go).
LEMMA ReferencesAgreeOnAll ==
    ASSUME NEW raw
    PROVE  ReferencesAgree(raw)
BY DEF ReferencesAgree, bareURI, bareUri, SplitRef
=============================================================================
