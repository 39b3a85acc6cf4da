-------------------------- MODULE Manifests_proofs --------------------------
(***************************************************************************)
(* Proofs about Manifests: the Merkle root of a manifest of any length     *)
(* binds what the manifest records.                                        *)
(***************************************************************************)
EXTENDS Manifests, Integers, SequenceTheorems, FiniteSetTheorems,
        WellFoundedInduction, TLAPS

\* Every set of natural numbers has a least one.
LEMMA LeastNumber ==
    ASSUME NEW T \in SUBSET Nat, T # {}
    PROVE  \E x \in T : \A y \in T : x <= y
<1> DEFINE R == StrictSubsetOrdering(Nat)
           D == {0 .. (m - 1) : m \in T}
<1>1. IsWellFoundedOn(R, FiniteSubsetsOf(Nat))
    BY FS_StrictSubsetOrderingWellFounded
<1>2. D \subseteq FiniteSubsetsOf(Nat) /\ D # {}
    <2>1. \A m \in T : IsFiniteSet(0 .. (m - 1)) /\ 0 .. (m - 1) \in SUBSET Nat
        BY FS_Interval
    <2> QED
        BY <2>1 DEF FiniteSubsetsOf
<1>3. \E d \in D : \A e \in D : ~(<<e, d>> \in R)
    <2> HIDE DEF R, D
    <2> QED
        BY <1>1, <1>2, WFMin
<1>4. PICK x \in T : \A y \in T : ~(<<0 .. (y - 1), 0 .. (x - 1)>> \in R)
    BY <1>3
<1>5. ASSUME NEW y \in T, y < x PROVE FALSE
    <2>1. 0 .. (y - 1) \in SUBSET Nat /\ 0 .. (x - 1) \in SUBSET Nat
        BY <1>5
    <2>2. 0 .. (y - 1) \subseteq 0 .. (x - 1) /\ y \in 0 .. (x - 1) /\ y \notin 0 .. (y - 1)
        BY <1>5
    <2>3. <<0 .. (y - 1), 0 .. (x - 1)>> \in R
        BY <2>1, <2>2 DEF StrictSubsetOrdering
    <2> QED
        BY <1>4, <2>3
<1> QED
    BY <1>5

-----------------------------------------------------------------------------
(* One level of the tree and the next *)

Nodes(S) == {"node"} \X S \X S

Distinct(s) == \A i, j \in DOMAIN s : s[i] = s[j] => i = j

LEMMA Halves ==
    ASSUME NEW n \in Nat
    PROVE  /\ (n + 1) \div 2 \in Nat
           /\ n = 2 * ((n + 1) \div 2) \/ n = 2 * ((n + 1) \div 2) - 1
OBVIOUS

LEMMA NextLevelIs ==
    ASSUME NEW S, NEW s \in Seq(S)
    PROVE  LET h == (Len(s) + 1) \div 2 IN
           /\ NextLevel(s) \in Seq(Nodes(S)) /\ Len(NextLevel(s)) = h
           /\ \A i \in 1 .. h :
                 /\ 2 * i - 1 \in 1 .. Len(s)
                 /\ 2 * i <= Len(s) => 2 * i \in 1 .. Len(s)
                 /\ NextLevel(s)[i][1] = "node"
                 /\ NextLevel(s)[i][2] = s[2 * i - 1]
                 /\ NextLevel(s)[i][3] = IF 2 * i <= Len(s) THEN s[2 * i] ELSE s[2 * i - 1]
<1> DEFINE n == Len(s)
           h == (n + 1) \div 2
           node(i) == <<"node", s[2 * i - 1], s[IF 2 * i <= n THEN 2 * i ELSE 2 * i - 1]>>
<1>1. n \in Nat /\ \A i \in 1 .. n : s[i] \in S
    OBVIOUS
<1>2. h \in Nat /\ (n = 2 * h \/ n = 2 * h - 1)
    BY <1>1, Halves
<1>3. NextLevel(s) = [i \in 1 .. h |-> node(i)]
    BY DEF NextLevel
<1> HIDE DEF h, n
<1>4. ASSUME NEW i \in 1 .. h
      PROVE  2 * i - 1 \in 1 .. n /\ (2 * i <= n => 2 * i \in 1 .. n)
    BY <1>1, <1>2
<1>5. ASSUME NEW i \in 1 .. h
      PROVE  s[2 * i - 1] \in S /\ s[IF 2 * i <= n THEN 2 * i ELSE 2 * i - 1] \in S
    BY <1>1, <1>4
<1>6. \A i \in 1 .. h : node(i) \in Nodes(S)
    BY <1>5 DEF Nodes
<1>7. /\ NextLevel(s) \in [1 .. h -> Nodes(S)]
      /\ \A i \in 1 .. h : NextLevel(s)[i] = node(i)
    BY <1>3, <1>6
<1>8. NextLevel(s) \in Seq(Nodes(S)) /\ Len(NextLevel(s)) = h
    BY <1>2, <1>7, SeqDef
<1>9. ASSUME NEW i \in 1 .. h
      PROVE  /\ NextLevel(s)[i][1] = "node" /\ NextLevel(s)[i][2] = s[2 * i - 1]
             /\ NextLevel(s)[i][3] = IF 2 * i <= n THEN s[2 * i] ELSE s[2 * i - 1]
    BY <1>7
<1> QED
    BY <1>4, <1>8, <1>9 DEF h, n

LEMMA NextLevelDistinct ==
    ASSUME NEW S, NEW s \in Seq(S), Distinct(s)
    PROVE  Distinct(NextLevel(s))
<1> DEFINE h == (Len(s) + 1) \div 2
<1>1. h \in Nat
    BY Halves
<1>2. Len(NextLevel(s)) = h /\ NextLevel(s) \in Seq(Nodes(S))
    BY NextLevelIs
<1>3. \A i \in 1 .. h : 2 * i - 1 \in 1 .. Len(s) /\ NextLevel(s)[i][2] = s[2 * i - 1]
    BY NextLevelIs
<1> HIDE DEF h
<1>4. DOMAIN NextLevel(s) = 1 .. h
    BY <1>2
<1>5. ASSUME NEW i \in 1 .. h, NEW j \in 1 .. h, NextLevel(s)[i] = NextLevel(s)[j]
      PROVE  i = j
    <2>1. s[2 * i - 1] = s[2 * j - 1] /\ 2 * i - 1 \in DOMAIN s /\ 2 * j - 1 \in DOMAIN s
        <3>1. DOMAIN s = 1 .. Len(s)
            OBVIOUS
        <3>2. /\ 2 * i - 1 \in 1 .. Len(s) /\ NextLevel(s)[i][2] = s[2 * i - 1]
              /\ 2 * j - 1 \in 1 .. Len(s) /\ NextLevel(s)[j][2] = s[2 * j - 1]
            BY <1>3
        <3>3. NextLevel(s)[i][2] = NextLevel(s)[j][2]
            BY <1>5
        <3> QED
            BY <3>1, <3>2, <3>3
    <2>2. 2 * i - 1 = 2 * j - 1
        BY <2>1 DEF Distinct
    <2>3. i \in Nat /\ j \in Nat
        BY <1>1
    <2> HIDE DEF Distinct
    <2> QED
        BY <2>2, <2>3
<1> QED
    BY <1>4, <1>5 DEF Distinct

\* Of distinct nodes, the rule for odd levels makes no two levels the same: a last node
\* paired with itself is not a pair of distinct ones.
LEMMA NextLevelInjective ==
    ASSUME NEW S, NEW s \in Seq(S), Distinct(s), NEW T, NEW t \in Seq(T), Distinct(t),
           NextLevel(s) = NextLevel(t)
    PROVE  s = t
<1> DEFINE m == Len(s)
           n == Len(t)
           h == (m + 1) \div 2
           g == (n + 1) \div 2
<1>1. m \in Nat /\ n \in Nat /\ DOMAIN s = 1 .. m /\ DOMAIN t = 1 .. n
    OBVIOUS
<1>2. /\ h \in Nat /\ (m = 2 * h \/ m = 2 * h - 1)
      /\ g \in Nat /\ (n = 2 * g \/ n = 2 * g - 1)
    BY <1>1, Halves
<1>3. h = g
    BY NextLevelIs
<1>4. \A i \in 1 .. h :
         /\ s[2 * i - 1] = t[2 * i - 1]
         /\ (IF 2 * i <= m THEN s[2 * i] ELSE s[2 * i - 1])
               = IF 2 * i <= n THEN t[2 * i] ELSE t[2 * i - 1]
    <2>1. \A i \in 1 .. h :
             /\ NextLevel(s)[i][2] = s[2 * i - 1]
             /\ NextLevel(s)[i][3] = IF 2 * i <= m THEN s[2 * i] ELSE s[2 * i - 1]
        BY NextLevelIs
    <2>2. \A i \in 1 .. g :
             /\ NextLevel(t)[i][2] = t[2 * i - 1]
             /\ NextLevel(t)[i][3] = IF 2 * i <= n THEN t[2 * i] ELSE t[2 * i - 1]
        BY NextLevelIs
    <2> HIDE DEF h, g, m, n
    <2> QED
        BY <1>3, <2>1, <2>2
<1> HIDE DEF h, g, m, n
<1>5. m = n
    <2>1. ASSUME m = 2 * h - 1, n = 2 * h PROVE FALSE
        <3>1. h \in 1 .. h
            BY <1>1, <1>2, <2>1
        <3>2. ~(2 * h <= m) /\ 2 * h <= n
            BY <1>2, <2>1
        <3>3. s[2 * h - 1] = t[2 * h - 1] /\ s[2 * h - 1] = t[2 * h]
            BY <1>4, <3>1, <3>2
        <3>4. 2 * h - 1 \in DOMAIN t /\ 2 * h \in DOMAIN t /\ 2 * h - 1 # 2 * h
            BY <1>1, <1>2, <2>1, <3>1
        <3> QED
            BY <3>3, <3>4 DEF Distinct
    <2>2. ASSUME n = 2 * h - 1, m = 2 * h PROVE FALSE
        <3>1. h \in 1 .. h
            BY <1>1, <1>2, <2>2
        <3>2. ~(2 * h <= n) /\ 2 * h <= m
            BY <1>2, <2>2
        <3>3. s[2 * h - 1] = t[2 * h - 1] /\ s[2 * h] = t[2 * h - 1]
            BY <1>4, <3>1, <3>2
        <3>4. 2 * h - 1 \in DOMAIN s /\ 2 * h \in DOMAIN s /\ 2 * h - 1 # 2 * h
            BY <1>1, <1>2, <2>2, <3>1
        <3> QED
            BY <3>3, <3>4 DEF Distinct
    <2> QED
        BY <1>2, <1>3, <2>1, <2>2
<1>6. ASSUME NEW k \in 1 .. m PROVE s[k] = t[k]
    <2>1. PICK i \in 1 .. h : k = 2 * i \/ k = 2 * i - 1
        <3> DEFINE i == (k + 1) \div 2
        <3>1. i \in Nat /\ (k = 2 * i \/ k = 2 * i - 1)
            BY <1>1, Halves
        <3> HIDE DEF i
        <3>2. i \in 1 .. h
            BY <1>1, <1>2, <3>1
        <3> QED
            BY <3>1, <3>2
    <2>2. /\ s[2 * i - 1] = t[2 * i - 1]
          /\ (IF 2 * i <= m THEN s[2 * i] ELSE s[2 * i - 1])
                = IF 2 * i <= m THEN t[2 * i] ELSE t[2 * i - 1]
        BY <1>4, <1>5
    <2>3. CASE k = 2 * i - 1
        BY <2>2, <2>3
    <2>4. CASE k = 2 * i
        <3>1. 2 * i <= m
            BY <1>1, <2>4
        <3> QED
            BY <2>2, <2>4, <3>1
    <2> QED
        BY <2>1, <2>3, <2>4
<1> QED
    BY <1>1, <1>5, <1>6

-----------------------------------------------------------------------------
(* The levels of a tree *)

\* The recursion over the passes defines a function.
LEMMA LevelsAre ==
    ASSUME NEW leaves, Len(leaves) \in Nat
    PROVE  Levels(leaves) =
               [n \in 0 .. Len(leaves) |->
                   IF n = 0 THEN leaves ELSE Passed(Levels(leaves)[n - 1])]
<1> DEFINE N == Len(leaves)
           Good(f, n) == f = [i \in 0 .. n |-> IF i = 0 THEN leaves ELSE Passed(f[i - 1])]
           Bad == {n \in 0 .. N : ~\E f : Good(f, n)}
<1>1. \E f : Good(f, N)
    <2> SUFFICES ASSUME Bad # {} PROVE FALSE
        OBVIOUS
    <2>1. PICK m \in Bad : \A n \in Bad : m <= n
        <3>1. Bad \in SUBSET Nat
            OBVIOUS
        <3> HIDE DEF Bad
        <3> QED
            BY <3>1, LeastNumber
    <2>2. m \in 0 .. N /\ ~\E f : Good(f, m)
        OBVIOUS
    <2>3. CASE m = 0
        <3> DEFINE f == [i \in 0 .. 0 |-> leaves]
        <3>1. Good(f, 0)
            OBVIOUS
        <3> QED
            BY <2>2, <2>3, <3>1
    <2>4. CASE m # 0
        <3>1. m - 1 \in 0 .. N /\ m - 1 \notin Bad
            BY <2>1, <2>2, <2>4
        <3>2. PICK g : Good(g, m - 1)
            BY <3>1
        <3> DEFINE f == [i \in 0 .. m |-> IF i < m THEN g[i] ELSE Passed(g[m - 1])]
        <3>3. ASSUME NEW i \in 0 .. m
              PROVE  f[i] = IF i = 0 THEN leaves ELSE Passed(f[i - 1])
            <4>1. CASE i = m
                BY <2>2, <2>4, <4>1
            <4>2. CASE i < m
                <5>1. i \in 0 .. (m - 1) /\ f[i] = g[i]
                    BY <2>2, <4>2
                <5>2. g[i] = IF i = 0 THEN leaves ELSE Passed(g[i - 1])
                    BY <3>2, <5>1
                <5>3. i # 0 => i - 1 \in 0 .. m /\ i - 1 < m
                    BY <2>2, <5>1
                <5> QED
                    BY <5>1, <5>2, <5>3
            <4> QED
                BY <2>2, <4>1, <4>2
        <3>4. Good(f, m)
            BY <3>3
        <3> QED
            BY <2>2, <3>4
    <2> QED
        BY <2>3, <2>4
<1>2. Levels(leaves) = CHOOSE f : Good(f, N)
    BY DEF Levels
<1> HIDE DEF Good
<1>3. Good(Levels(leaves), N)
    BY <1>1, <1>2
<1> QED
    BY <1>3 DEF Good

\* A level that a tree may have.
Level(l) ==
    /\ l # <<>> /\ Distinct(l)
    /\ \E S : l \in Seq(S)

LEMMA PassedIs ==
    ASSUME NEW l, Level(l)
    PROVE  /\ Level(Passed(l))
           /\ Len(l) \in Nat \ {0} /\ Len(Passed(l)) \in Nat \ {0}
           /\ Len(l) = 1 => Passed(l) = l
           /\ Len(l) > 1 => Passed(l) = NextLevel(l) /\ Len(Passed(l)) < Len(l)
           /\ Passed(l) # l => Passed(l) = NextLevel(l) /\ Passed(l)[1][1] = "node"
<1>1. PICK S : l \in Seq(S)
    BY DEF Level
<1>2. l # <<>> /\ Distinct(l)
    BY DEF Level
<1>3. Len(l) \in Nat \ {0}
    BY <1>1, <1>2
<1>4. CASE Len(l) > 1
    <2> DEFINE h == (Len(l) + 1) \div 2
    <2>1. h \in Nat /\ (Len(l) = 2 * h \/ Len(l) = 2 * h - 1)
        BY <1>3, Halves
    <2>2. /\ NextLevel(l) \in Seq(Nodes(S)) /\ Len(NextLevel(l)) = h
          /\ \A i \in 1 .. h : NextLevel(l)[i][1] = "node"
        BY <1>1, NextLevelIs
    <2>3. Distinct(NextLevel(l))
        BY <1>1, <1>2, NextLevelDistinct
    <2> HIDE DEF h
    <2>4. h > 0 /\ h < Len(l)
        BY <1>3, <1>4, <2>1
    <2>5. NextLevel(l) # <<>> /\ NextLevel(l)[1][1] = "node"
        BY <2>1, <2>2, <2>4
    <2>6. Passed(l) = NextLevel(l)
        BY <1>4 DEF Passed
    <2>7. Level(Passed(l))
        BY <2>2, <2>3, <2>5, <2>6 DEF Level
    <2>8. Len(Passed(l)) \in Nat \ {0} /\ Len(Passed(l)) < Len(l) /\ Len(l) # 1
        <3>1. Len(Passed(l)) = h
            BY <2>2, <2>6
        <3>2. Len(l) # 1
            BY <1>4
        <3>3. h \in Nat \ {0}
            BY <2>1, <2>4
        <3> QED
            BY <2>4, <3>1, <3>2, <3>3
    <2>9. Passed(l)[1][1] = "node"
        BY <2>5, <2>6
    <2> QED
        <3>1. Passed(l) = NextLevel(l) /\ Len(Passed(l)) < Len(l)
            BY <2>6, <2>8
        <3>2. Passed(l)[1][1] = "node" /\ Level(Passed(l))
            BY <2>7, <2>9
        <3>3. Len(l) = 1 => Passed(l) = l
            BY <2>8
        <3>4. Len(l) \in Nat \ {0} /\ Len(Passed(l)) \in Nat \ {0}
            BY <1>3, <2>8
        <3> QED
            BY <3>1, <3>2, <3>3, <3>4, Zenon
<1>5. CASE ~(Len(l) > 1)
    <2>1. Passed(l) = l
        BY <1>5 DEF Passed
    <2> QED
        BY <1>3, <1>5, <2>1
<1> QED
    BY <1>4, <1>5

\* The levels of a tree become shorter until one node is left.
LEMMA LevelsShrink ==
    ASSUME NEW p, Level(p)
    PROVE  /\ Len(p) \in Nat
           /\ Levels(p)[0] = p
           /\ \A i \in 1 .. Len(p) : Levels(p)[i] = Passed(Levels(p)[i - 1])
           /\ \A i \in 0 .. Len(p) : Level(Levels(p)[i])
           /\ Len(Levels(p)[Len(p)]) = 1
<1> DEFINE N == Len(p)
           f == Levels(p)
           Good(i) == Level(f[i]) /\ (Len(f[i]) + i <= N \/ Len(f[i]) = 1)
           Bad == {i \in 0 .. N : ~Good(i)}
<1>1. N \in Nat \ {0}
    BY PassedIs
<1>2. f = [n \in 0 .. N |-> IF n = 0 THEN p ELSE Passed(f[n - 1])]
    BY <1>1, LevelsAre
<1> HIDE DEF f, N
<1>3. f[0] = p /\ \A i \in 1 .. N : f[i] = Passed(f[i - 1])
    BY <1>1, <1>2
<1>4. \A i \in 0 .. N : Good(i)
    <2> SUFFICES ASSUME Bad # {} PROVE FALSE
        OBVIOUS
    <2>1. PICK m \in Bad : \A n \in Bad : m <= n
        <3>1. Bad \in SUBSET Nat
            BY <1>1
        <3> HIDE DEF Bad
        <3> QED
            BY <3>1, LeastNumber
    <2>2. m \in 0 .. N /\ ~Good(m)
        OBVIOUS
    <2>3. m # 0
        BY <1>1, <1>3, <2>2 DEF N
    <2>4. m - 1 \in 0 .. N /\ m - 1 \notin Bad /\ m \in 1 .. N
        BY <1>1, <2>1, <2>2, <2>3
    <2>5. Good(m - 1)
        BY <2>4
    <2> HIDE DEF Bad
    <2>6. f[m] = Passed(f[m - 1])
        BY <1>3, <2>4
    <2>7. /\ Level(f[m])
          /\ Len(f[m - 1]) \in Nat \ {0} /\ Len(f[m]) \in Nat \ {0}
          /\ Len(f[m - 1]) = 1 => Len(f[m]) = 1
          /\ Len(f[m - 1]) > 1 => Len(f[m]) < Len(f[m - 1])
        <3> DEFINE l == f[m - 1]
        <3>1. Level(l)
            BY <2>5
        <3> HIDE DEF l
        <3>2. /\ Level(Passed(l))
              /\ Len(l) \in Nat \ {0} /\ Len(Passed(l)) \in Nat \ {0}
              /\ Len(l) = 1 => Passed(l) = l
              /\ Len(l) > 1 => Len(Passed(l)) < Len(l)
            BY <3>1, PassedIs
        <3>3. f[m] = Passed(l)
            BY <2>6 DEF l
        <3> QED
            BY <3>2, <3>3 DEF l
    <2>8. Len(f[m - 1]) + (m - 1) <= N \/ Len(f[m - 1]) = 1
        BY <2>5
    <2>9. Len(f[m]) + m <= N \/ Len(f[m]) = 1
        <3>1. PICK x : x = Len(f[m - 1])
            OBVIOUS
        <3>2. PICK y : y = Len(f[m])
            OBVIOUS
        <3>3. x \in Nat \ {0} /\ y \in Nat \ {0} /\ (x = 1 => y = 1) /\ (x > 1 => y < x)
            BY <2>7, <3>1, <3>2
        <3>4. x + (m - 1) <= N \/ x = 1
            BY <2>8, <3>1
        <3>5. m \in Nat
            BY <1>1, <2>2
        <3>6. y + m <= N \/ y = 1
            BY <1>1, <3>3, <3>4, <3>5
        <3> QED
            BY <3>2, <3>6
    <2> QED
        BY <2>2, <2>7, <2>9
<1>5. Len(f[N]) = 1
    <2>1. Good(N)
        BY <1>1, <1>4
    <2>2. Len(f[N]) \in Nat \ {0}
        BY <2>1, PassedIs
    <2> QED
        BY <1>1, <2>1, <2>2
<1> QED
    BY <1>1, <1>3, <1>4, <1>5 DEF f, N

-----------------------------------------------------------------------------
(* What a root binds *)

\* Two trees with one root are of one list of leaves: going down from the roots, the
\* first levels that are the same are the leaves of both.
LEMMA TreesOfOneRoot ==
    ASSUME NEW p, Level(p), \A i \in 1 .. Len(p) : p[i][1] = "leaf",
           NEW q, Level(q), \A i \in 1 .. Len(q) : q[i][1] = "leaf",
           Levels(p)[Len(p)][1] = Levels(q)[Len(q)][1]
    PROVE  p = q
<1> DEFINE N == Len(p)
           M == Len(q)
           f == Levels(p)
           g == Levels(q)
           I == {i \in 0 .. N : \E j \in 0 .. M : f[i] = g[j]}
<1>1. /\ N \in Nat /\ f[0] = p /\ (\A i \in 1 .. N : f[i] = Passed(f[i - 1]))
      /\ \A i \in 0 .. N : Level(f[i])
      /\ Len(f[N]) = 1
    BY LevelsShrink
<1>2. /\ M \in Nat /\ g[0] = q /\ (\A i \in 1 .. M : g[i] = Passed(g[i - 1]))
      /\ \A i \in 0 .. M : Level(g[i])
      /\ Len(g[M]) = 1
    BY LevelsShrink
<1>3. p[1][1] = "leaf" /\ q[1][1] = "leaf"
    <2>1. Len(p) \in Nat \ {0} /\ Len(q) \in Nat \ {0}
        BY PassedIs
    <2> QED
        BY <2>1
<1>4. f[N] = g[M]
    <2>1. f[N][1] = g[M][1]
        OBVIOUS
    <2>2. PICK S : f[N] \in Seq(S)
        BY <1>1 DEF Level
    <2>3. PICK T : g[M] \in Seq(T)
        BY <1>2 DEF Level
    <2>4. /\ DOMAIN f[N] = {1} /\ f[N] = [k \in DOMAIN f[N] |-> f[N][k]]
          /\ DOMAIN g[M] = {1} /\ g[M] = [k \in DOMAIN g[M] |-> g[M][k]]
        <3> HIDE DEF f, g, N, M
        <3> QED
            BY <1>1, <1>2, <2>2, <2>3
    <2> HIDE DEF f, g, N, M
    <2> QED
        BY <2>1, <2>4
<1> HIDE DEF f, g, N, M
<1>5. PICK i \in I : \A x \in I : i <= x
    <2>1. I \in SUBSET Nat /\ N \in I
        BY <1>1, <1>2, <1>4
    <2> HIDE DEF I
    <2> QED
        BY <2>1, LeastNumber
<1>6. i \in 0 .. N /\ \E j \in 0 .. M : f[i] = g[j]
    OBVIOUS
<1> DEFINE J == {j \in 0 .. M : f[i] = g[j]}
<1>7. PICK j \in J : \A y \in J : j <= y
    <2>1. J \in SUBSET Nat /\ J # {}
        BY <1>2, <1>6
    <2> HIDE DEF J
    <2> QED
        BY <2>1, LeastNumber
<1>8. j \in 0 .. M /\ f[i] = g[j]
    OBVIOUS
\* The level below the first common one is another, on both sides.
<1>9. ASSUME i # 0
      PROVE  /\ i - 1 \in 0 .. N /\ f[i] = Passed(f[i - 1])
             /\ \A y \in 0 .. M : f[i - 1] # g[y]
    <2>1. i - 1 \in 0 .. N /\ i \in 1 .. N /\ i - 1 < i
        BY <1>1, <1>6, <1>9
    <2>2. i - 1 \notin I
        BY <1>5, <1>6, <2>1
    <2> QED
        BY <1>1, <2>1, <2>2
<1>10. ASSUME j # 0
       PROVE  j - 1 \in 0 .. M /\ g[j] = Passed(g[j - 1]) /\ f[i] # g[j - 1]
    <2>1. j - 1 \in 0 .. M /\ j \in 1 .. M /\ j - 1 < j
        BY <1>2, <1>8, <1>10
    <2>2. j - 1 \notin J
        BY <1>7, <1>8, <2>1
    <2> QED
        BY <1>2, <2>1, <2>2
<1> HIDE DEF I, J
<1>11. ASSUME i # 0
       PROVE  /\ f[i] = NextLevel(f[i - 1]) /\ f[i][1][1] = "node"
              /\ Level(f[i - 1])
    <2>1. f[i - 1] # f[i]
        BY <1>8, <1>9, <1>11
    <2>2. Level(f[i - 1]) /\ f[i] = Passed(f[i - 1])
        BY <1>1, <1>9, <1>11
    <2>3. PICK l : l = f[i - 1]
        OBVIOUS
    <2>4. Level(l) /\ Passed(l) # l
        BY <2>1, <2>2, <2>3
    <2>5. Passed(l) = NextLevel(l) /\ Passed(l)[1][1] = "node"
        BY <2>4, PassedIs
    <2> QED
        BY <2>2, <2>3, <2>5
<1>12. ASSUME j # 0
       PROVE  /\ g[j] = NextLevel(g[j - 1]) /\ g[j][1][1] = "node"
              /\ Level(g[j - 1])
    <2>1. g[j - 1] # g[j]
        BY <1>8, <1>10, <1>12
    <2>2. Level(g[j - 1]) /\ g[j] = Passed(g[j - 1])
        BY <1>2, <1>10, <1>12
    <2>3. PICK l : l = g[j - 1]
        OBVIOUS
    <2>4. Level(l) /\ Passed(l) # l
        BY <2>1, <2>2, <2>3
    <2>5. Passed(l) = NextLevel(l) /\ Passed(l)[1][1] = "node"
        BY <2>4, PassedIs
    <2> QED
        BY <2>2, <2>3, <2>5
<1>13. i = 0 <=> j = 0
    <2>1. i = 0 => f[i][1][1] = "leaf"
        BY <1>1, <1>3
    <2>2. j = 0 => g[j][1][1] = "leaf"
        BY <1>2, <1>3
    <2> QED
        BY <1>8, <1>11, <1>12, <2>1, <2>2
<1>14. i = 0
    <2> SUFFICES ASSUME i # 0 PROVE FALSE
        OBVIOUS
    <2>1. NextLevel(f[i - 1]) = NextLevel(g[j - 1])
        BY <1>8, <1>11, <1>12, <1>13
    <2>2. Level(f[i - 1]) /\ Level(g[j - 1])
        BY <1>11, <1>12, <1>13
    <2>3. PICK l : l = f[i - 1]
        OBVIOUS
    <2>4. PICK r : r = g[j - 1]
        OBVIOUS
    <2>5. l = r
        <3>1. PICK S : l \in Seq(S)
            BY <2>2, <2>3 DEF Level
        <3>2. PICK T : r \in Seq(T)
            BY <2>2, <2>4 DEF Level
        <3>3. Distinct(l) /\ Distinct(r) /\ NextLevel(l) = NextLevel(r)
            BY <2>1, <2>2, <2>3, <2>4 DEF Level
        <3> QED
            BY <3>1, <3>2, <3>3, NextLevelInjective
    <2> QED
        BY <1>9, <1>10, <1>13, <2>3, <2>4, <2>5
<1> QED
    BY <1>1, <1>2, <1>8, <1>13, <1>14

\* The root of a tree of leaves is a leaf or a node.
LEMMA RootIsOfTree ==
    ASSUME NEW l, Level(l), \A i \in 1 .. Len(l) : l[i][1] = "leaf"
    PROVE  Root(l) = Levels(l)[Len(l)][1] /\ Root(l)[1] \in {"leaf", "node"}
<1> DEFINE N == Len(l)
           f == Levels(l)
           Good(i) == f[i][1][1] \in {"leaf", "node"}
           Bad == {i \in 0 .. N : ~Good(i)}
<1>1. /\ N \in Nat \ {0} /\ f[0] = l
      /\ \A i \in 1 .. N : f[i] = Passed(f[i - 1])
      /\ \A i \in 0 .. N : Level(f[i])
    BY LevelsShrink, PassedIs
<1>2. Root(l) = f[N][1]
    BY DEF Root, Level
<1>3. l[1][1] = "leaf"
    BY <1>1
<1> HIDE DEF f, N
<1>4. \A i \in 0 .. N : Good(i)
    <2> SUFFICES ASSUME Bad # {} PROVE FALSE
        OBVIOUS
    <2>1. PICK m \in Bad : \A n \in Bad : m <= n
        <3>1. Bad \in SUBSET Nat
            BY <1>1
        <3> HIDE DEF Bad
        <3> QED
            BY <3>1, LeastNumber
    <2>2. m \in 0 .. N /\ ~Good(m) /\ m # 0
        BY <1>1, <1>3
    <2>3. m - 1 \in 0 .. N /\ m - 1 \notin Bad /\ m \in 1 .. N
        BY <1>1, <2>1, <2>2
    <2>4. Good(m - 1) /\ Level(f[m - 1]) /\ f[m] = Passed(f[m - 1])
        BY <1>1, <2>3
    <2>5. PICK x : x = f[m - 1]
        OBVIOUS
    <2>6. Passed(x) # x => Passed(x)[1][1] = "node"
        BY <2>4, <2>5, PassedIs
    <2> QED
        BY <2>2, <2>4, <2>5, <2>6
<1>5. f[N][1][1] \in {"leaf", "node"}
    BY <1>1, <1>4
<1> QED
    BY <1>2, <1>5 DEF f, N

\* The positions of a manifest as committed (internal/run): 0, 1, ...
InOrder(entries) == \A i \in DOMAIN entries : entries[i].position = i - 1

LeavesOf(entries) ==
    [i \in DOMAIN entries |->
        Leaf(entries[i].position, entries[i].uri, entries[i].hash)]

\* The leaves of a manifest are distinct, for they hold its positions.
LEMMA LeavesAre ==
    ASSUME NEW E, NEW a \in Seq(E), InOrder(a)
    PROVE  /\ Len(LeavesOf(a)) = Len(a)
           /\ DOMAIN LeavesOf(a) = 1 .. Len(a) /\ Len(a) \in Nat
           /\ \A i \in 1 .. Len(a) : /\ LeavesOf(a)[i][1] = "leaf"
                                     /\ LeavesOf(a)[i][2] = a[i].position
                                     /\ LeavesOf(a)[i][3] = a[i].uri
                                     /\ LeavesOf(a)[i][4] = a[i].hash
           /\ Len(a) # 0 => Level(LeavesOf(a))
           /\ Len(a) = 0 <=> LeavesOf(a) = <<>>
<1> DEFINE p == LeavesOf(a)
           n == Len(a)
           S == {p[i] : i \in 1 .. n}
<1>1. n \in Nat /\ DOMAIN a = 1 .. n
    OBVIOUS
<1>2. p = [i \in 1 .. n |-> <<"leaf", a[i].position, a[i].uri, a[i].hash>>]
    BY <1>1 DEF LeavesOf, Leaf
<1>3. \A i \in 1 .. n : a[i].position = i - 1
    BY <1>1 DEF InOrder
<1> HIDE DEF p, n
<1>4. p \in [1 .. n -> S]
    BY <1>2
<1>5. p \in Seq(S) /\ Len(p) = n /\ DOMAIN p = 1 .. n
    <2> HIDE DEF S
    <2> QED
        BY <1>1, <1>4, SeqDef
<1>6. \A i \in 1 .. n : /\ p[i][1] = "leaf" /\ p[i][2] = a[i].position
                        /\ p[i][3] = a[i].uri /\ p[i][4] = a[i].hash
    BY <1>2
<1> HIDE DEF S
<1>7. Distinct(p)
    <2>1. ASSUME NEW i \in 1 .. n, NEW j \in 1 .. n, p[i] = p[j] PROVE i = j
        <3>1. p[i][2] = i - 1 /\ p[j][2] = j - 1
            BY <1>3, <1>6
        <3>2. i - 1 = j - 1 /\ i \in Nat /\ j \in Nat
            BY <1>1, <2>1, <3>1
        <3> QED
            BY <3>2
    <2> QED
        BY <1>5, <2>1 DEF Distinct
<1>8. n = 0 <=> p = <<>>
    BY <1>1, <1>5
<1>9. n # 0 => Level(p)
    BY <1>5, <1>7, <1>8 DEF Level
<1> QED
    BY <1>1, <1>5, <1>6, <1>8, <1>9 DEF p, n

\* Of manifests of any length, whose positions are 0, 1, ..., the root binds what they
\* record (internal/merkle): duplicating the last node of an odd level (merkle.go:85-88)
\* makes no two of them the same, for that takes two leaves that are equal.
THEOREM RootsBind ==
    ASSUME NEW E, NEW a \in Seq(E), InOrder(a), NEW b \in Seq(E), InOrder(b)
    PROVE  RootBinds(a, b)
<1> DEFINE p == LeavesOf(a)
           q == LeavesOf(b)
<1>1. /\ Len(p) = Len(a) /\ DOMAIN p = 1 .. Len(a) /\ Len(a) \in Nat
      /\ \A i \in 1 .. Len(a) :
            /\ p[i][1] = "leaf" /\ p[i][2] = a[i].position
            /\ p[i][3] = a[i].uri /\ p[i][4] = a[i].hash
      /\ Len(a) # 0 => Level(p)
      /\ Len(a) = 0 <=> p = <<>>
    BY LeavesAre
<1>2. /\ Len(q) = Len(b) /\ DOMAIN q = 1 .. Len(b) /\ Len(b) \in Nat
      /\ \A i \in 1 .. Len(b) :
            /\ q[i][1] = "leaf" /\ q[i][2] = b[i].position
            /\ q[i][3] = b[i].uri /\ q[i][4] = b[i].hash
      /\ Len(b) # 0 => Level(q)
      /\ Len(b) = 0 <=> q = <<>>
    BY LeavesAre
<1>3. MerkleRoot(a) = Root(p) /\ MerkleRoot(b) = Root(q)
    BY DEF MerkleRoot, LeavesOf
<1>4. /\ DOMAIN a = 1 .. Len(a) /\ DOMAIN b = 1 .. Len(b)
    OBVIOUS
<1> HIDE DEF p, q
<1>5. ASSUME Root(p) = Root(q) PROVE p = q
    <2>1. Root(<<>>)[1] = "empty"
        BY DEF Root
    <2>2. CASE Len(a) # 0 /\ Len(b) # 0
        <3>1. /\ Level(p) /\ \A i \in 1 .. Len(p) : p[i][1] = "leaf"
              /\ Level(q) /\ \A i \in 1 .. Len(q) : q[i][1] = "leaf"
            BY <1>1, <1>2, <2>2
        <3>2. Levels(p)[Len(p)][1] = Levels(q)[Len(q)][1]
            BY <1>5, <3>1, RootIsOfTree
        <3> QED
            BY <3>1, <3>2, TreesOfOneRoot
    <2>3. CASE Len(a) = 0
        <3>1. Root(q)[1] = "empty"
            BY <1>1, <1>5, <2>1, <2>3
        <3>2. ~(Level(q) /\ \A i \in 1 .. Len(q) : q[i][1] = "leaf")
            BY <3>1, RootIsOfTree
        <3> QED
            BY <1>1, <1>2, <2>3, <3>2
    <2>4. CASE Len(b) = 0
        <3>1. Root(p)[1] = "empty"
            BY <1>2, <1>5, <2>1, <2>4
        <3>2. ~(Level(p) /\ \A i \in 1 .. Len(p) : p[i][1] = "leaf")
            BY <3>1, RootIsOfTree
        <3> QED
            BY <1>1, <1>2, <2>4, <3>2
    <2> QED
        BY <2>2, <2>3, <2>4
<1>6. ASSUME Committed(a) = Committed(b) PROVE p = q
    <2>1. /\ Committed(a) = [i \in 1 .. Len(a) |-> <<a[i].position, a[i].uri, a[i].hash>>]
          /\ Committed(b) = [i \in 1 .. Len(b) |-> <<b[i].position, b[i].uri, b[i].hash>>]
        BY <1>4 DEF Committed
    <2>2. 1 .. Len(a) = 1 .. Len(b)
        BY <1>6, <2>1
    <2>3. \A i \in 1 .. Len(a) :
             <<a[i].position, a[i].uri, a[i].hash>> = <<b[i].position, b[i].uri, b[i].hash>>
        BY <1>6, <2>1, <2>2
    <2>4. /\ p = [i \in 1 .. Len(a) |-> <<"leaf", a[i].position, a[i].uri, a[i].hash>>]
          /\ q = [i \in 1 .. Len(b) |-> <<"leaf", b[i].position, b[i].uri, b[i].hash>>]
        BY <1>4 DEF p, q, LeavesOf, Leaf
    <2> QED
        BY <2>2, <2>3, <2>4
<1>7. ASSUME p = q PROVE Committed(a) = Committed(b)
    <2>1. /\ Committed(a) = [i \in 1 .. Len(a) |-> <<a[i].position, a[i].uri, a[i].hash>>]
          /\ Committed(b) = [i \in 1 .. Len(b) |-> <<b[i].position, b[i].uri, b[i].hash>>]
        BY <1>4 DEF Committed
    <2>2. Len(a) = Len(b) /\ \A i \in 1 .. Len(a) :
             /\ a[i].position = b[i].position /\ a[i].uri = b[i].uri
             /\ a[i].hash = b[i].hash
        BY <1>1, <1>2, <1>7
    <2> QED
        BY <2>1, <2>2
<1> QED
    BY <1>3, <1>5, <1>6, <1>7 DEF RootBinds

-----------------------------------------------------------------------------
(* Lists of entries by URI *)

\* Entries of different URIs are counted by their URIs.
LEMMA EachOnceIs ==
    ASSUME NEW E, NEW a \in Seq(E)
    PROVE  /\ IsFiniteSet(UrisOf(a))
           /\ EachOnce(a) => \A i, j \in DOMAIN a : a[i].uri = a[j].uri => i = j
<1> DEFINE n == Len(a)
           f == [i \in 1 .. n |-> a[i].uri]
<1>1. n \in Nat /\ DOMAIN a = 1 .. n
    OBVIOUS
<1>2. UrisOf(a) = {a[i].uri : i \in 1 .. n}
    BY <1>1 DEF UrisOf
<1> HIDE DEF n
<1>3. f \in Surjection(1 .. n, UrisOf(a))
    BY <1>2 DEF Surjection
<1>4. IsFiniteSet(1 .. n) /\ Cardinality(1 .. n) = n
    BY <1>1, FS_Interval
<1> HIDE DEF f
<1>5. /\ IsFiniteSet(UrisOf(a))
      /\ Cardinality(UrisOf(a)) = n => f \in Injection(1 .. n, UrisOf(a))
    BY <1>3, <1>4, FS_Surjection
<1>6. ASSUME EachOnce(a), NEW i \in 1 .. n, NEW j \in 1 .. n, a[i].uri = a[j].uri
      PROVE  i = j
    <2>1. f \in Injection(1 .. n, UrisOf(a))
        BY <1>5, <1>6 DEF EachOnce, n
    <2>2. f[i] = f[j] /\ i \in DOMAIN f /\ j \in DOMAIN f
        BY <1>6 DEF f
    <2> QED
        BY <2>1, <2>2 DEF Injection, IsInjective
<1> QED
    BY <1>1, <1>5, <1>6

LEMMA ByUriIs ==
    ASSUME NEW E, NEW a \in Seq(E)
    PROVE  /\ DOMAIN EntriesByUri(a) = UrisOf(a)
           /\ EachOnce(a) => \A i \in DOMAIN a : EntriesByUri(a)[a[i].uri] = a[i]
<1>1. DOMAIN EntriesByUri(a) = UrisOf(a)
    BY DEF EntriesByUri
<1>2. ASSUME EachOnce(a), NEW i \in DOMAIN a
      PROVE  EntriesByUri(a)[a[i].uri] = a[i]
    <2>1. {j \in DOMAIN a : a[j].uri = a[i].uri} = {i}
        BY <1>2, EachOnceIs
    <2>2. i \in Int
        OBVIOUS
    <2>3. Max({i}) = i
        BY <2>2 DEF Max
    <2>4. a[i].uri \in UrisOf(a)
        BY DEF UrisOf
    <2> QED
        BY <2>1, <2>3, <2>4 DEF EntriesByUri
<1> QED
    BY <1>1, <1>2

\* What a difference says of one URI, and what the other direction says.
LEMMA StatusIs ==
    ASSUME NEW a, NEW b, NEW u \in UnionUris(a, b)
    PROVE  /\ u \notin DOMAIN b => StatusOf(a, b, u) = "removed"
           /\ u \notin DOMAIN a => StatusOf(a, b, u) = "added"
           /\ u \in DOMAIN a /\ u \in DOMAIN b =>
                 StatusOf(a, b, u) = IF a[u].hash = b[u].hash THEN "unchanged" ELSE "changed"
<1>1. u \in DOMAIN a \/ u \in DOMAIN b
    BY DEF UnionUris
<1>2. CASE u \notin DOMAIN b
    BY <1>1, <1>2 DEF StatusOf
<1>3. CASE u \notin DOMAIN a
    BY <1>1, <1>3 DEF StatusOf
<1>4. CASE u \in DOMAIN a /\ u \in DOMAIN b /\ a[u].hash = b[u].hash
    BY <1>4 DEF StatusOf
<1>5. CASE u \in DOMAIN a /\ u \in DOMAIN b /\ a[u].hash # b[u].hash
    BY <1>5 DEF StatusOf
<1> QED
    BY <1>1, <1>2, <1>3, <1>4, <1>5

LEMMA OtherDirection ==
    ASSUME NEW store, NEW a, NEW b, NEW u \in UnionUris(a, b)
    PROVE  /\ StatusOf(b, a, u) = Mirrored(StatusOf(a, b, u))
           /\ Unreadable(store, a, b, u) <=> Unreadable(store, b, a, u)
<1>1. UnionUris(b, a) = UnionUris(a, b)
    BY DEF UnionUris
<1>2. StatusOf(b, a, u) = Mirrored(StatusOf(a, b, u))
    <2>1. u \in DOMAIN a \/ u \in DOMAIN b
        BY DEF UnionUris
    <2>2. CASE u \notin DOMAIN b
        BY <1>1, <2>1, <2>2, StatusIs DEF Mirrored
    <2>3. CASE u \notin DOMAIN a
        BY <1>1, <2>1, <2>3, StatusIs DEF Mirrored
    <2>4. CASE u \in DOMAIN a /\ u \in DOMAIN b
        BY <1>1, <2>4, StatusIs DEF Mirrored
    <2> QED
        BY <2>2, <2>3, <2>4
<1>3. StatusOf(a, b, u) = "changed" <=> StatusOf(b, a, u) = "changed"
    <2>1. StatusOf(a, b, u) \in {"added", "removed", "changed", "unchanged"}
        BY StatusIs DEF UnionUris
    <2> QED
        BY <1>2, <2>1 DEF Mirrored
<1> QED
    BY <1>2, <1>3 DEF Unreadable

\* A function; an answer that is none, as Failed, is no difference.
IsFunctionValue(f) == f = [x \in DOMAIN f |-> f[x]]

LEMMA DiffMeans ==
    ASSUME NEW store, NEW a, NEW b, ~IsFunctionValue(Failed)
    PROVE  LET A == EntriesByUri(a)
               B == EntriesByUri(b)
           IN  /\ Diff(store, a, b) = Failed
                     <=> \E u \in UnionUris(A, B) : Unreadable(store, A, B, u)
               /\ Diff(store, a, b) # Failed =>
                     Diff(store, a, b) = [u \in UnionUris(A, B) |-> EntryDiff(store, A, B, u)]
<1> DEFINE A == EntriesByUri(a)
           B == EntriesByUri(b)
           D == [u \in UnionUris(A, B) |-> EntryDiff(store, A, B, u)]
<1>1. Diff(store, a, b) = IF \E u \in UnionUris(A, B) : Unreadable(store, A, B, u)
                          THEN Failed ELSE D
    BY DEF Diff
<1>2. IsFunctionValue(D)
    BY DEF IsFunctionValue
<1> HIDE DEF D
<1>3. D # Failed
    BY <1>2
<1> QED
    BY <1>1, <1>3 DEF D

\* The counts of the statuses that A has a part in.
LEMMA CountsAre ==
    ASSUME NEW A, NEW B, IsFiniteSet(DOMAIN A), IsFiniteSet(DOMAIN B), NEW d,
           DOMAIN d = UnionUris(A, B),
           \A u \in UnionUris(A, B) : d[u].status = StatusOf(A, B, u)
    PROVE  /\ Count(d, "unchanged") + Count(d, "changed") + Count(d, "removed")
                 = Cardinality(DOMAIN A)
           /\ Count(d, "unchanged") = Cardinality(DOMAIN d)
                 <=> \A u \in DOMAIN d : d[u].status = "unchanged"
<1> DEFINE U == {u \in DOMAIN d : d[u].status = "unchanged"}
           C == {u \in DOMAIN d : d[u].status = "changed"}
           R == {u \in DOMAIN d : d[u].status = "removed"}
<1>1. /\ Count(d, "unchanged") = Cardinality(U) /\ Count(d, "changed") = Cardinality(C)
      /\ Count(d, "removed") = Cardinality(R)
    BY DEF Count
<1>2. IsFiniteSet(DOMAIN d)
    BY FS_Union DEF UnionUris
<1>3. IsFiniteSet(U) /\ IsFiniteSet(C) /\ IsFiniteSet(R)
    BY <1>2, FS_Subset
<1>4. \A u \in DOMAIN d :
         /\ u \in U <=> (u \in DOMAIN A /\ u \in DOMAIN B /\ A[u].hash = B[u].hash)
         /\ u \in C <=> (u \in DOMAIN A /\ u \in DOMAIN B /\ A[u].hash # B[u].hash)
         /\ u \in R <=> (u \in DOMAIN A /\ u \notin DOMAIN B)
    <2> TAKE u \in DOMAIN d
    <2>1. d[u].status = StatusOf(A, B, u) /\ (u \in DOMAIN A \/ u \in DOMAIN B)
        BY DEF UnionUris
    <2>2. /\ u \notin DOMAIN B => d[u].status = "removed"
          /\ u \notin DOMAIN A => d[u].status = "added"
          /\ u \in DOMAIN A /\ u \in DOMAIN B =>
                d[u].status = IF A[u].hash = B[u].hash THEN "unchanged" ELSE "changed"
        BY <2>1, StatusIs
    <2> QED
        BY <2>1, <2>2
<1>5. U \subseteq DOMAIN d /\ C \subseteq DOMAIN d /\ R \subseteq DOMAIN d
    OBVIOUS
<1>6. U \cap C = {} /\ (U \cup C) \cap R = {} /\ (U \cup C) \cup R = DOMAIN A
    <2> HIDE DEF U, C, R
    <2>1. DOMAIN A \subseteq DOMAIN d
        BY DEF UnionUris
    <2> QED
        BY <1>4, <1>5, <2>1
<1>7. U = DOMAIN d <=> \A u \in DOMAIN d : d[u].status = "unchanged"
    OBVIOUS
<1> HIDE DEF U, C, R
<1>8. Cardinality(U) + Cardinality(C) + Cardinality(R) = Cardinality(DOMAIN A)
    <2>1. /\ IsFiniteSet(U \cup C)
          /\ Cardinality(U \cup C) = Cardinality(U) + Cardinality(C) - Cardinality({})
        BY <1>3, <1>6, FS_Union
    <2>2. Cardinality((U \cup C) \cup R)
             = Cardinality(U \cup C) + Cardinality(R) - Cardinality({})
        BY <1>3, <1>6, <2>1, FS_Union
    <2>3. /\ Cardinality({}) = 0 /\ Cardinality(U) \in Nat /\ Cardinality(C) \in Nat
          /\ Cardinality(R) \in Nat
        BY <1>3, FS_EmptySet, FS_CardinalityType
    <2> QED
        BY <1>6, <2>1, <2>2, <2>3
<1>9. Cardinality(U) = Cardinality(DOMAIN d) <=> U = DOMAIN d
    BY <1>2, <1>5, FS_Subset
<1> QED
    BY <1>1, <1>7, <1>8, <1>9

\* Two lists of entries of different URIs read the same exactly when each has the
\* other's URIs with the same hash.
LEMMA SameReads ==
    ASSUME NEW E, NEW a \in Seq(E), NEW b \in Seq(E), EachOnce(a), EachOnce(b)
    PROVE  LET A == EntriesByUri(a)
               B == EntriesByUri(b)
           IN  ReadsOf(a) = ReadsOf(b) <=>
                  \A u \in UnionUris(A, B) : StatusOf(A, B, u) = "unchanged"
<1> DEFINE A == EntriesByUri(a)
           B == EntriesByUri(b)
<1>1. /\ DOMAIN A = UrisOf(a) /\ \A i \in DOMAIN a : A[a[i].uri] = a[i]
      /\ DOMAIN B = UrisOf(b) /\ \A i \in DOMAIN b : B[b[i].uri] = b[i]
    BY ByUriIs
<1> HIDE DEF A, B
<1>2. /\ ReadsOf(a) = {<<u, A[u].hash>> : u \in DOMAIN A}
      /\ ReadsOf(b) = {<<u, B[u].hash>> : u \in DOMAIN B}
    BY <1>1 DEF ReadsOf, UrisOf
<1>3. ReadsOf(a) = ReadsOf(b) <=>
         /\ DOMAIN A = DOMAIN B
         /\ \A u \in DOMAIN A : A[u].hash = B[u].hash
    <2>1. \A u, h : <<u, h>> \in ReadsOf(a) <=> u \in DOMAIN A /\ h = A[u].hash
        BY <1>2
    <2>2. \A u, h : <<u, h>> \in ReadsOf(b) <=> u \in DOMAIN B /\ h = B[u].hash
        BY <1>2
    <2>3. ASSUME ReadsOf(a) = ReadsOf(b)
          PROVE  DOMAIN A = DOMAIN B /\ \A u \in DOMAIN A : A[u].hash = B[u].hash
        BY <2>1, <2>2, <2>3
    <2>4. ASSUME DOMAIN A = DOMAIN B, \A u \in DOMAIN A : A[u].hash = B[u].hash
          PROVE  ReadsOf(a) = ReadsOf(b)
        BY <1>2, <2>4
    <2> QED
        BY <2>3, <2>4
<1>4. ASSUME NEW u \in UnionUris(A, B)
      PROVE  StatusOf(A, B, u) = "unchanged" <=>
                u \in DOMAIN A /\ u \in DOMAIN B /\ A[u].hash = B[u].hash
    BY StatusIs
<1>5. UnionUris(A, B) = DOMAIN A \cup DOMAIN B
    BY DEF UnionUris
<1> QED
    BY <1>3, <1>4, <1>5 DEF A, B

\* What is replayed of a list that can be replayed, when a materialization is missing
\* or names the bytes that the entry records.
LEMMA ReplayMeans ==
    ASSUME NEW E, NEW store, NEW a \in Seq(E), Replay(store, a) # Failed,
           \A e \in E : store.mats[e.materialization] \in {None, e.hash}
    PROVE  /\ DOMAIN Replay(store, a) = DOMAIN a
           /\ \A i \in DOMAIN a : /\ Replay(store, a)[i].uri = a[i].uri
                                  /\ Replay(store, a)[i].content = store.blobs[a[i].hash]
<1>1. /\ \A i \in DOMAIN a : ReplayedContent(store, a[i]) # None
      /\ Replay(store, a) = [i \in DOMAIN a |-> ReplayEntry(store, a[i])]
    BY DEF Replay
<1>2. ASSUME NEW i \in DOMAIN a
      PROVE  ReplayedContent(store, a[i]) = store.blobs[a[i].hash]
    <2>1. a[i] \in E
        OBVIOUS
    <2> QED
        BY <1>1, <2>1 DEF ReplayedContent
<1> QED
    BY <1>1, <1>2 DEF ReplayEntry

LEMMA ReplayOfIs ==
    ASSUME NEW E, NEW store, NEW a \in Seq(E), EachOnce(a), Replay(store, a) # Failed,
           \A e \in E : store.mats[e.materialization] \in {None, e.hash},
           NEW u \in UrisOf(a)
    PROVE  Replay(store, a)[ReplayOf(Replay(store, a), u)].content
              = store.blobs[EntriesByUri(a)[u].hash]
<1> DEFINE r == Replay(store, a)
           k == ReplayOf(r, u)
<1>1. DOMAIN r = DOMAIN a /\ \A i \in DOMAIN a : /\ r[i].uri = a[i].uri
                                                 /\ r[i].content = store.blobs[a[i].hash]
    BY ReplayMeans
<1>2. PICK i \in DOMAIN a : a[i].uri = u
    BY DEF UrisOf
<1> HIDE DEF r
<1>3. k \in DOMAIN r /\ r[k].uri = u
    <2>1. \E j \in DOMAIN r : r[j].uri = u
        BY <1>1, <1>2
    <2> QED
        BY <2>1 DEF ReplayOf
<1> HIDE DEF k
<1>4. k = i
    BY <1>1, <1>2, <1>3, EachOnceIs
<1>5. EntriesByUri(a)[u] = a[i]
    BY <1>2, ByUriIs
<1> QED
    BY <1>1, <1>2, <1>4, <1>5 DEF r, k

\* The difference of two manifests of any length and any store in which an entry's
\* materialization, if it is there, is of the bytes the entry records, says the same in
\* both directions, counts every URI once, tells equal reads from different ones and
\* compares the bytes that the replays verify (internal/diff, internal/replay).
THEOREM DifferencesAreExact ==
    ASSUME NEW E, NEW store, NEW a \in Seq(E), NEW b \in Seq(E),
           ~IsFunctionValue(Failed),
           \A e \in E : store.mats[e.materialization] \in {None, e.hash}
    PROVE  DiffIs(store, a, b)
<1> DEFINE A  == EntriesByUri(a)
           B  == EntriesByUri(b)
           U  == UnionUris(A, B)
           ab == Diff(store, a, b)
           ba == Diff(store, b, a)
           ra == Replay(store, a)
           rb == Replay(store, b)
<1>1. UnionUris(B, A) = U
    BY DEF UnionUris
<1>2. /\ ab = Failed <=> \E u \in U : Unreadable(store, A, B, u)
      /\ ab # Failed => ab = [u \in U |-> EntryDiff(store, A, B, u)]
    BY DiffMeans
<1>3. /\ ba = Failed <=> \E u \in U : Unreadable(store, B, A, u)
      /\ ba # Failed => ba = [u \in U |-> EntryDiff(store, B, A, u)]
    BY <1>1, DiffMeans
<1>4. /\ DOMAIN A = UrisOf(a) /\ IsFiniteSet(DOMAIN A)
      /\ DOMAIN B = UrisOf(b) /\ IsFiniteSet(DOMAIN B)
    BY ByUriIs, EachOnceIs
<1> HIDE DEF A, B, ab, ba, ra, rb
<1>5. \A u \in U : /\ StatusOf(B, A, u) = Mirrored(StatusOf(A, B, u))
                   /\ Unreadable(store, A, B, u) <=> Unreadable(store, B, A, u)
    BY OtherDirection
<1> HIDE DEF U
<1>6. ab = Failed <=> ba = Failed
    BY <1>2, <1>3, <1>5
<1>7. ASSUME ab # Failed
      PROVE  /\ DOMAIN ab = U /\ DOMAIN ba = U
             /\ \A u \in U :
                   /\ ab[u].status = StatusOf(A, B, u) /\ ba[u].status = StatusOf(B, A, u)
                   /\ ab[u].a = SideOf(store, A, u) /\ ab[u].b = SideOf(store, B, u)
                   /\ ba[u].a = SideOf(store, B, u) /\ ba[u].b = SideOf(store, A, u)
                   /\ ab[u].status = "changed" =>
                         ab[u].text = <<store.blobs[A[u].hash], store.blobs[B[u].hash]>>
    BY <1>2, <1>3, <1>6, <1>7 DEF EntryDiff
<1>8. ASSUME ab # Failed, EachOnce(a), EachOnce(b)
      PROVE  /\ Count(ab, "unchanged") = Cardinality(DOMAIN ab) <=> ReadsOf(a) = ReadsOf(b)
             /\ Count(ab, "unchanged") + Count(ab, "changed") + Count(ab, "removed")
                   = Len(a)
    <2>1. /\ DOMAIN ab = UnionUris(A, B)
          /\ \A u \in UnionUris(A, B) : ab[u].status = StatusOf(A, B, u)
        BY <1>7, <1>8 DEF U
    <2>2. /\ Count(ab, "unchanged") + Count(ab, "changed") + Count(ab, "removed")
                = Cardinality(DOMAIN A)
          /\ Count(ab, "unchanged") = Cardinality(DOMAIN ab)
                <=> \A u \in DOMAIN ab : ab[u].status = "unchanged"
        BY <1>4, <2>1, CountsAre
    <2>3. ReadsOf(a) = ReadsOf(b) <=>
             \A u \in UnionUris(A, B) : StatusOf(A, B, u) = "unchanged"
        BY <1>8, SameReads DEF A, B
    <2>4. Cardinality(DOMAIN A) = Len(a)
        BY <1>4, <1>8 DEF EachOnce
    <2> QED
        BY <2>1, <2>2, <2>3, <2>4
<1>9. ASSUME ab # Failed, EachOnce(a), EachOnce(b), ra # Failed, rb # Failed,
             NEW u \in U, ab[u].status = "changed"
      PROVE  ab[u].text = <<ra[ReplayOf(ra, u)].content, rb[ReplayOf(rb, u)].content>>
    <2>1. StatusOf(A, B, u) = "changed"
        BY <1>7, <1>9
    <2>2. u \in DOMAIN A /\ u \in DOMAIN B
        BY <2>1, StatusIs DEF U
    <2>3. ra[ReplayOf(ra, u)].content = store.blobs[A[u].hash]
        BY <1>4, <1>9, <2>2, ReplayOfIs DEF ra, A
    <2>4. rb[ReplayOf(rb, u)].content = store.blobs[B[u].hash]
        BY <1>4, <1>9, <2>2, ReplayOfIs DEF rb, B
    <2> QED
        BY <1>7, <1>9, <2>3, <2>4
<1> QED
    BY <1>5, <1>6, <1>7, <1>8, <1>9 DEF DiffIs, ab, ba, ra, rb
=============================================================================
