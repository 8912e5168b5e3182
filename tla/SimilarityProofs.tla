-------------------------- MODULE SimilarityProofs --------------------------
(***************************************************************************)
(* Proofs about the pairs, the lists of tokens and the distances of the    *)
(* similarity detector.                                                    *)
(***************************************************************************)
EXTENDS Similarity, InductionLemmas, SequenceTheorems

-----------------------------------------------------------------------------
(***************************************************************************)
(* The order of names.                                                     *)
(***************************************************************************)
Alphabet == ToSet(Letters) \cup {"-"}
Names == Seq(Alphabet)

\* The code of a character is its own.
LEMMA CodeIs ==
    /\ \A c \in Alphabet : Code(c) \in Nat
    /\ \A c, d \in Alphabet : Code(c) = Code(d) => c = d
<1>1. DOMAIN Letters = 1..26
    BY DEF Letters
<1>2. \A c \in ToSet(Letters) : \E i \in 1..26 : Letters[i] = c
    BY <1>1 DEF ToSet
<1>3. \A c \in ToSet(Letters) : c # "-" =>
        /\ Code(c) \in 1..26
        /\ Letters[Code(c)] = c
    BY <1>1, <1>2 DEF Code
<1>4. Code("-") = 0
    BY DEF Code
<1>5. \A c \in Alphabet : c = "-" \/ (c \in ToSet(Letters) /\ c # "-")
    BY DEF Alphabet
<1>6. ASSUME NEW c \in Alphabet, NEW d \in Alphabet, Code(c) = Code(d) PROVE c = d
    <2>1. CASE c = "-" \/ d = "-"
        BY <1>3, <1>4, <1>5, <1>6, <2>1
    <2>2. CASE c # "-" /\ d # "-"
        BY <1>3, <1>5, <1>6, <2>2
    <2> QED
        BY <2>1, <2>2
<1> QED
    BY <1>3, <1>4, <1>5, <1>6

\* No name is before itself.
LEMMA BeforeNotSelf ==
    ASSUME NEW s \in Names PROVE ~Before(s, s)
<1>1. Len(s) \in Nat /\ \A i \in 1..Len(s) : Code(s[i]) \in Nat
    BY CodeIs DEF Names
<1> QED
    BY <1>1 DEF Before

\* What decides is the first place where two names differ, or the end of the shorter.
LEMMA BeforeTransitive ==
    ASSUME NEW s \in Names, NEW t \in Names, NEW u \in Names, Before(s, t), Before(t, u)
    PROVE  Before(s, u)
<1>1. /\ Len(s) \in Nat /\ Len(t) \in Nat /\ Len(u) \in Nat
      /\ \A i \in 1..Len(s) : Code(s[i]) \in Nat
      /\ \A i \in 1..Len(t) : Code(t[i]) \in Nat
      /\ \A i \in 1..Len(u) : Code(u[i]) \in Nat
    BY CodeIs DEF Names
<1>2. PICK m \in 0..Len(s) : /\ m < Len(t) /\ \A i \in 1..m : s[i] = t[i]
                             /\ m = Len(s) \/ Code(s[m+1]) < Code(t[m+1])
    BY DEF Before
<1>3. PICK n \in 0..Len(t) : /\ n < Len(u) /\ \A i \in 1..n : t[i] = u[i]
                             /\ n = Len(t) \/ Code(t[n+1]) < Code(u[n+1])
    BY DEF Before
<1> DEFINE k == IF m <= n THEN m ELSE n
<1>4. k \in 0..Len(s) /\ k < Len(u) /\ \A i \in 1..k : s[i] = u[i]
    BY <1>1, <1>2, <1>3
<1>5. k = Len(s) \/ Code(s[k+1]) < Code(u[k+1])
    <2>1. CASE m < n
        <3>1. k = m /\ t[m+1] = u[m+1]
            BY <1>1, <1>3, <2>1
        <3> QED
            BY <1>2, <3>1
    <2>2. CASE m = n
        <3>1. k = m /\ m + 1 \in 1..Len(t) /\ m + 1 \in 1..Len(u) /\ n # Len(t)
            BY <1>1, <1>2, <1>3, <2>2
        <3>2. m # Len(s) => m + 1 \in 1..Len(s)
            BY <1>1
        <3> QED
            BY <1>1, <1>2, <1>3, <2>2, <3>1, <3>2
    <2>3. CASE m > n
        <3>1. k = n /\ s[n+1] = t[n+1] /\ n # Len(t)
            BY <1>1, <1>2, <1>3, <2>3
        <3> QED
            BY <1>3, <3>1
    <2> QED
        BY <1>1, <2>1, <2>2, <2>3
<1> QED
    BY <1>4, <1>5 DEF Before

\* Of two names one is before the other.
LEMMA BeforeTotal ==
    ASSUME NEW s \in Names, NEW t \in Names, s # t
    PROVE  Before(s, t) \/ Before(t, s)
<1>1. /\ Len(s) \in Nat /\ Len(t) \in Nat
      /\ \A i \in 1..Len(s) : s[i] \in Alphabet
      /\ \A i \in 1..Len(t) : t[i] \in Alphabet
    BY DEF Names
<1> DEFINE shorter == IF Len(s) <= Len(t) THEN Len(s) ELSE Len(t)
           D == {i \in 1..shorter : s[i] # t[i]}
<1>2. CASE D = {}
    <2>1. \A i \in 1..shorter : s[i] = t[i]
        BY <1>2
    <2>2. Len(s) # Len(t)
        <3>1. ASSUME Len(s) = Len(t) PROVE s = t
            BY <1>1, <2>1, <3>1, SeqEqual DEF Names
        <3> QED
            BY <3>1
    <2>3. CASE Len(s) < Len(t)
        BY <1>1, <2>1, <2>3 DEF Before
    <2>4. CASE Len(t) < Len(s)
        BY <1>1, <2>1, <2>4 DEF Before
    <2> QED
        BY <1>1, <2>2, <2>3, <2>4
<1>3. CASE D # {}
    <2>1. D \in SUBSET Nat
        BY <1>1
    <2>2. PICK d \in D : \A y \in D : d <= y
        BY <1>3, <2>1, Least
    <2>3. /\ d \in 1..Len(s) /\ d \in 1..Len(t) /\ s[d] # t[d]
          /\ \A i \in 1..d - 1 : s[i] = t[i]
        BY <1>1, <2>2
    <2>4. Code(s[d]) < Code(t[d]) \/ Code(t[d]) < Code(s[d])
        BY <1>1, <2>3, CodeIs
    <2>5. d - 1 \in 0..Len(s) /\ d - 1 < Len(t) /\ d - 1 \in 0..Len(t) /\ d - 1 < Len(s) /\ (d - 1) + 1 = d
        BY <1>1, <2>3
    <2> QED
        BY <2>3, <2>4, <2>5 DEF Before
<1> QED
    BY <1>2, <1>3

-----------------------------------------------------------------------------
(***************************************************************************)
(* Sums.                                                                   *)
(***************************************************************************)
PrefixSums(f, n, q) ==
    /\ q \in [0..n -> Int] /\ q[0] = 0
    /\ \A k \in 1..n : q[k] = q[k-1] + f[k]

\* The sum of a sequence of numbers, in whatever order they are taken, is the last of the
\* sums of its beginnings.
LEMMA SumIsLast ==
    ASSUME NEW n \in Nat, NEW f \in [1..n -> Int]
    PROVE  \E q : PrefixSums(f, n, q) /\ SumFunction(f) = q[n]
<1> DEFINE S == 1..n
           pick(s) == CHOOSE x \in s : TRUE
           Step(g) == [s \in SUBSET S |-> IF s = {} THEN 0 ELSE f[pick(s)] + g[s \ {pick(s)}]]
           it == CHOOSE g : g = Step(g)
           G == [p \in S \X Int |-> f[p[1]] + p[2]]
           P == [s \in SUBSET S |-> pick(s)]
<1>1. SumFunction(f) = it[S]
    BY DEF SumFunction, SumFunctionOnSet, FoldFunctionOnSet, MapThenFoldSet
<1>2. IsFiniteSet(S)
    BY FS_Interval
<1>3. G \in [S \X Int -> Int]
    OBVIOUS
<1>5. \A s : s # {} => pick(s) \in s
    OBVIOUS
<1> HIDE DEF pick
<1>4. PICK h : FoldsTo(h, S, Int, 0, G, P)
    <2>1. Picks(P, S)
        BY <1>5 DEF Picks
    <2> DEFINE zero == 0
               V == Int
    <2>2. zero \in V /\ G \in [S \X V -> V]
        BY <1>3
    <2> HIDE DEF G, S, P, zero, V
    <2>3. \E h : FoldsTo(h, S, V, zero, G, P)
        BY <1>2, <2>1, <2>2, FoldExists
    <2> QED
        BY <2>3 DEF zero, V
<1>6. h = Step(h)
    <2>1. \A s \in SUBSET S : h[s] = IF s = {} THEN 0 ELSE f[pick(s)] + h[s \ {pick(s)}]
        <3> SUFFICES ASSUME NEW s \in SUBSET S
                     PROVE  h[s] = IF s = {} THEN 0 ELSE f[pick(s)] + h[s \ {pick(s)}]
            OBVIOUS
        <3>2. h \in [SUBSET S -> Int] /\ h[s] = IF s = {} THEN 0 ELSE G[<<P[s], h[s \ {P[s]}]>>]
            BY <1>4, Zenon DEF FoldsTo
        <3>3. P[s] = pick(s)
            OBVIOUS
        <3>1. CASE s # {}
            <4>1. pick(s) \in S /\ s \ {pick(s)} \in SUBSET S
                BY <1>5, <3>1
            <4> HIDE DEF S, P
            <4> QED
                BY <3>1, <3>2, <3>3, <4>1
        <3>4. CASE s = {}
            BY <3>2, <3>4
        <3> QED
            BY <3>1, <3>4
    <2>2. h \in [SUBSET S -> Int]
        BY <1>4, Zenon DEF FoldsTo
    <2> HIDE DEF S
    <2> QED
        BY <2>1, <2>2
<1>7. it = Step(it)
    <2> HIDE DEF Step
    <2> QED
        BY <1>6
<1> HIDE DEF it, G
<1>8. /\ it[{}] = 0
      /\ \A s \in SUBSET S : s # {} => it[s] = f[pick(s)] + it[s \ {pick(s)}]
    <2> HIDE DEF S
    <2> QED
        BY <1>7
<1> HIDE DEF Step, S
<1>9. ASSUME NEW s \in SUBSET S PROVE it[s] \in Int
    <2> DEFINE T == {r \in SUBSET S : it[r] \notin Int}
    <2>1. SUFFICES ASSUME T # {} PROVE FALSE
        OBVIOUS
    <2>2. PICK m \in T : \A y \in T : y \subseteq m => y = m
        <3>1. T \in SUBSET SUBSET S
            OBVIOUS
        <3> HIDE DEF T
        <3> QED
            BY <1>2, <2>1, <3>1, MinimalSet
    <2>7. m \in SUBSET S /\ it[m] \notin Int
        BY <2>2
    <2>3. m # {}
        <3>1. it[{}] \in Int
            BY <1>8
        <3> QED
            BY <2>7, <3>1, Zenon
    <2>4. pick(m) \in S /\ m \ {pick(m)} \in SUBSET S /\ m \ {pick(m)} # m /\ m \ {pick(m)} \subseteq m
        BY <1>5, <2>2, <2>3
    <2>5. it[m \ {pick(m)}] \in Int
        BY <2>2, <2>4
    <2>6. f[pick(m)] \in Int
        BY <2>4 DEF S
    <2>8. it[m] = f[pick(m)] + it[m \ {pick(m)}]
        BY <1>8, <2>3, <2>7
    <2>9. f[pick(m)] + it[m \ {pick(m)}] \in Int
        BY <2>5, <2>6
    <2> QED
        BY <2>7, <2>8, <2>9, Zenon
<1>10. ASSUME NEW s \in SUBSET S, NEW x \in s PROVE it[s] = f[x] + it[s \ {x}]
    <2> DEFINE T == {r \in SUBSET S : \E y \in r : it[r] # f[y] + it[r \ {y}]}
    <2>1. SUFFICES ASSUME T # {} PROVE FALSE
        OBVIOUS
    <2>2. PICK m \in T : \A y \in T : y \subseteq m => y = m
        <3>1. T \in SUBSET SUBSET S
            OBVIOUS
        <3> HIDE DEF T
        <3> QED
            BY <1>2, <2>1, <3>1, MinimalSet
    <2>3. PICK y \in m : it[m] # f[y] + it[m \ {y}]
        BY <2>2
    <2> DEFINE c == pick(m)
    <2>4. c \in m /\ m \in SUBSET S /\ it[m] = f[c] + it[m \ {c}]
        BY <1>5, <1>8, <2>2, <2>3
    <2>5. c # y
        BY <2>3, <2>4
    <2>6. /\ m \ {c} \in SUBSET S /\ m \ {c} \subseteq m /\ m \ {c} # m /\ y \in m \ {c}
          /\ m \ {y} \in SUBSET S /\ m \ {y} \subseteq m /\ m \ {y} # m /\ c \in m \ {y}
        BY <2>4, <2>5
    <2>7. it[m \ {c}] = f[y] + it[(m \ {c}) \ {y}]
        BY <2>2, <2>6
    <2>8. it[m \ {y}] = f[c] + it[(m \ {y}) \ {c}]
        BY <2>2, <2>6
    <2>9. (m \ {c}) \ {y} = (m \ {y}) \ {c}
        OBVIOUS
    <2>10. f[c] \in Int /\ f[y] \in Int /\ it[(m \ {y}) \ {c}] \in Int
        <3>1. (m \ {y}) \ {c} \in SUBSET S /\ c \in S /\ y \in S
            BY <2>4, <2>6
        <3> QED
            BY <1>9, <3>1 DEF S
    <2>11. it[m] = f[c] + (f[y] + it[(m \ {y}) \ {c}])
        BY <2>4, <2>7, <2>9
    <2> HIDE DEF c
    <2> QED
        BY <2>3, <2>8, <2>10, <2>11
<1> DEFINE q == [k \in 0..n |-> it[1..k]]
<1>11. \A k \in 0..n : 1..k \in SUBSET S
    BY DEF S
<1>12. q \in [0..n -> Int]
    BY <1>9, <1>11
<1>13. q[0] = 0
    <2>1. 1..0 = {}
        OBVIOUS
    <2> QED
        BY <1>8, <2>1
<1>14. ASSUME NEW k \in 1..n PROVE q[k] = q[k-1] + f[k]
    <2>1. (1..k) \ {k} = 1..k - 1 /\ k \in 1..k /\ k - 1 \in 0..n /\ k \in 0..n
        OBVIOUS
    <2>2. it[1..k] = f[k] + it[1..k - 1]
        BY <1>10, <1>11, <2>1
    <2>3. f[k] \in Int /\ it[1..k - 1] \in Int
        BY <1>9, <1>11, <2>1
    <2> QED
        BY <2>1, <2>2, <2>3
<1>15. SumFunction(f) = q[n]
    BY <1>1 DEF S
<1> HIDE DEF q
<1> QED
    BY <1>12, <1>13, <1>14, <1>15 DEF PrefixSums

LEMMA SumIs ==
    ASSUME NEW n \in Nat, NEW f \in [1..n -> Int], NEW q, PrefixSums(f, n, q)
    PROVE  SumFunction(f) = q[n] /\ q[n] \in Int
<1>1. PICK p : PrefixSums(f, n, p) /\ SumFunction(f) = p[n]
    BY SumIsLast
<1>2. \A k \in 0..n : p[k] \in Int /\ q[k] \in Int
    BY <1>1 DEF PrefixSums
<1> DEFINE T == {k \in 0..n : p[k] # q[k]}
<1>3. ASSUME T # {} PROVE FALSE
    <2>1. T \in SUBSET Nat
        OBVIOUS
    <2>2. PICK k \in T : \A y \in T : k <= y
        <3> HIDE DEF T
        <3> QED
            BY <1>3, <2>1, Least
    <2>3. k # 0
        BY <1>1, <2>2 DEF PrefixSums
    <2>4. k - 1 \in 0..n /\ k \in 1..n /\ k - 1 \notin T
        BY <2>2, <2>3
    <2> QED
        BY <1>1, <2>2, <2>4 DEF PrefixSums
<1> QED
    BY <1>1, <1>2, <1>3

-----------------------------------------------------------------------------
(***************************************************************************)
(* The denominator of the frequencies.                                     *)
(***************************************************************************)
Positive == Nat \ {0}

LEMMA ProductPositive == \A a, b \in Positive : a * b \in Positive
<1>1. SUFFICES ASSUME NEW a \in Positive, NEW b \in Positive PROVE a * b \in Positive
    OBVIOUS
<1>2. a * b = 0 => FALSE
    BY DEF Positive
<1> QED
    BY <1>2 DEF Positive

\* Twice the total of every file that has tokens divides it.
LEMMA WholeIs ==
    ASSUME NEW n \in Nat, files \in [1..n -> Nat]
    PROVE  /\ Whole \in Positive
           /\ \A f \in 1..n : files[f] # 0 => \E q \in Positive : Whole = 2 * (files[f] * q)
<1> DEFINE S == 1..n
           pick(s) == CHOOSE x \in s : TRUE
           Times(k, p) == IF k = 0 THEN p ELSE k * p
           Step(g) == [s \in SUBSET S |->
                          IF s = {} THEN 1 ELSE Times(files[pick(s)], g[s \ {pick(s)}])]
           it == CHOOSE g : g = Step(g)
           G == [p \in S \X Positive |-> Times(files[p[1]], p[2])]
           P == [s \in SUBSET S |-> pick(s)]
<1>1. Whole = 2 * it[S]
    <2>1. FoldSeq(LAMBDA k, p : IF k = 0 THEN p ELSE k * p, 1, files) = it[S]
        BY DEF FoldSeq, FoldFunction, FoldFunctionOnSet, MapThenFoldSet
    <2> QED
        BY <2>1 DEF Whole
<1>2. IsFiniteSet(S)
    BY FS_Interval
<1>3. G \in [S \X Positive -> Positive]
    <2>1. \A x \in S, p \in Positive : Times(files[x], p) \in Positive
        <3> SUFFICES ASSUME NEW x \in S, NEW p \in Positive PROVE Times(files[x], p) \in Positive
            OBVIOUS
        <3>1. CASE files[x] = 0
            BY <3>1
        <3>2. CASE files[x] # 0
            <4>1. files[x] \in Positive
                BY <3>2 DEF Positive
            <4> QED
                BY <3>2, <4>1, ProductPositive
        <3> QED
            BY <3>1, <3>2
    <2> HIDE DEF S, Times
    <2> QED
        BY <2>1
<1>5. \A s : s # {} => pick(s) \in s
    OBVIOUS
<1> HIDE DEF pick
<1>4. PICK h : FoldsTo(h, S, Positive, 1, G, P)
    <2>1. Picks(P, S)
        BY <1>5 DEF Picks
    <2> DEFINE one == 1
    <2>2. one \in Positive
        BY DEF Positive
    <2> HIDE DEF G, S, P, one
    <2>3. \E h : FoldsTo(h, S, Positive, one, G, P)
        BY <1>2, <1>3, <2>1, <2>2, FoldExists
    <2> QED
        BY <2>3 DEF one
<1> HIDE DEF Times
<1>6. h = Step(h)
    <2>0. h \in [SUBSET S -> Positive]
        BY <1>4, Zenon DEF FoldsTo
    <2>1. ASSUME NEW s \in SUBSET S
          PROVE  h[s] = IF s = {} THEN 1 ELSE Times(files[pick(s)], h[s \ {pick(s)}])
        <3>2. h[s] = IF s = {} THEN 1 ELSE G[<<P[s], h[s \ {P[s]}]>>]
            BY <1>4, Zenon DEF FoldsTo
        <3>3. P[s] = pick(s)
            OBVIOUS
        <3>1. CASE s # {}
            <4>1. pick(s) \in S /\ s \ {pick(s)} \in SUBSET S
                BY <1>5, <3>1
            <4>2. h[s \ {pick(s)}] \in Positive
                BY <2>0, <4>1
            <4> HIDE DEF S, P
            <4> QED
                BY <3>1, <3>2, <3>3, <4>1, <4>2
        <3>4. CASE s = {}
            BY <3>2, <3>4
        <3> QED
            BY <3>1, <3>4
    <2> HIDE DEF S
    <2> QED
        BY <2>0, <2>1
<1>7. it = Step(it)
    <2> HIDE DEF Step
    <2> QED
        BY <1>6
<1> HIDE DEF it, G
<1>8. /\ it[{}] = 1
      /\ \A s \in SUBSET S : s # {} => it[s] = Times(files[pick(s)], it[s \ {pick(s)}])
    <2> HIDE DEF S
    <2> QED
        BY <1>7
<1> HIDE DEF Step, S
<1> DEFINE Divides(s) == /\ it[s] \in Positive
                         /\ \A f \in s : files[f] # 0 => \E q \in Positive : it[s] = files[f] * q
<1>9. ASSUME NEW s \in SUBSET S PROVE Divides(s)
    <2> DEFINE T == {r \in SUBSET S : ~Divides(r)}
    <2> HIDE DEF Divides
    <2>1. SUFFICES ASSUME T # {} PROVE FALSE
        OBVIOUS
    <2>2. PICK m \in T : \A y \in T : y \subseteq m => y = m
        <3>1. T \in SUBSET SUBSET S
            OBVIOUS
        <3> HIDE DEF T
        <3> QED
            BY <1>2, <2>1, <3>1, MinimalSet
    <2>3. m \in SUBSET S /\ ~Divides(m)
        BY <2>2
    <2>4. CASE m = {}
        <3>1. it[{}] \in Positive
            BY <1>8 DEF Positive
        <3>2. Divides({})
            BY <3>1 DEF Divides
        <3> QED
            BY <2>3, <2>4, <3>2
    <2>5. CASE m # {}
        <3> DEFINE c == pick(m)
                   rest == m \ {c}
        <3>1. c \in S /\ c \in m /\ rest \in SUBSET S /\ rest # m /\ rest \subseteq m
            BY <1>5, <2>3, <2>5
        <3>2. Divides(rest)
            BY <2>2, <3>1
        <3>3. it[m] = Times(files[c], it[rest])
            BY <1>8, <2>3, <2>5
        <3>4. files[c] \in Nat
            BY <3>1 DEF S
        <3>5. \A f \in m : f = c \/ f \in rest
            OBVIOUS
        <3> HIDE DEF c, rest
        <3>6. it[rest] \in Positive /\ \A f \in rest : files[f] # 0 => \E q \in Positive : it[rest] = files[f] * q
            BY <3>2 DEF Divides
        <3>7. CASE files[c] = 0
            <4>1. it[m] = it[rest]
                BY <3>3, <3>7 DEF Times
            <4>2. Divides(m)
                BY <3>5, <3>6, <3>7, <4>1 DEF Divides
            <4> QED
                BY <2>3, <4>2
        <3>8. CASE files[c] # 0
            <4>1. it[m] = files[c] * it[rest] /\ files[c] \in Positive
                BY <3>3, <3>4, <3>8 DEF Times, Positive
            <4>2. it[m] \in Positive
                BY <3>6, <4>1, ProductPositive
            <4>3. ASSUME NEW f \in rest, files[f] # 0 PROVE \E q \in Positive : it[m] = files[f] * q
                <5>1. PICK q \in Positive : it[rest] = files[f] * q
                    BY <3>6, <4>3
                <5>2. files[f] \in Nat
                    BY <3>1, <4>3 DEF S
                <5>3. files[c] * q \in Positive
                    BY <4>1, ProductPositive
                <5>4. files[c] * (files[f] * q) = files[f] * (files[c] * q)
                    BY <4>1, <5>2 DEF Positive
                <5> QED
                    BY <4>1, <5>1, <5>3, <5>4
            <4>4. \A f \in m : files[f] # 0 => \E q \in Positive : it[m] = files[f] * q
                BY <3>5, <3>6, <4>1, <4>3
            <4> QED
                BY <2>3, <4>2, <4>4 DEF Divides
        <3> QED
            BY <3>4, <3>7, <3>8
    <2> QED
        BY <2>4, <2>5
<1>10. Divides(S)
    BY <1>9
<1>11. Whole \in Positive
    BY <1>1, <1>10 DEF Positive
<1>12. ASSUME NEW f \in 1..n, files[f] # 0 PROVE \E q \in Positive : Whole = 2 * (files[f] * q)
    <2>1. \E q \in Positive : it[S] = files[f] * q
        BY <1>10, <1>12 DEF S
    <2> QED
        BY <1>1, <2>1
<1> QED
    BY <1>11, <1>12

\* So the frequency of one token, which is never 0, has a half, and all of them are a whole.
LEMMA Scale ==
    ASSUME NEW n \in Nat, files \in [1..n -> Nat], NEW f \in 1..n, files[f] # 0
    PROVE  /\ \E q \in Positive : Whole \div files[f] = 2 * q
           /\ Whole \div files[f] \in Positive
           /\ files[f] * (Whole \div files[f]) = Whole
<1>1. PICK q \in Positive : Whole = 2 * (files[f] * q)
    BY WholeIs
<1>2. files[f] \in Positive /\ 2 * q \in Positive
    BY DEF Positive
<1>3. Whole = files[f] * (2 * q)
    BY <1>1, <1>2 DEF Positive
<1>4. \A a, b \in Positive : (a * b) \div a = b
    <2> SUFFICES ASSUME NEW a \in Positive, NEW b \in Positive PROVE (a * b) \div a = b
        OBVIOUS
    <2> QED
        BY DEF Positive
<1>5. Whole \div files[f] = 2 * q
    BY <1>2, <1>3, <1>4
<1> QED
    BY <1>2, <1>3, <1>5

-----------------------------------------------------------------------------
(***************************************************************************)
(* The insertions.                                                         *)
(***************************************************************************)
Nodes == [name : Names, val : Positive]

LEMMA NodeIs ==
    ASSUME NEW list \in Seq(Nodes)
    PROVE  /\ Len(list) \in Nat /\ DOMAIN list = 1..Len(list)
           /\ \A i \in 1..Len(list) :
                 /\ list[i] \in Nodes /\ list[i].name \in Names
                 /\ list[i].val \in Positive /\ list[i].val \in Nat /\ list[i].val > 0
                 /\ list[i] = [name |-> list[i].name, val |-> list[i].val]
<1>1. \A node \in Nodes : /\ node.name \in Names /\ node.val \in Positive
                          /\ node.val \in Nat /\ node.val > 0
                          /\ node = [name |-> node.name, val |-> node.val]
    BY DEF Nodes, Positive
<1>2. \A i \in 1..Len(list) : list[i] \in Nodes
    OBVIOUS
<1> QED
    BY <1>1, <1>2

\* A number more is as much more in the sum.
LEMMA SumInsert ==
    ASSUME NEW n \in Nat, NEW f \in [1..n -> Int], NEW g \in [1..n + 1 -> Int],
           NEW i \in 1..n + 1, NEW d \in Int, g[i] = d,
           \A k \in 1..i - 1 : g[k] = f[k],
           \A k \in i + 1..n + 1 : g[k] = f[k-1]
    PROVE  SumFunction(g) = SumFunction(f) + d /\ SumFunction(f) \in Int
<1>1. PICK q : PrefixSums(f, n, q) /\ SumFunction(f) = q[n]
    BY SumIsLast
<1>2. q \in [0..n -> Int] /\ q[0] = 0 /\ \A k \in 1..n : q[k] = q[k-1] + f[k]
    BY <1>1 DEF PrefixSums
<1> DEFINE p == [k \in 0..n + 1 |-> IF k < i THEN q[k] ELSE q[k-1] + d]
<1>3. \A k \in 0..n + 1 : (k < i => k \in 0..n) /\ (k >= i => k - 1 \in 0..n)
    OBVIOUS
<1>4. p \in [0..n + 1 -> Int] /\ p[0] = 0
    <2>1. ASSUME NEW k \in 0..n + 1 PROVE (IF k < i THEN q[k] ELSE q[k-1] + d) \in Int
        <3>1. k < i => q[k] \in Int
            BY <1>2, <1>3
        <3>2. k >= i => q[k-1] \in Int
            BY <1>2, <1>3
        <3> QED
            BY <3>1, <3>2
    <2>2. p[0] = q[0]
        OBVIOUS
    <2> QED
        BY <1>2, <2>1, <2>2
<1>5. ASSUME NEW k \in 1..n + 1 PROVE p[k] = p[k-1] + g[k]
    <2>1. CASE k < i
        <3>1. k \in 1..n /\ k \in 1..i - 1 /\ k - 1 \in 0..n + 1 /\ k - 1 < i
            BY <2>1
        <3> QED
            BY <1>2, <2>1, <3>1
    <2>2. CASE k = i
        <3>1. k - 1 \in 0..n + 1 /\ k - 1 < i
            BY <2>2
        <3> QED
            BY <1>2, <2>2, <3>1
    <2>3. CASE k > i
        <3>1. k \in i + 1..n + 1 /\ k - 1 \in 1..n /\ k - 1 \in 0..n + 1 /\ k - 1 >= i /\ ~(k < i)
              /\ ~(k - 1 < i) /\ (k - 1) - 1 \in 0..n
            BY <2>3
        <3>2. q[k-1] = q[(k-1)-1] + f[k-1] /\ g[k] = f[k-1]
            BY <1>2, <3>1
        <3>3. q[(k-1)-1] \in Int /\ f[k-1] \in Int
            BY <1>2, <3>1
        <3>4. p[k] = q[k-1] + d
            BY <3>1
        <3>5. p[k-1] = q[(k-1)-1] + d
            BY <3>1
        <3> HIDE DEF p
        <3>6. PICK x \in Int, y \in Int : x = q[(k-1)-1] /\ y = f[k-1]
            BY <3>3
        <3>7. p[k] = (x + y) + d /\ p[k-1] = x + d /\ g[k] = y
            BY <3>2, <3>4, <3>5, <3>6
        <3> QED
            BY <3>6, <3>7
    <2> QED
        BY <2>1, <2>2, <2>3
<1>6. SumFunction(g) = p[n + 1]
    <2>1. PrefixSums(g, n + 1, p)
        BY <1>4, <1>5 DEF PrefixSums
    <2> HIDE DEF p
    <2> QED
        BY <2>1, SumIs
<1>7. p[n + 1] = q[n] + d
    <2>1. ~(n + 1 < i) /\ (n + 1) - 1 = n
        OBVIOUS
    <2> QED
        BY <2>1
<1> QED
    BY <1>1, <1>2, <1>6, <1>7

LEMMA SumChange ==
    ASSUME NEW n \in Nat, NEW f \in [1..n -> Int], NEW g \in [1..n -> Int],
           NEW i \in 1..n, NEW d \in Int, g[i] = f[i] + d,
           \A k \in 1..n : k # i => g[k] = f[k]
    PROVE  SumFunction(g) = SumFunction(f) + d /\ SumFunction(f) \in Int
<1>1. PICK q : PrefixSums(f, n, q) /\ SumFunction(f) = q[n]
    BY SumIsLast
<1>2. q \in [0..n -> Int] /\ q[0] = 0 /\ \A k \in 1..n : q[k] = q[k-1] + f[k]
    BY <1>1 DEF PrefixSums
<1> DEFINE p == [k \in 0..n |-> IF k < i THEN q[k] ELSE q[k] + d]
<1>3. p \in [0..n -> Int] /\ p[0] = 0
    <2>1. \A k \in 0..n : q[k] \in Int
        BY <1>2
    <2>2. \A k \in 0..n : (IF k < i THEN q[k] ELSE q[k] + d) \in Int
        BY <2>1
    <2>3. p[0] = q[0]
        OBVIOUS
    <2> QED
        BY <1>2, <2>2, <2>3
<1>4. ASSUME NEW k \in 1..n PROVE p[k] = p[k-1] + g[k]
    <2>1. k - 1 \in 0..n /\ q[k-1] \in Int /\ f[k] \in Int /\ q[k] = q[k-1] + f[k]
        BY <1>2
    <2>2. CASE k < i
        BY <2>1, <2>2
    <2>3. CASE k = i
        BY <2>1, <2>3
    <2>4. CASE k > i
        <3>1. k # i /\ ~(k < i) /\ ~(k - 1 < i)
            BY <2>4
        <3>2. p[k] = q[k] + d /\ p[k-1] = q[k-1] + d /\ g[k] = f[k]
            <4>1. p[k] = q[k] + d
                BY <3>1
            <4>2. p[k-1] = q[k-1] + d
                BY <2>1, <3>1
            <4>3. g[k] = f[k]
                BY <3>1
            <4> QED
                BY <4>1, <4>2, <4>3
        <3> QED
            BY <2>1, <3>2
    <2> QED
        BY <2>2, <2>3, <2>4
<1>5. SumFunction(g) = p[n]
    <2>1. PrefixSums(g, n, p)
        BY <1>3, <1>4 DEF PrefixSums
    <2> HIDE DEF p
    <2> QED
        BY <2>1, SumIs
<1> QED
    BY <1>1, <1>2, <1>5

LEMMA InsertAtIs ==
    ASSUME NEW T, NEW s \in Seq(T), NEW i \in 1..Len(s) + 1, NEW e \in T
    PROVE  /\ InsertAt(s, i, e) \in Seq(T)
           /\ Len(InsertAt(s, i, e)) = Len(s) + 1
           /\ \A k \in 1..Len(s) + 1 :
                 InsertAt(s, i, e)[k] = IF k < i THEN s[k] ELSE IF k = i THEN e ELSE s[k-1]
<1> DEFINE before == SubSeq(s, 1, i - 1)
           after == SubSeq(s, i, Len(s))
<1>1. /\ before \in Seq(T) /\ Len(before) = i - 1 /\ \A k \in 1..i - 1 : before[k] = s[k]
      /\ after \in Seq(T) /\ Len(after) = Len(s) + 1 - i
      /\ \A k \in 1..Len(s) + 1 - i : after[k] = s[i + k - 1]
    OBVIOUS
<1>2. InsertAt(s, i, e) = before \o <<e>> \o after
    BY DEF InsertAt
<1> HIDE DEF before, after
<1>3. /\ before \o <<e>> \in Seq(T) /\ Len(before \o <<e>>) = i
      /\ \A k \in 1..i : (before \o <<e>>)[k] = IF k < i THEN s[k] ELSE e
    BY <1>1
<1> DEFINE both == before \o <<e>>
<1> HIDE DEF both
<1>4. /\ both \in Seq(T) /\ Len(both) = i
      /\ \A k \in 1..i : both[k] = IF k < i THEN s[k] ELSE e
    BY <1>3 DEF both
<1>5. /\ both \o after \in Seq(T) /\ Len(both \o after) = Len(s) + 1
      /\ \A k \in 1..Len(s) + 1 : (both \o after)[k] = IF k <= i THEN both[k] ELSE after[k - i]
    <2>1. i \in Nat /\ Len(s) \in Nat /\ i <= Len(s) + 1
        OBVIOUS
    <2>2. Len(both \o after) = Len(both) + Len(after)
          /\ \A k \in 1..Len(both) + Len(after) :
                (both \o after)[k] = IF k <= Len(both) THEN both[k] ELSE after[k - Len(both)]
        BY <1>1, <1>4, ConcatProperties
    <2>3. Len(both) + Len(after) = Len(s) + 1
        BY <1>1, <1>4, <2>1
    <2>4. both \o after \in Seq(T)
        BY <1>1, <1>4
    <2> QED
        BY <1>4, <2>2, <2>3, <2>4
<1>6. \A k \in 1..Len(s) + 1 : k > i => after[k - i] = s[k-1]
    BY <1>1
<1>7. InsertAt(s, i, e) = both \o after
    BY <1>2 DEF both
<1> HIDE DEF both
<1> QED
    BY <1>4, <1>5, <1>6, <1>7

\* What is in front of the place is before the name, and what is there is not.
LEMMA PlaceIs ==
    ASSUME NEW list \in Seq(Nodes), NEW name
    PROVE  /\ Place(list, name) \in 1..Len(list) + 1
           /\ \A j \in 1..Place(list, name) - 1 : Before(list[j].name, name)
           /\ Place(list, name) <= Len(list) => ~Before(list[Place(list, name)].name, name)
<1> DEFINE stops == {i \in DOMAIN list : ~Before(list[i].name, name)}
           least == CHOOSE i \in stops : \A j \in stops : i <= j
<1>1. DOMAIN list = 1..Len(list) /\ Len(list) \in Nat
    OBVIOUS
<1>2. Place(list, name) = IF stops = {} THEN Len(list) + 1 ELSE least
    BY DEF Place
<1>3. CASE stops = {}
    BY <1>1, <1>2, <1>3
<1>4. CASE stops # {}
    <2>1. stops \in SUBSET Nat
        BY <1>1
    <2>2. \E i \in stops : \A j \in stops : i <= j
        <3> HIDE DEF stops
        <3> QED
            BY <1>4, <2>1, Least
    <2>3. least \in stops /\ \A j \in stops : least <= j
        <3> HIDE DEF stops
        <3> QED
            BY <2>2
    <2> HIDE DEF least
    <2>4. \A j \in 1..least - 1 : j \in DOMAIN list /\ j \notin stops
        BY <1>1, <2>3
    <2> QED
        BY <1>1, <1>2, <1>4, <2>3, <2>4
<1> QED
    BY <1>3, <1>4

\* Both insertions add a value to that of a name.
Added(list, name, d) ==
    LET i == Place(list, name)
    IN  IF Found(list, i, name)
        THEN [list EXCEPT ![i].val = @ + d]
        ELSE InsertAt(list, i, [name |-> name, val |-> d])

NamesOf(list) == {list[i].name : i \in 1..Len(list)}

\* The sum of the values of some names.
SumOf(list, W) ==
    SumFunction([i \in 1..Len(list) |-> IF list[i].name \in W THEN list[i].val ELSE 0])

LEMMA InsertionsAdd ==
    ASSUME NEW list \in Seq(Nodes)
    PROVE  /\ \A name \in Names : insertToken(list, name) = Added(list, name, 1)
           /\ \A node \in Nodes : insertMeanNode(list, node) = Added(list, node.name, node.val)
<1>1. \A node \in Nodes : node = [name |-> node.name, val |-> node.val]
    BY DEF Nodes
<1>2. ASSUME NEW node \in Nodes
      PROVE  insertMeanNode(list, node) = Added(list, node.name, node.val)
    <2>1. node = [name |-> node.name, val |-> node.val]
        BY <1>1
    <2> QED
        BY <2>1, Zenon DEF insertMeanNode, Added
<1> QED
    BY <1>2 DEF insertToken, Added

LEMMA SumsOf ==
    ASSUME NEW list \in Seq(Nodes)
    PROVE  /\ Total(list) = SumOf(list, Names)
           /\ \A name \in Names : ValueOf(list, name) = SumOf(list, {name})
           /\ \A W : SumOf(list, W) \in Int
<1>1. DOMAIN list = 1..Len(list) /\ Len(list) \in Nat
      /\ \A i \in 1..Len(list) : list[i].name \in Names /\ list[i].val \in Positive
    BY NodeIs
<1>2. [i \in DOMAIN list |-> list[i].val]
         = [i \in 1..Len(list) |-> IF list[i].name \in Names THEN list[i].val ELSE 0]
    BY <1>1
<1>3. ASSUME NEW name \in Names
      PROVE  [i \in DOMAIN list |-> IF list[i].name = name THEN list[i].val ELSE 0]
                = [i \in 1..Len(list) |-> IF list[i].name \in {name} THEN list[i].val ELSE 0]
    BY <1>1
<1>4. ASSUME NEW W PROVE SumOf(list, W) \in Int
    <2> DEFINE f == [i \in 1..Len(list) |-> IF list[i].name \in W THEN list[i].val ELSE 0]
    <2>1. f \in [1..Len(list) -> Int]
        BY <1>1 DEF Positive
    <2> HIDE DEF f
    <2>2. PICK q : PrefixSums(f, Len(list), q) /\ SumFunction(f) = q[Len(list)]
        BY <1>1, <2>1, SumIsLast
    <2>3. SumFunction(f) \in Int
        BY <1>1, <2>1, <2>2 DEF PrefixSums
    <2> QED
        BY <2>3 DEF SumOf, f
<1>5. Total(list) = SumOf(list, Names)
    BY <1>2, Zenon DEF Total, SumOf
<1>6. \A name \in Names : ValueOf(list, name) = SumOf(list, {name})
    BY <1>3, Zenon DEF ValueOf, SumOf
<1> QED
    BY <1>4, <1>5, <1>6

\* An insertion keeps a list alphabetical, which excludes repeats, and adds the value to that
\* of its name and to no other.
LEMMA AddedIs ==
    ASSUME NEW list \in Seq(Nodes), Alphabetical(list), NEW name \in Names, NEW d \in Positive
    PROVE  /\ Added(list, name, d) \in Seq(Nodes)
           /\ Alphabetical(Added(list, name, d))
           /\ NamesOf(Added(list, name, d)) = NamesOf(list) \cup {name}
           /\ \A W : SumOf(Added(list, name, d), W)
                        = SumOf(list, W) + (IF name \in W THEN d ELSE 0)
<1> DEFINE n == Len(list)
           i == Place(list, name)
           r == Added(list, name, d)
           fun(l, W) == [k \in 1..Len(l) |-> IF l[k].name \in W THEN l[k].val ELSE 0]
           more(W) == IF name \in W THEN d ELSE 0
<1>1. /\ n \in Nat /\ DOMAIN list = 1..n /\ d \in Nat
      /\ \A k \in 1..n : list[k] \in Nodes /\ list[k].name \in Names /\ list[k].val \in Positive
                         /\ list[k].val \in Nat
    BY NodeIs DEF Positive
<1>2. /\ i \in 1..n + 1
      /\ \A j \in 1..i - 1 : Before(list[j].name, name)
      /\ i <= n => ~Before(list[i].name, name)
    BY PlaceIs
<1>3. \A j, k \in 1..n : j < k => Before(list[j].name, list[k].name)
    BY <1>1 DEF Alphabetical
<1>4. \A W : more(W) \in Int
    BY <1>1
<1>5. \A W : fun(list, W) \in [1..n -> Int]
    BY <1>1
<1>6. \A l, W : SumOf(l, W) = SumFunction(fun(l, W))
    BY DEF SumOf
<1> HIDE DEF n, i
<1>7. CASE Found(list, i, name)
    <2>1. i \in 1..n /\ list[i].name = name
        BY <1>1, <1>2, <1>7 DEF Found, n
    <2> DEFINE node == [name |-> name, val |-> list[i].val + d]
    <2>2. r = [list EXCEPT ![i] = [list[i] EXCEPT !.val = @ + d]]
        BY <1>7 DEF Added, i
    <2>3. [list[i] EXCEPT !.val = @ + d] = node
        BY <1>1, <2>1 DEF Nodes
    <2>4. r = [list EXCEPT ![i] = node]
        BY <2>2, <2>3
    <2>5. node \in Nodes
        BY <1>1, <2>1 DEF Nodes, Positive
    <2>6. node.name = name /\ node.val = list[i].val + d
        OBVIOUS
    <2> HIDE DEF r, node
    <2>7. /\ r \in Seq(Nodes) /\ Len(r) = n /\ DOMAIN r = 1..n /\ r[i] = node
          /\ \A k \in 1..n : k # i => r[k] = list[k]
        BY <1>1, <2>1, <2>4, <2>5 DEF n
    <2>8. \A k \in 1..n : r[k].name = list[k].name
        BY <2>1, <2>6, <2>7
    <2>9. Alphabetical(r)
        BY <1>3, <2>7, <2>8 DEF Alphabetical
    <2>10. NamesOf(r) = NamesOf(list) \cup {name}
        BY <2>1, <2>7, <2>8 DEF NamesOf, n
    <2>11. ASSUME NEW W PROVE SumOf(r, W) = SumOf(list, W) + more(W)
        <3> DEFINE f == fun(list, W)
                   g == fun(r, W)
                   m == more(W)
        <3>1. f \in [1..n -> Int] /\ m \in Int
            BY <1>4, <1>5
        <3>2. g = [k \in 1..n |-> IF list[k].name \in W THEN r[k].val ELSE 0]
            BY <2>7, <2>8
        <3>3. f = [k \in 1..n |-> IF list[k].name \in W THEN list[k].val ELSE 0]
            BY DEF n
        <3>4. g[i] = f[i] + m
            BY <1>1, <2>1, <2>6, <2>7, <3>2, <3>3
        <3>5. \A k \in 1..n : k # i => g[k] = f[k]
            BY <2>7, <3>2, <3>3
        <3>6. g \in [1..n -> Int]
            <4>1. \A k \in 1..n : g[k] \in Int
                <5> HIDE DEF f, g, m
                <5> QED
                    BY <2>1, <3>1, <3>4, <3>5
            <4>2. DOMAIN g = 1..n /\ g = [k \in 1..n |-> g[k]]
                BY <3>2
            <4> HIDE DEF g
            <4> QED
                BY <4>1, <4>2
        <3> HIDE DEF f, g, m, fun, more
        <3>7. SumFunction(g) = SumFunction(f) + m
            BY <1>1, <2>1, <3>1, <3>4, <3>5, <3>6, SumChange
        <3> QED
            BY <1>6, <3>7 DEF f, g, m
    <2> HIDE DEF fun, more
    <2> QED
        BY <2>7, <2>9, <2>10, <2>11 DEF r, more
<1>8. CASE ~Found(list, i, name)
    <2> DEFINE node == [name |-> name, val |-> d]
    <2>1. r = InsertAt(list, i, node)
        BY <1>8 DEF Added, i
    <2>2. node \in Nodes /\ node.name = name /\ node.val = d
        BY DEF Nodes
    <2>3. i <= n => Before(name, list[i].name)
        <3>1. ASSUME i <= n PROVE i \in 1..n /\ list[i].name # name
            BY <1>1, <1>2, <1>8, <3>1 DEF Found, n
        <3> QED
            BY <1>1, <1>2, <3>1, BeforeTotal
    <2>4. \A j \in i..n : Before(name, list[j].name)
        <3> SUFFICES ASSUME NEW j \in i..n PROVE Before(name, list[j].name)
            OBVIOUS
        <3>1. i \in 1..n /\ j \in 1..n
            BY <1>1, <1>2
        <3>2. CASE i = j
            BY <2>3, <3>1, <3>2
        <3>3. CASE i # j
            <4>1. Before(list[i].name, list[j].name)
                BY <1>3, <3>1, <3>3
            <4> QED
                BY <1>1, <2>3, <3>1, <4>1, BeforeTransitive
        <3> QED
            BY <3>2, <3>3
    <2> HIDE DEF r, node
    <2>5. /\ r \in Seq(Nodes) /\ Len(r) = n + 1
          /\ \A k \in 1..n + 1 : r[k] = IF k < i THEN list[k] ELSE IF k = i THEN node ELSE list[k-1]
        <3>1. i \in 1..Len(list) + 1
            BY <1>2 DEF n
        <3>2. /\ InsertAt(list, i, node) \in Seq(Nodes)
              /\ Len(InsertAt(list, i, node)) = Len(list) + 1
              /\ \A k \in 1..Len(list) + 1 :
                    InsertAt(list, i, node)[k]
                       = IF k < i THEN list[k] ELSE IF k = i THEN node ELSE list[k-1]
            <4>1. node \in Nodes /\ list \in Seq(Nodes)
                BY <2>2
            <4> QED
                BY <3>1, <4>1, InsertAtIs
        <3> QED
            BY <2>1, <3>2 DEF n
    <2>6. DOMAIN r = 1..n + 1
        BY <2>5
    <2>7. \A k \in 1..n + 1 : /\ k < i => k \in 1..i - 1 /\ k \in 1..n /\ r[k] = list[k]
                              /\ k > i => k - 1 \in i..n /\ k - 1 \in 1..n /\ r[k] = list[k-1]
                              /\ k = i => r[k] = node
        BY <1>1, <1>2, <2>5
    <2>8. Alphabetical(r)
        <3> SUFFICES ASSUME NEW j \in 1..n + 1, NEW k \in 1..n + 1, j < k
                     PROVE  Before(r[j].name, r[k].name)
            BY <2>6 DEF Alphabetical
        <3>1. CASE k < i
            BY <1>2, <1>3, <2>7, <3>1
        <3>2. CASE k = i
            BY <1>2, <2>2, <2>7, <3>2
        <3>3. CASE k > i
            <4>1. CASE j < i
                <5>1. j \in 1..n /\ k - 1 \in 1..n /\ j < k - 1 /\ r[j] = list[j] /\ r[k] = list[k-1]
                    BY <1>2, <2>7, <3>3, <4>1
                <5> QED
                    BY <1>3, <5>1
            <4>2. CASE j = i
                BY <2>2, <2>4, <2>7, <3>3, <4>2
            <4>3. CASE j > i
                <5>1. j - 1 \in 1..n /\ k - 1 \in 1..n /\ j - 1 < k - 1 /\ r[j] = list[j-1] /\ r[k] = list[k-1]
                    BY <2>7, <3>3, <4>3
                <5> QED
                    BY <1>3, <5>1
            <4> QED
                BY <1>2, <4>1, <4>2, <4>3
        <3> QED
            BY <1>2, <3>1, <3>2, <3>3
    <2>9. NamesOf(r) = NamesOf(list) \cup {name}
        <3>1. \A k \in 1..n : \E j \in 1..n + 1 : r[j] = list[k]
            <4> SUFFICES ASSUME NEW k \in 1..n PROVE \E j \in 1..n + 1 : r[j] = list[k]
                OBVIOUS
            <4>1. CASE k < i
                <5>1. k \in 1..n + 1
                    BY <1>1
                <5> QED
                    BY <2>7, <4>1, <5>1
            <4>2. CASE k >= i
                <5>1. k + 1 \in 1..n + 1 /\ k + 1 > i /\ (k + 1) - 1 = k
                    BY <1>1, <1>2, <4>2
                <5> QED
                    BY <2>7, <5>1
            <4> QED
                BY <1>2, <4>1, <4>2
        <3>2. \A j \in 1..n + 1 : r[j] = node \/ \E k \in 1..n : r[j] = list[k]
            BY <1>2, <2>7
        <3>3. r[i] = node
            BY <1>2, <2>7
        <3> QED
            <4>1. NamesOf(r) = {r[k].name : k \in 1..n + 1} /\ NamesOf(list) = {list[k].name : k \in 1..n}
                BY <2>5 DEF NamesOf, n
            <4>2. \A k \in 1..n : list[k].name \in NamesOf(r)
                BY <3>1, <4>1
            <4>3. name \in NamesOf(r)
                BY <1>2, <2>2, <3>3, <4>1
            <4>4. \A j \in 1..n + 1 : r[j].name \in NamesOf(list) \cup {name}
                BY <2>2, <3>2, <4>1
            <4> QED
                BY <4>1, <4>2, <4>3, <4>4
    <2>10. ASSUME NEW W PROVE SumOf(r, W) = SumOf(list, W) + more(W)
        <3> DEFINE f == fun(list, W)
                   g == fun(r, W)
                   m == more(W)
        <3>1. f \in [1..n -> Int] /\ m \in Int
            BY <1>4, <1>5
        <3>2. g = [k \in 1..n + 1 |-> IF r[k].name \in W THEN r[k].val ELSE 0]
            BY <2>5
        <3>3. f = [k \in 1..n |-> IF list[k].name \in W THEN list[k].val ELSE 0]
            BY DEF n
        <3>4. g[i] = m
            BY <1>2, <2>2, <2>7, <3>2
        <3>5. /\ \A k \in 1..i - 1 : g[k] = f[k]
              /\ \A k \in i + 1..n + 1 : g[k] = f[k-1]
            BY <1>1, <1>2, <2>7, <3>2, <3>3
        <3>6. g \in [1..n + 1 -> Int]
            <4>1. \A k \in 1..n + 1 : r[k].val \in Int
                <5>1. \A k \in 1..n + 1 : r[k] \in Nodes
                    BY <1>1, <2>5, <2>6, ElementOfSeq
                <5> QED
                    BY <5>1 DEF Nodes, Positive
            <4> QED
                BY <3>2, <4>1
        <3> HIDE DEF f, g, m, fun, more
        <3>7. SumFunction(g) = SumFunction(f) + m
            <4>1. n \in Nat /\ i \in 1..n + 1
                BY <1>1, <1>2
            <4> QED
                BY <3>1, <3>4, <3>5, <3>6, <4>1, SumInsert
        <3> QED
            BY <1>6, <3>7 DEF f, g, m
    <2> HIDE DEF fun, more
    <2> QED
        BY <2>5, <2>8, <2>9, <2>10 DEF r, more
<1> QED
    BY <1>7, <1>8

\* In an alphabetical list the sum of the values of a name is the one it has.
LEMMA Lookup ==
    ASSUME NEW list \in Seq(Nodes), Alphabetical(list), NEW name
    PROVE  /\ \A i \in 1..Len(list) : list[i].name = name => SumOf(list, {name}) = list[i].val
           /\ name \notin NamesOf(list) => SumOf(list, {name}) = 0
<1> DEFINE n == Len(list)
           f == [k \in 1..Len(list) |-> IF list[k].name \in {name} THEN list[k].val ELSE 0]
<1>1. /\ n \in Nat /\ DOMAIN list = 1..n
      /\ \A k \in 1..n : list[k].name \in Names /\ list[k].val \in Nat
    BY NodeIs
<1>2. f \in [1..n -> Int]
    BY <1>1
<1>3. SumOf(list, {name}) = SumFunction(f)
    BY DEF SumOf
<1>4. ASSUME NEW i \in 1..n, list[i].name = name PROVE SumFunction(f) = list[i].val
    <2> DEFINE q == [k \in 0..n |-> IF k < i THEN 0 ELSE list[i].val]
    <2>1. \A k \in 1..n : k # i => f[k] = 0
        <3> SUFFICES ASSUME NEW k \in 1..n, k # i PROVE list[k].name # name
            OBVIOUS
        <3>1. Before(list[k].name, list[i].name) \/ Before(list[i].name, list[k].name)
            BY <1>1 DEF Alphabetical
        <3> QED
            BY <1>1, <1>4, <3>1, BeforeNotSelf
    <2>2. f[i] = list[i].val
        BY <1>4
    <2>3. q \in [0..n -> Int] /\ q[0] = 0 /\ q[n] = list[i].val
        BY <1>1
    <2>4. ASSUME NEW k \in 1..n PROVE q[k] = q[k-1] + f[k]
        <3>1. CASE k < i
            BY <2>1, <3>1
        <3>2. CASE k = i
            BY <1>1, <2>2, <3>2
        <3>3. CASE k > i
            BY <1>1, <2>1, <3>3
        <3> QED
            BY <3>1, <3>2, <3>3
    <2>5. PrefixSums(f, n, q)
        BY <2>3, <2>4 DEF PrefixSums
    <2> HIDE DEF f, q
    <2>6. SumFunction(f) = q[n]
        BY <1>1, <1>2, <2>5, SumIs
    <2> QED
        BY <2>3, <2>6
<1>5. ASSUME name \notin NamesOf(list) PROVE SumFunction(f) = 0
    <2> DEFINE q == [k \in 0..n |-> 0]
    <2>1. \A k \in 1..n : f[k] = 0
        BY <1>5 DEF NamesOf
    <2>2. q \in [0..n -> Int] /\ q[0] = 0 /\ q[n] = 0 /\ \A k \in 1..n : q[k] = q[k-1] + f[k]
        BY <1>1, <2>1
    <2>3. PrefixSums(f, n, q)
        BY <2>2 DEF PrefixSums
    <2> HIDE DEF f, q
    <2>4. SumFunction(f) = q[n]
        BY <1>1, <1>2, <2>3, SumIs
    <2> QED
        BY <2>2, <2>4
<1> HIDE DEF f
<1> QED
    BY <1>3, <1>4, <1>5

\* The sum of a longer list.
LEMMA SumAppend ==
    ASSUME NEW list \in Seq(Nodes), NEW k \in 1..Len(list), NEW W
    PROVE  SumOf(SubSeq(list, 1, k), W)
              = SumOf(SubSeq(list, 1, k - 1), W) + (IF list[k].name \in W THEN list[k].val ELSE 0)
<1> DEFINE s == SubSeq(list, 1, k)
           t == SubSeq(list, 1, k - 1)
           fun(l) == [j \in 1..Len(l) |-> IF l[j].name \in W THEN l[j].val ELSE 0]
           m == IF list[k].name \in W THEN list[k].val ELSE 0
           f == fun(t)
           g == fun(s)
           n == k - 1
<1>0. Len(list) \in Nat /\ \A j \in 1..Len(list) : list[j].val \in Nat
    BY NodeIs
<1>1. /\ n \in Nat /\ n + 1 = k
      /\ \A j \in 1..k : list[j].val \in Int
    BY <1>0
<1>2. /\ Len(s) = k /\ Len(t) = n
      /\ \A j \in 1..k : s[j] = list[j]
      /\ \A j \in 1..n : t[j] = list[j]
    BY <1>1
<1> HIDE DEF s, t, n
<1>3. /\ f = [j \in 1..n |-> IF list[j].name \in W THEN list[j].val ELSE 0]
      /\ g = [j \in 1..n + 1 |-> IF list[j].name \in W THEN list[j].val ELSE 0]
    BY <1>1, <1>2
<1>4. f \in [1..n -> Int] /\ g \in [1..n + 1 -> Int] /\ m \in Int
    <2>1. \A j \in 1..n + 1 : (IF list[j].name \in W THEN list[j].val ELSE 0) \in Int
        BY <1>1
    <2>2. \A j \in 1..n : j \in 1..n + 1
        BY <1>1
    <2>3. m \in Int
        BY <1>1
    <2> HIDE DEF f, g, m
    <2> QED
        BY <1>3, <2>1, <2>2, <2>3
<1>5. g[n + 1] = m /\ n + 1 \in 1..n + 1
    BY <1>1, <1>3
<1>6. /\ \A j \in 1..(n + 1) - 1 : g[j] = f[j]
      /\ \A j \in (n + 1) + 1..n + 1 : g[j] = f[j-1]
    BY <1>1, <1>3
<1>7. SumOf(s, W) = SumFunction(g) /\ SumOf(t, W) = SumFunction(f)
    BY DEF SumOf
<1> HIDE DEF f, g, m
<1>8. SumFunction(g) = SumFunction(f) + m
    BY <1>1, <1>4, <1>5, <1>6, SumInsert
<1> QED
    BY <1>7, <1>8 DEF s, t, m, n

\* A multiple of all values is that multiple of their sum.
LEMMA SumScale ==
    ASSUME NEW list \in Seq(Nodes), NEW more \in Seq(Nodes), NEW c \in Nat, Len(more) = Len(list),
           \A i \in 1..Len(list) : more[i].name = list[i].name /\ more[i].val = c * list[i].val,
           NEW W
    PROVE  SumOf(more, W) = c * SumOf(list, W)
<1> DEFINE n == Len(list)
           fun(l) == [j \in 1..Len(l) |-> IF l[j].name \in W THEN l[j].val ELSE 0]
           f == fun(list)
           g == fun(more)
<1>0. /\ Len(list) \in Nat /\ \A j \in 1..Len(list) : list[j].val \in Nat
      /\ \A j \in 1..Len(more) : more[j].val \in Nat
    BY NodeIs
<1>1. /\ n \in Nat
      /\ \A j \in 1..n : list[j].val \in Int /\ more[j].val \in Int
    BY <1>0
<1>2. f \in [1..n -> Int] /\ g \in [1..n -> Int]
    BY <1>1
<1>3. \A j \in 1..n : g[j] = c * f[j]
    BY <1>1
<1>4. SumOf(more, W) = SumFunction(g) /\ SumOf(list, W) = SumFunction(f)
    BY DEF SumOf
<1> HIDE DEF f, g, n
<1>5. PICK q : PrefixSums(f, n, q) /\ SumFunction(f) = q[n]
    BY <1>1, <1>2, SumIsLast
<1>6. q \in [0..n -> Int] /\ q[0] = 0 /\ \A k \in 1..n : q[k] = q[k-1] + f[k]
    BY <1>5 DEF PrefixSums
<1> DEFINE p == [k \in 0..n |-> c * q[k]]
<1>7. PrefixSums(g, n, p)
    <2>1. p \in [0..n -> Int] /\ p[0] = 0
        <3>1. \A k \in 0..n : c * q[k] \in Int
            BY <1>6
        <3> QED
            BY <1>1, <1>6, <3>1
    <2>2. ASSUME NEW k \in 1..n PROVE p[k] = p[k-1] + g[k]
        <3>1. k - 1 \in 0..n /\ k \in 0..n /\ q[k-1] \in Int /\ f[k] \in Int
            BY <1>1, <1>2, <1>6
        <3>2. p[k] = c * (q[k-1] + f[k])
            BY <1>6, <3>1
        <3>3. p[k-1] = c * q[k-1] /\ g[k] = c * f[k]
            BY <1>3, <3>1
        <3> HIDE DEF p
        <3> QED
            BY <3>1, <3>2, <3>3
    <2> QED
        BY <2>1, <2>2 DEF PrefixSums
<1>8. p[n] = c * q[n]
    BY <1>1
<1> HIDE DEF p
<1>9. SumFunction(g) = p[n]
    BY <1>1, <1>2, <1>7, SumIs
<1> QED
    BY <1>4, <1>5, <1>8, <1>9

-----------------------------------------------------------------------------
(***************************************************************************)
(* The inductive invariant.                                                *)
(***************************************************************************)
N == Len(text)

Typed ==
    /\ text \in Sources
    /\ pc \in {"parse", "size", "trapped", "fill", "overrun", "weigh", "print", "mean", "kld",
               "done"}
    /\ files \in [1..N -> Nat] /\ lists \in [1..N -> Seq(Nodes)]
    /\ at \in 1..N + 1 /\ pos \in Positive /\ numTokens \in Nat /\ cToken \in Names
    /\ totalPairs \in Nat
    /\ nodePairs \in Seq([node1 : 1..N, node2 : 1..N, weight : Nat])
    /\ first \in 1..N + 1 /\ second \in Nat
    /\ printed \in Seq(1..Len(nodePairs))
    /\ pair \in 0..Len(nodePairs) /\ (pc \in {"mean", "kld"} <=> pair # 0)
    /\ mean \in Seq(Nodes) /\ node1 \in Positive /\ node2 \in Positive
    /\ side \in 1..2 /\ head \in Positive /\ meanHead \in Positive
    /\ terms \in [1..2 -> Seq([name : Names, val : Positive, mean : Positive])]

\* The pairs of which the walk has written one each: those whose first is behind, and of
\* those with the first that is walked now the ones whose second is.
Passed ==
    {p \in (1..N) \X (1..N) : p[1] < p[2] /\ (p[1] < first \/ (p[1] = first /\ p[2] < second))}
PairOf(k) == <<nodePairs[k].node1, nodePairs[k].node2>>
Printed == {printed[k] : k \in 1..Len(printed)}

\* What the walk has written to the array: one pair each.
Layout ==
    /\ \/ first = N + 1 /\ second = N + 2
       \/ first < second /\ second <= N + 1
    /\ {PairOf(k) : k \in 1..Len(nodePairs)} = Passed
    /\ \A j, k \in 1..Len(nodePairs) : PairOf(j) = PairOf(k) => j = k
    /\ 2 * Len(nodePairs) = (first - 1) * (2*N - first) + 2 * (second - first - 1)

PairsInv ==
    /\ pc \in {"parse", "size", "trapped"} => nodePairs = <<>> /\ first = 1 /\ second = 2
    /\ pc # "overrun" => Layout
    /\ pc \in {"fill", "weigh", "print", "mean", "kld", "done"} => Len(nodePairs) <= totalPairs
    /\ pc \in {"weigh", "print", "mean", "kld", "done"} => first = N + 1
    /\ pc \notin {"print", "mean", "kld", "done"} => printed = <<>>
    /\ Cardinality(Printed) = Len(printed)
    /\ pair # 0 => pair \notin Printed
    /\ pc = "done" => Len(printed) = totalPairs

\* Every value is even, and so has a half.
Even(list) == \A i \in 1..Len(list) : \E q \in 1..list[i].val : list[i].val = 2 * q

ListsInv ==
    /\ \A f \in 1..N : Alphabetical(lists[f])
    /\ pc # "parse" => at = N + 1
    /\ at = N + 1 => numTokens = 0
    /\ pc \in {"parse", "size", "trapped", "fill", "overrun", "weigh"} =>
          \A f \in 1..N :
             Total(lists[f]) = IF f < at THEN files[f] ELSE IF f = at THEN numTokens ELSE 0
    /\ pc \in {"print", "mean", "kld", "done"} =>
          \A f \in 1..N : Even(lists[f]) /\ (lists[f] # <<>> => Total(lists[f]) = Whole)

OfEither == NamesOf(List(1)) \cup NamesOf(List(2))

MeanInv ==
    /\ Alphabetical(mean)
    /\ pair = 0 => mean = <<>> /\ node1 = 1 /\ node2 = 1
    /\ pc # "kld" => side = 1 /\ head = 1 /\ meanHead = 1 /\ terms = NoTerms
    /\ pc = "mean" =>
          /\ node1 <= Len(List(1)) + 1 /\ node2 <= Len(List(2)) + 1
          /\ Even(mean)
          /\ LET read1 == SubSeq(List(1), 1, node1 - 1)
                 read2 == SubSeq(List(2), 1, node2 - 1)
             IN  /\ NamesOf(mean) = NamesOf(read1) \cup NamesOf(read2)
                 /\ \A name \in OfEither :
                       SumOf(mean, {name}) = SumOf(read1, {name}) + SumOf(read2, {name})
    /\ pc = "kld" =>
          /\ NamesOf(mean) = OfEither
          /\ \A name \in OfEither :
                2 * SumOf(mean, {name}) = SumOf(List(1), {name}) + SumOf(List(2), {name})

\* The first m tokens of a file have their terms.
TermsUpTo(s, m) ==
    /\ Len(terms[s]) = m
    /\ \A i \in 1..m : /\ terms[s][i].name = List(s)[i].name
                       /\ terms[s][i].val = List(s)[i].val
                       /\ terms[s][i].val <= 2 * terms[s][i].mean

\* Whatever is left of the file's list is left of the mean list.
WalkInv ==
    pc = "kld" =>
        /\ head <= Len(List(side)) + 1 /\ meanHead <= Len(mean) + 1
        /\ TermsUpTo(side, head - 1)
        /\ side = 1 => terms[2] = <<>>
        /\ side = 2 => TermsUpTo(1, Len(List(1)))
        /\ \A j \in head..Len(List(side)) :
              \E k \in meanHead..Len(mean) : mean[k].name = List(side)[j].name

IInv == Typed /\ PairsInv /\ ListsInv /\ MeanInv /\ WalkInv

-----------------------------------------------------------------------------
(***************************************************************************)
(* The factorials.                                                         *)
(***************************************************************************)
Products(g, n) ==
    /\ g \in [0..n -> Nat] /\ g[0] = 1
    /\ \A k \in 1..n : g[k] = Wrap(g[k-1] * k)

LEMMA WrapIs ==
    \A x \in Nat : Wrap(x) \in Nat /\ (x < 2^WIDTH => Wrap(x) = x)
<1> DEFINE M == 2^WIDTH
<1>1. M \in Nat /\ M >= 4
    BY PairsAssumption
<1>2. \A x \in Nat : Wrap(x) = x % M
    BY DEF Wrap
<1> HIDE DEF M
<1>3. \A x \in Nat : x % M \in Nat /\ (x < M => x % M = x)
    BY <1>1
<1> QED
    BY <1>2, <1>3 DEF M

\* The loop's products exist, there is one for each number, and they do not depend on how
\* far the loop goes.
LEMMA ProductsExist == \A n \in Nat : \E g : Products(g, n)
<1> DEFINE T == {n \in Nat : ~\E g : Products(g, n)}
<1>1. SUFFICES ASSUME T # {} PROVE FALSE
    OBVIOUS
<1>2. PICK n \in T : \A y \in T : n <= y
    <2>1. T \in SUBSET Nat
        OBVIOUS
    <2> HIDE DEF T
    <2> QED
        BY <1>1, <2>1, Least
<1>3. n \in Nat /\ ~\E g : Products(g, n)
    BY <1>2
<1>4. CASE n = 0
    <2>1. Products([k \in 0..0 |-> 1], 0)
        BY DEF Products
    <2> QED
        BY <1>3, <1>4, <2>1
<1>5. CASE n # 0
    <2>1. n - 1 \in Nat /\ n - 1 \notin T
        BY <1>2, <1>3, <1>5
    <2>2. PICK g : Products(g, n - 1)
        BY <2>1
    <2>3. g \in [0..n - 1 -> Nat] /\ g[0] = 1 /\ \A k \in 1..n - 1 : g[k] = Wrap(g[k-1] * k)
        BY <2>2 DEF Products
    <2> DEFINE h == [k \in 0..n |-> IF k = n THEN Wrap(g[n-1] * n) ELSE g[k]]
    <2>4. Wrap(g[n-1] * n) \in Nat
        <3>1. g[n-1] \in Nat
            BY <1>3, <1>5, <2>3
        <3>2. g[n-1] * n \in Nat
            BY <1>3, <3>1
        <3> QED
            BY <3>2, WrapIs
    <2>5. h \in [0..n -> Nat] /\ h[0] = 1
        BY <1>3, <1>5, <2>3, <2>4
    <2>6. ASSUME NEW k \in 1..n PROVE h[k] = Wrap(h[k-1] * k)
        <3>1. h[k-1] = g[k-1]
            BY <1>3, <1>5
        <3>2. CASE k = n
            BY <3>1, <3>2
        <3>3. CASE k # n
            <4>1. k \in 1..n - 1
                BY <1>3, <3>3
            <4> QED
                BY <2>3, <3>1, <3>3, <4>1
        <3> QED
            BY <3>2, <3>3
    <2> HIDE DEF h
    <2>7. Products(h, n)
        BY <2>5, <2>6 DEF Products
    <2> QED
        BY <1>3, <2>7
<1> QED
    BY <1>4, <1>5

LEMMA ProductsAgree ==
    ASSUME NEW n \in Nat, NEW m \in Nat, NEW g, NEW h, Products(g, n), Products(h, m),
           NEW k \in Nat, k <= n, k <= m
    PROVE  g[k] = h[k]
<1> DEFINE T == {j \in 0..k : g[j] # h[j]}
<1>1. SUFFICES ASSUME T # {} PROVE FALSE
    OBVIOUS
<1>2. PICK j \in T : \A y \in T : j <= y
    <2>1. T \in SUBSET Nat
        OBVIOUS
    <2> HIDE DEF T
    <2> QED
        BY <1>1, <2>1, Least
<1>3. j # 0
    BY <1>2 DEF Products
<1>4. j - 1 \in 0..k /\ j - 1 \notin T /\ j \in 1..n /\ j \in 1..m
    BY <1>2, <1>3
<1> QED
    BY <1>2, <1>4 DEF Products

LEMMA FactorialIs ==
    ASSUME NEW n \in Nat, NEW g, Products(g, n)
    PROVE  factorial(n) = g[n]
<1> DEFINE Step(f) == [k \in 0..n |-> IF k = 0 THEN 1 ELSE Wrap(f[k-1] * k)]
           f == CHOOSE f : f = Step(f)
<1>1. CASE n = 0
    BY <1>1 DEF factorial, Products
<1>2. CASE n # 0
    <2>1. factorial(n) = f[n]
        BY <1>2 DEF factorial
    <2>2. g = Step(g)
        BY DEF Products
    <2>3. f = Step(f)
        <3> HIDE DEF Step
        <3> QED
            BY <2>2
    <2> HIDE DEF f
    <2>4. f[0] = 1 /\ \A k \in 1..n : f[k] = Wrap(f[k-1] * k)
        BY <2>3
    <2> HIDE DEF Step
    <2> DEFINE T == {j \in 0..n : f[j] # g[j]}
    <2>5. T = {}
        <3>1. SUFFICES ASSUME T # {} PROVE FALSE
            OBVIOUS
        <3>2. PICK j \in T : \A y \in T : j <= y
            <4>1. T \in SUBSET Nat
                OBVIOUS
            <4> HIDE DEF T
            <4> QED
                BY <3>1, <4>1, Least
        <3>3. j # 0
            BY <2>4, <3>2 DEF Products
        <3>4. j - 1 \in 0..n /\ j - 1 \notin T /\ j \in 1..n
            BY <3>2, <3>3
        <3> QED
            BY <2>4, <3>2, <3>4 DEF Products
    <2> QED
        BY <2>1, <2>5
<1> QED
    BY <1>1, <1>2

\* So a factorial is a number, and one more multiplication gives the next.
LEMMA FactorialStep ==
    /\ \A n \in Int : factorial(n) \in Nat /\ (n <= 0 => factorial(n) = 1)
    /\ \A n \in Nat : factorial(n + 1) = Wrap(factorial(n) * (n + 1))
<1>1. ASSUME NEW n \in Int, n <= 0 PROVE factorial(n) = 1
    BY <1>1 DEF factorial
<1>2. ASSUME NEW n \in Nat
      PROVE  /\ factorial(n) \in Nat
             /\ factorial(n + 1) = Wrap(factorial(n) * (n + 1))
    <2>1. PICK g : Products(g, n + 1)
        BY ProductsExist
    <2>2. PICK h : Products(h, n)
        BY ProductsExist
    <2>3. factorial(n + 1) = g[n + 1] /\ factorial(n) = h[n]
        BY <2>1, <2>2, FactorialIs
    <2>4. g[n] = h[n]
        BY <2>1, <2>2, ProductsAgree
    <2>5. g[n + 1] = Wrap(g[n] * (n + 1)) /\ h[n] \in Nat
        BY <2>1, <2>2 DEF Products
    <2> QED
        BY <2>3, <2>4, <2>5
<1> QED
    BY <1>1, <1>2

LEMMA CombinationType ==
    ASSUME NEW n \in Nat
    PROVE  divisor(n, 2) \in Nat /\ (divisor(n, 2) # 0 => combination(n, 2) \in Nat)
<1>1. n - 2 \in Int /\ 2 \in Int
    OBVIOUS
<1>2. factorial(2) \in Nat /\ factorial(n - 2) \in Nat /\ factorial(n) \in Nat
    BY <1>1, FactorialStep
<1>3. factorial(2) * factorial(n - 2) \in Nat
    BY <1>2
<1>4. divisor(n, 2) \in Nat
    BY <1>3, WrapIs DEF divisor
<1>5. \A a, b \in Nat : b # 0 => a \div b \in Nat
    OBVIOUS
<1> QED
    BY <1>2, <1>4, <1>5 DEF combination

LEMMA CombinationIs ==
    ASSUME NEW n \in Nat, Fits(n)
    PROVE  divisor(n, 2) # 0 /\ 2 * combination(n, 2) = n * (n - 1)
<1>1. factorial(0) = 1 /\ factorial(1) = 1 /\ factorial(2) = 2
    <2>1. factorial(0) = 1
        BY FactorialStep
    <2>2. 1 < 2^WIDTH /\ 2 < 2^WIDTH
        BY PairsAssumption
    <2>3. factorial(0 + 1) = Wrap(factorial(0) * (0 + 1)) /\ factorial(1 + 1) = Wrap(factorial(1) * (1 + 1))
        BY FactorialStep
    <2>4. factorial(1) = 1
        <3>1. factorial(1) = Wrap(1)
            BY <2>1, <2>3
        <3> QED
            BY <2>2, <3>1, WrapIs
    <2>5. factorial(2) = 2
        <3>1. factorial(2) = Wrap(2)
            BY <2>3, <2>4
        <3> QED
            BY <2>2, <3>1, WrapIs
    <2> QED
        BY <2>1, <2>4, <2>5
<1>2. CASE n < 2
    <2>1. factorial(n - 2) = 1 /\ factorial(n) = 1
        <3>1. factorial(n - 2) = 1
            BY <1>2, FactorialStep
        <3>2. n = 0 \/ n = 1
            BY <1>2
        <3> QED
            BY <1>1, <3>1, <3>2
    <2>2. divisor(n, 2) = 2
        <3>1. divisor(n, 2) = Wrap(2)
            BY <1>1, <2>1 DEF divisor
        <3> QED
            BY <3>1, WrapIs, PairsAssumption
    <2>3. combination(n, 2) = 0
        <3>1. 1 \div 2 = 0
            OBVIOUS
        <3> QED
            BY <2>1, <2>2, <3>1 DEF combination
    <2>4. n = 0 \/ n = 1
        BY <1>2
    <2> QED
        BY <2>2, <2>3, <2>4
<1>3. CASE n >= 2
    <2> DEFINE F == factorial(n - 2)
    <2>1. /\ n - 2 \in Nat /\ n - 1 \in Nat /\ n - 1 \in 1..n /\ n \in 1..n
          /\ (n - 2) + 1 = n - 1 /\ (n - 1) + 1 = n /\ (n - 1) - 1 = n - 2
        BY <1>3
    <2>2. F \in Nat /\ factorial(n - 1) \in Nat
        BY <2>1, FactorialStep
    <2>3. factorial(n - 1) = F * (n - 1)
        <3>1. factorial((n - 2) + 1) = Wrap(factorial(n - 2) * ((n - 2) + 1))
            BY <2>1, FactorialStep
        <3>2. factorial((n - 1) - 1) * (n - 1) < 2^WIDTH
            BY <2>1 DEF Fits
        <3>3. F * (n - 1) \in Nat
            BY <2>1, <2>2
        <3> QED
            BY <2>1, <3>1, <3>2, <3>3, WrapIs
    <2>4. factorial(n) = factorial(n - 1) * n /\ factorial(n - 1) * n < 2^WIDTH
        <3>1. factorial((n - 1) + 1) = Wrap(factorial(n - 1) * ((n - 1) + 1))
            BY <2>1, FactorialStep
        <3>2. factorial(n - 1) * n < 2^WIDTH
            BY <2>1 DEF Fits
        <3>3. factorial(n - 1) * n \in Nat
            BY <2>1, <2>2
        <3> QED
            BY <2>1, <3>1, <3>2, <3>3, WrapIs
    <2>5. F # 0
        <3> DEFINE T == {k \in 0..n : factorial(k) = 0}
        <3>1. SUFFICES ASSUME T # {} PROVE FALSE
            BY <2>1
        <3>2. PICK k \in T : \A y \in T : k <= y
            <4>1. T \in SUBSET Nat
                OBVIOUS
            <4> HIDE DEF T
            <4> QED
                BY <3>1, <4>1, Least
        <3>3. k # 0
            BY <1>1, <3>2
        <3>4. k \in 1..n /\ k - 1 \in Nat /\ (k - 1) + 1 = k /\ k - 1 \notin T /\ k - 1 \in 0..n
            BY <3>2, <3>3
        <3>5. factorial(k - 1) \in Nat /\ factorial(k - 1) # 0
            BY <3>4, FactorialStep
        <3>6. factorial(k) = Wrap(factorial(k - 1) * k)
            <4>1. factorial((k - 1) + 1) = Wrap(factorial(k - 1) * ((k - 1) + 1))
                BY <3>4, FactorialStep
            <4> QED
                BY <3>4, <4>1
        <3>7. factorial(k - 1) * k < 2^WIDTH
            BY <3>4 DEF Fits
        <3>8. factorial(k - 1) * k \in Nat /\ factorial(k - 1) * k # 0
            <4>1. factorial(k - 1) \in Positive /\ k \in Positive
                BY <3>4, <3>5 DEF Positive
            <4>2. factorial(k - 1) * k \in Positive
                BY <4>1, ProductPositive
            <4> QED
                BY <4>2 DEF Positive
        <3>9. factorial(k) # 0
            BY <3>6, <3>7, <3>8, WrapIs
        <3> QED
            BY <3>2, <3>9
    <2>6. PICK q \in Positive : n * (n - 1) = 2 * q
        <3>1. PICK m \in Nat : n = 2 * m \/ n = 2 * m + 1
            <4>1. n = 2 * (n \div 2) \/ n = 2 * (n \div 2) + 1
                OBVIOUS
            <4>2. n \div 2 \in Nat
                OBVIOUS
            <4> QED
                BY <4>1, <4>2
        <3>2. m # 0
            BY <1>3, <3>1
        <3>3. CASE n = 2 * m
            <4>1. m \in Positive /\ n - 1 \in Positive
                BY <1>3, <3>2 DEF Positive
            <4>2. m * (n - 1) \in Positive
                BY <4>1, ProductPositive
            <4>3. n * (n - 1) = 2 * (m * (n - 1))
                BY <3>3
            <4> QED
                BY <4>2, <4>3
        <3>4. CASE n = 2 * m + 1
            <4>1. m \in Positive /\ n \in Positive
                BY <1>3, <3>2 DEF Positive
            <4>2. n * m \in Positive
                BY <4>1, ProductPositive
            <4>3. n - 1 = 2 * m
                BY <3>4
            <4>4. n * (n - 1) = 2 * (n * m)
                BY <4>3
            <4> QED
                BY <4>2, <4>4
        <3> QED
            BY <3>1, <3>3, <3>4
    <2> HIDE DEF F
    <2>7. factorial(n) = (2 * F) * q
        <3>1. factorial(n) = F * (n * (n - 1))
            BY <2>1, <2>2, <2>3, <2>4
        <3> QED
            BY <2>2, <2>6, <3>1 DEF Positive
    <2>8. 2 * F \in Positive /\ 2 * F <= (2 * F) * q
        <3>1. 2 * F \in Positive
            BY <2>2, <2>5 DEF Positive
        <3>2. \A a, b \in Positive : a <= a * b
            <4> SUFFICES ASSUME NEW a \in Positive, NEW b \in Positive PROVE a <= a * b
                OBVIOUS
            <4>1. a * (b - 1) >= 0
                BY DEF Positive
            <4>2. a * b = a * (b - 1) + a
                BY DEF Positive
            <4> QED
                BY <4>1, <4>2 DEF Positive
        <3> QED
            BY <3>1, <3>2
    <2>9. divisor(n, 2) = 2 * F
        <3>1. 2 * F < 2^WIDTH
            BY <2>2, <2>4, <2>7, <2>8, PairsAssumption DEF Positive
        <3>2. divisor(n, 2) = Wrap(2 * F)
            BY <1>1 DEF divisor, F
        <3> QED
            BY <2>8, <3>1, <3>2, WrapIs DEF Positive
    <2>10. \A a, b \in Positive : (a * b) \div a = b
        <3> SUFFICES ASSUME NEW a \in Positive, NEW b \in Positive PROVE (a * b) \div a = b
            OBVIOUS
        <3> QED
            BY DEF Positive
    <2>11. combination(n, 2) = q
        BY <2>7, <2>8, <2>9, <2>10 DEF combination
    <2> QED
        BY <2>6, <2>8, <2>9, <2>11 DEF Positive
<1> QED
    BY <1>2, <1>3

-----------------------------------------------------------------------------
(***************************************************************************)
(* What the steps keep.                                                    *)
(***************************************************************************)
LEMMA TextIs ==
    ASSUME text \in Sources, files \in [1..N -> Nat]
    PROVE  /\ N \in Nat /\ DOMAIN text = 1..N /\ Len(files) = N /\ DOMAIN files = 1..N
           /\ \A f \in 1..N : /\ Len(text[f]) \in Nat
                              /\ \A i \in 1..Len(text[f]) : text[f][i] \in STRING
<1>1. text \in Seq(Seq(STRING))
    BY SimilarityAssumption
<1>2. N \in Nat /\ DOMAIN text = 1..N /\ \A f \in 1..N : text[f] \in Seq(STRING)
    BY <1>1 DEF N
<1>3. \A t \in Seq(STRING) : Len(t) \in Nat /\ \A i \in 1..Len(t) : t[i] \in STRING
    OBVIOUS
<1>4. files \in Seq(Nat) /\ DOMAIN files = 1..N
    BY <1>2
<1>5. Len(files) = N
    BY <1>2, <1>4
<1> QED
    BY <1>2, <1>3, <1>4, <1>5

\* A letter of a name is in the alphabet of names.
LEMMA LetterIs ==
    ASSUME NEW c, isalpha(c) \/ c = "-"
    PROVE  tolower(c) \in Alphabet
<1>1. DOMAIN Letters = 1..26 /\ DOMAIN Capitals = 1..26
    BY DEF Letters, Capitals
<1>2. CASE c \in ToSet(Capitals)
    <2>1. PICK i \in 1..26 : Capitals[i] = c
        BY <1>1, <1>2 DEF ToSet
    <2>2. (CHOOSE k \in DOMAIN Capitals : Capitals[k] = c) \in 1..26
        BY <1>1, <2>1
    <2> QED
        BY <1>1, <1>2, <2>2 DEF tolower, Alphabet, ToSet
<1>3. CASE c \notin ToSet(Capitals)
    BY <1>3 DEF isalpha, tolower, Alphabet
<1> QED
    BY <1>2, <1>3

\* The lists of a pair.
LEMMA ListIs ==
    ASSUME Typed, pair # 0
    PROVE  /\ nodePairs[pair].node1 \in 1..N /\ nodePairs[pair].node2 \in 1..N
           /\ List(1) \in Seq(Nodes) /\ List(2) \in Seq(Nodes)
           /\ List(1) = lists[nodePairs[pair].node1] /\ List(2) = lists[nodePairs[pair].node2]
           /\ \A s \in 1..2 : List(s) \in Seq(Nodes)
<1>1. pair \in 1..Len(nodePairs)
    BY DEF Typed
<1>2. nodePairs \in Seq([node1 : 1..N, node2 : 1..N, weight : Nat])
    BY DEF Typed
<1>3. nodePairs[pair] \in [node1 : 1..N, node2 : 1..N, weight : Nat]
    BY <1>1, <1>2, ElementOfSeq
<1>4. lists \in [1..N -> Seq(Nodes)]
    BY DEF Typed
<1>5. nodePairs[pair].node1 \in 1..N /\ nodePairs[pair].node2 \in 1..N
    BY <1>3
<1>6. \A s : List(s) = IF s = 1 THEN lists[nodePairs[pair].node1] ELSE lists[nodePairs[pair].node2]
    BY DEF List
<1> QED
    BY <1>4, <1>5, <1>6

LEMMA LayoutKept ==
    ASSUME UNCHANGED <<text, array>>
    PROVE  N' = N /\ Layout' = Layout
<1>1. N' = N
    BY DEF N
<1>2. \A k : PairOf(k)' = PairOf(k)
    BY DEF PairOf, array
<1>3. Passed' = Passed
    BY <1>1 DEF Passed, array
<1>4. {PairOf(k)' : k \in 1..Len(nodePairs')} = {PairOf(k) : k \in 1..Len(nodePairs)}
    BY <1>2 DEF array
<1> QED
    BY <1>1, <1>2, <1>3, <1>4 DEF Layout, array

\* Outside of the distances nothing of them is kept.
LEMMA DistanceIdle ==
    ASSUME Typed, MeanInv, UNCHANGED distance, pc \notin {"mean", "kld"},
           pc' \notin {"mean", "kld"}
    PROVE  MeanInv' /\ WalkInv'
<1>1. pair = 0
    BY DEF Typed
<1> QED
    BY <1>1 DEF MeanInv, WalkInv, distance, NoTerms, Alphabetical

\* One token more in the list of the file that is read.
LEMMA Inserted ==
    ASSUME Typed, ListsInv, at \in 1..N,
           lists' = [lists EXCEPT ![at] = insertToken(@, cToken)]
    PROVE  /\ lists' \in [1..N -> Seq(Nodes)]
           /\ \A f \in 1..N : Alphabetical(lists'[f])
           /\ \A f \in 1..N : Total(lists'[f]) = Total(lists[f]) + (IF f = at THEN 1 ELSE 0)
<1> DEFINE list == lists[at]
           new == insertToken(list, cToken)
<1>1. lists \in [1..N -> Seq(Nodes)] /\ cToken \in Names /\ \A f \in 1..N : Alphabetical(lists[f])
    BY DEF Typed, ListsInv
<1>2. list \in Seq(Nodes) /\ Alphabetical(list) /\ 1 \in Positive
    BY <1>1 DEF Positive
<1>3. new = Added(list, cToken, 1)
    <2> HIDE DEF list
    <2> QED
        BY <1>1, <1>2, InsertionsAdd
<1>4. /\ Added(list, cToken, 1) \in Seq(Nodes) /\ Alphabetical(Added(list, cToken, 1))
      /\ SumOf(Added(list, cToken, 1), Names) = SumOf(list, Names) + 1
    <2> HIDE DEF list
    <2>1. /\ Added(list, cToken, 1) \in Seq(Nodes) /\ Alphabetical(Added(list, cToken, 1))
          /\ \A W : SumOf(Added(list, cToken, 1), W)
                      = SumOf(list, W) + (IF cToken \in W THEN 1 ELSE 0)
        BY <1>1, <1>2, AddedIs
    <2> QED
        BY <1>1, <2>1
<1>5. Total(list) = SumOf(list, Names) /\ Total(new) = SumOf(new, Names)
    <2>1. new \in Seq(Nodes)
        BY <1>3, <1>4
    <2> HIDE DEF list, new
    <2> QED
        BY <1>2, <2>1, SumsOf
<1>6. \A f \in 1..N : Total(lists[f]) \in Int
    <2>1. ASSUME NEW f \in 1..N PROVE Total(lists[f]) \in Int
        <3>1. lists[f] \in Seq(Nodes)
            BY <1>1
        <3>2. Total(lists[f]) = SumOf(lists[f], Names) /\ SumOf(lists[f], Names) \in Int
            BY <3>1, SumsOf
        <3> QED
            BY <3>2
    <2> QED
        BY <2>1
<1>7. lists' = [lists EXCEPT ![at] = new]
    OBVIOUS
<1> HIDE DEF new
<1>8. \A f \in 1..N : lists'[f] = IF f = at THEN new ELSE lists[f]
    BY <1>1, <1>7
<1>9. new \in Seq(Nodes) /\ Alphabetical(new) /\ Total(new) = Total(list) + 1
    BY <1>3, <1>4, <1>5
<1>10. lists' \in [1..N -> Seq(Nodes)]
    BY <1>1, <1>7, <1>9
<1>11. \A f \in 1..N : Alphabetical(lists'[f])
    BY <1>1, <1>8, <1>9
<1>12. \A f \in 1..N : Total(lists'[f]) = Total(lists[f]) + (IF f = at THEN 1 ELSE 0)
    BY <1>6, <1>8, <1>9
<1> QED
    BY <1>10, <1>11, <1>12

LEMMA EmptyTotal == Total(<<>>) = 0
<1> DEFINE f == [i \in 1..0 |-> <<>>[i].val]
           q == [k \in 0..0 |-> 0]
<1>1. Total(<<>>) = SumFunction(f)
    BY DEF Total
<1>2. f \in [1..0 -> Int] /\ PrefixSums(f, 0, q) /\ q[0] = 0 /\ 0 \in Nat
    BY DEF PrefixSums
<1> HIDE DEF f, q
<1> QED
    BY <1>1, <1>2, SumIs

\* A list that is not empty has a positive sum.
LEMMA PositiveTotal ==
    ASSUME NEW list \in Seq(Nodes), list # <<>>
    PROVE  Total(list) \in Positive
<1> DEFINE n == Len(list)
           f == [i \in 1..n |-> list[i].val]
<1>1. n \in Nat /\ n # 0 /\ DOMAIN list = 1..n
    BY EmptySeq
<1>2. \A i \in 1..n : list[i].val \in Positive
    BY NodeIs
<1>3. f \in [1..n -> Int] /\ \A i \in 1..n : f[i] > 0
    BY <1>2 DEF Positive
<1>4. Total(list) = SumFunction(f)
    BY <1>1 DEF Total
<1> HIDE DEF n, f
<1>5. PICK q : PrefixSums(f, n, q) /\ SumFunction(f) = q[n]
    BY <1>1, <1>3, SumIsLast
<1>6. q \in [0..n -> Int] /\ q[0] = 0 /\ \A k \in 1..n : q[k] = q[k-1] + f[k]
    BY <1>5 DEF PrefixSums
<1> DEFINE T == {k \in 1..n : q[k] <= 0}
<1>7. T = {}
    <2>1. SUFFICES ASSUME T # {} PROVE FALSE
        OBVIOUS
    <2>2. PICK k \in T : \A y \in T : k <= y
        <3>1. T \in SUBSET Nat
            BY <1>1
        <3> HIDE DEF T
        <3> QED
            BY <2>1, <3>1, Least
    <2>3. q[k-1] \in Int /\ q[k-1] >= 0 /\ f[k] \in Int /\ f[k] > 0
        <3>1. k \in 1..n /\ k - 1 \in 0..n
            BY <1>1, <2>2
        <3>2. CASE k = 1
            BY <1>3, <1>6, <3>1, <3>2
        <3>3. CASE k # 1
            <4>1. k - 1 \in 1..n /\ k - 1 \notin T
                BY <1>1, <2>2, <3>1, <3>3
            <4> QED
                BY <1>3, <1>6, <3>1, <4>1
        <3> QED
            BY <3>2, <3>3
    <2> QED
        BY <1>1, <1>6, <2>2, <2>3
<1>8. n \in 1..n /\ n \notin T
    BY <1>1, <1>7
<1> QED
    BY <1>1, <1>4, <1>5, <1>6, <1>8 DEF Positive

-----------------------------------------------------------------------------
(***************************************************************************)
(* Init and the steps of the readers.                                      *)
(***************************************************************************)
LEMMA InitInv == Init => IInv
<1> SUFFICES ASSUME Init PROVE IInv
    OBVIOUS
<1>1. text \in Seq(Seq(STRING)) /\ text \in Sources
    BY SimilarityAssumption DEF Init
<1>2. N \in Nat /\ DOMAIN text = 1..N
    BY <1>1 DEF N
<1>3. /\ files = [f \in 1..N |-> 0] /\ lists = [f \in 1..N |-> <<>>] /\ pc = "parse"
      /\ at = 1 /\ pos = 1 /\ cToken = <<>> /\ numTokens = 0
      /\ pair = 0 /\ mean = <<>> /\ node1 = 1 /\ node2 = 1
      /\ side = 1 /\ head = 1 /\ meanHead = 1 /\ terms = NoTerms
      /\ totalPairs = 0 /\ nodePairs = <<>> /\ first = 1 /\ second = 2 /\ printed = <<>>
    BY <1>2 DEF Init, PairsInit
<1>4. Typed
    <2>1. <<>> \in Names /\ <<>> \in Seq(Nodes) /\ 1 \in Positive
        BY DEF Names, Positive
    <2>2. terms \in [1..2 -> Seq([name : Names, val : Positive, mean : Positive])]
        <3> DEFINE T == Seq([name : Names, val : Positive, mean : Positive])
        <3>1. <<>> \in T
            OBVIOUS
        <3> HIDE DEF T
        <3>2. \A x \in T : <<x, x>> \in [1..2 -> T]
            OBVIOUS
        <3>3. terms \in [1..2 -> T]
            BY <1>3, <3>1, <3>2, Zenon DEF NoTerms
        <3> QED
            BY <3>3 DEF T
    <2>3. nodePairs \in Seq([node1 : 1..N, node2 : 1..N, weight : Nat])
        BY <1>3
    <2>4. printed \in Seq(1..Len(nodePairs)) /\ pair \in 0..Len(nodePairs)
        BY <1>3
    <2>5. files \in [1..N -> Nat] /\ lists \in [1..N -> Seq(Nodes)]
        BY <1>3, <2>1
    <2> QED
        BY <1>1, <1>2, <1>3, <2>1, <2>2, <2>3, <2>4, <2>5 DEF Typed
<1>5. PairsInv
    <2>1. Passed = {}
        BY <1>2, <1>3 DEF Passed
    <2>2. {PairOf(k) : k \in 1..Len(nodePairs)} = {} /\ 1..Len(nodePairs) = {} /\ Len(nodePairs) = 0
        BY <1>3
    <2>3. 2 * Len(nodePairs) = (first - 1) * (2*N - first) + 2 * (second - first - 1)
        BY <1>2, <1>3, <2>2
    <2>4. Layout
        BY <1>2, <1>3, <2>1, <2>2, <2>3 DEF Layout
    <2>5. Printed = {} /\ Len(printed) = 0
        BY <1>3 DEF Printed
    <2>6. Cardinality(Printed) = Len(printed)
        BY <2>5, FS_EmptySet
    <2> QED
        BY <1>3, <2>4, <2>6 DEF PairsInv
<1>6. ListsInv
    BY <1>2, <1>3, EmptyTotal DEF ListsInv, Alphabetical
<1>7. MeanInv /\ WalkInv
    BY <1>3 DEF MeanInv, WalkInv, Alphabetical
<1> QED
    BY <1>4, <1>5, <1>6, <1>7 DEF IInv

\* While the files are read nothing else happens.
LEMMA ReadersKeep ==
    ASSUME IInv, pc = "parse", pc' \in {"parse", "size"},
           UNCHANGED <<array, printed, text, distance>>
    PROVE  N' = N /\ PairsInv' /\ MeanInv' /\ WalkInv'
<1>1. N' = N /\ Layout' = Layout
    BY LayoutKept
<1>2. MeanInv' /\ WalkInv'
    BY DistanceIdle DEF IInv
<1>3. Printed' = Printed
    BY DEF Printed
<1> QED
    BY <1>1, <1>2, <1>3 DEF IInv, PairsInv, array, distance

LEMMA EndTokenStep == IInv /\ EndToken => IInv'
<1> SUFFICES ASSUME IInv, EndToken PROVE IInv'
    OBVIOUS
<1>1. /\ pc = "parse" /\ at <= N /\ pc' = pc /\ pos' = pos + 1 /\ Flush
      /\ UNCHANGED <<files, array, printed, text, at, distance>>
    BY DEF EndToken, Reading, N
<1>2. N' = N /\ PairsInv' /\ MeanInv' /\ WalkInv'
    BY <1>1, ReadersKeep
<1>3. Typed /\ ListsInv
    BY DEF IInv
<1>4. N \in Nat /\ at \in 1..N
    <2>1. N \in Nat
        BY <1>3, TextIs DEF Typed
    <2> QED
        BY <1>1, <1>3, <2>1 DEF Typed
<1>5. CASE cToken = <<>>
    <2>1. UNCHANGED <<lists, numTokens, cToken>>
        BY <1>1, <1>5 DEF Flush
    <2>2. Typed'
        BY <1>1, <1>2, <1>3, <2>1 DEF Typed, array, distance, Positive
    <2>3. ListsInv'
        BY <1>1, <1>2, <1>3, <2>1 DEF ListsInv
    <2> QED
        BY <1>2, <2>2, <2>3 DEF IInv
<1>6. CASE cToken # <<>>
    <2>1. lists' = [lists EXCEPT ![at] = insertToken(@, cToken)] /\ numTokens' = numTokens + 1 /\ cToken' = <<>>
        BY <1>1, <1>6 DEF Flush
    <2>2. /\ lists' \in [1..N -> Seq(Nodes)]
          /\ \A f \in 1..N : Alphabetical(lists'[f])
          /\ \A f \in 1..N : Total(lists'[f]) = Total(lists[f]) + (IF f = at THEN 1 ELSE 0)
        BY <1>3, <1>4, <2>1, Inserted
    <2>3. Typed'
        <3>1. <<>> \in Names
            BY DEF Names
        <3> QED
            BY <1>1, <1>2, <1>3, <2>1, <2>2, <3>1 DEF Typed, array, distance, Positive
    <2>4. ListsInv'
        <3>1. ASSUME NEW f \in 1..N
              PROVE  Total(lists'[f]) = IF f < at THEN files[f] ELSE IF f = at THEN numTokens + 1 ELSE 0
            <4>1. Total(lists[f]) = IF f < at THEN files[f] ELSE IF f = at THEN numTokens ELSE 0
                BY <1>1, <1>3 DEF ListsInv
            <4>2. files[f] \in Nat /\ numTokens \in Nat
                BY <1>3 DEF Typed
            <4> QED
                BY <1>4, <2>2, <4>1, <4>2
        <3> QED
            BY <1>1, <1>2, <1>3, <1>4, <2>1, <2>2, <3>1 DEF ListsInv
    <2> QED
        BY <1>2, <2>3, <2>4 DEF IInv
<1> QED
    BY <1>5, <1>6

LEMMA InTokenStep == IInv /\ (InToken \/ Ignored) => IInv'
<1> SUFFICES ASSUME IInv, InToken \/ Ignored PROVE IInv'
    OBVIOUS
<1>1. /\ pc = "parse" /\ pc' = pc /\ pos' = pos + 1
      /\ UNCHANGED <<files, array, printed, text, at, numTokens, lists, distance>>
      /\ cToken' = cToken \/ (cToken' = Append(cToken, tolower(Char)) /\ (isalpha(Char) \/ Char = "-"))
    BY DEF InToken, Ignored, Reading
<1>2. N' = N /\ PairsInv' /\ MeanInv' /\ WalkInv'
    BY <1>1, ReadersKeep
<1>3. Typed /\ ListsInv
    BY DEF IInv
<1>4. cToken' \in Names
    <2>1. cToken \in Names
        BY <1>3 DEF Typed
    <2>2. isalpha(Char) \/ Char = "-" => tolower(Char) \in Alphabet
        BY LetterIs
    <2> QED
        BY <1>1, <2>1, <2>2 DEF Names
<1>5. Typed'
    BY <1>1, <1>2, <1>3, <1>4 DEF Typed, array, distance, Positive
<1>6. ListsInv'
    BY <1>1, <1>2, <1>3 DEF ListsInv
<1> QED
    BY <1>2, <1>5, <1>6 DEF IInv

LEMMA EndOfFileStep == IInv /\ EndOfFile => IInv'
<1> SUFFICES ASSUME IInv, EndOfFile PROVE IInv'
    OBVIOUS
<1> DEFINE last == IF cToken = <<>> THEN numTokens ELSE numTokens + 1
<1>1. /\ pc = "parse" /\ at <= N /\ pc' = pc
      /\ lists' = IF cToken = <<>> THEN lists
                  ELSE [lists EXCEPT ![at] = insertToken(@, cToken)]
      /\ files' = [files EXCEPT ![at] = last]
      /\ at' = at + 1 /\ pos' = 1 /\ numTokens' = 0 /\ cToken' = <<>>
      /\ UNCHANGED <<array, printed, text, distance>>
    BY DEF EndOfFile, N
<1>2. N' = N /\ PairsInv' /\ MeanInv' /\ WalkInv'
    BY <1>1, ReadersKeep
<1>3. Typed /\ ListsInv
    BY DEF IInv
<1>4. N \in Nat /\ at \in 1..N /\ numTokens \in Nat
    <2>1. N \in Nat
        BY <1>3, TextIs DEF Typed
    <2> QED
        BY <1>1, <1>3, <2>1 DEF Typed
<1>5. /\ lists' \in [1..N -> Seq(Nodes)]
      /\ \A f \in 1..N : Alphabetical(lists'[f])
      /\ \A f \in 1..N : Total(lists'[f]) = IF f = at THEN last ELSE Total(lists[f])
    <2>0. ASSUME NEW f \in 1..N
          PROVE  Total(lists[f]) = IF f < at THEN files[f] ELSE IF f = at THEN numTokens ELSE 0
        BY <1>1, <1>3 DEF ListsInv
    <2>1. CASE cToken = <<>>
        <3>1. lists' = lists
            BY <1>1, <2>1
        <3>2. lists \in [1..N -> Seq(Nodes)] /\ \A f \in 1..N : Alphabetical(lists[f])
            BY <1>3 DEF Typed, ListsInv
        <3>3. Total(lists[at]) = numTokens
            BY <1>4, <2>0
        <3> QED
            BY <2>1, <3>1, <3>2, <3>3
    <2>2. CASE cToken # <<>>
        <3>1. lists' = [lists EXCEPT ![at] = insertToken(@, cToken)]
            BY <1>1, <2>2
        <3>2. /\ lists' \in [1..N -> Seq(Nodes)]
              /\ \A f \in 1..N : Alphabetical(lists'[f])
              /\ \A f \in 1..N : Total(lists'[f]) = Total(lists[f]) + (IF f = at THEN 1 ELSE 0)
            BY <1>3, <1>4, <3>1, Inserted
        <3>3. ASSUME NEW f \in 1..N PROVE Total(lists'[f]) = IF f = at THEN last ELSE Total(lists[f])
            <4>1. files[f] \in Nat
                BY <1>3 DEF Typed
            <4> QED
                BY <1>4, <2>0, <2>2, <3>2, <4>1
        <3> QED
            BY <3>2, <3>3
    <2> QED
        BY <2>1, <2>2
<1>6. last \in Nat
    BY <1>4
<1> HIDE DEF last
<1>7. files \in [1..N -> Nat] /\ files' \in [1..N -> Nat]
      /\ \A f \in 1..N : files'[f] = IF f = at THEN last ELSE files[f]
    <2>1. files \in [1..N -> Nat]
        BY <1>3 DEF Typed
    <2> QED
        BY <1>1, <1>4, <1>6, <2>1
<1>8. Typed'
    <2>1. <<>> \in Names /\ 1 \in Positive
        BY DEF Names, Positive
    <2>2. at' \in 1..N + 1
        BY <1>1, <1>4
    <2> QED
        BY <1>1, <1>2, <1>3, <1>5, <1>7, <2>1, <2>2 DEF Typed, array, distance
<1>9. ListsInv'
    <2>1. ASSUME NEW f \in 1..N
          PROVE  Total(lists'[f]) = IF f < at + 1 THEN files'[f] ELSE IF f = at + 1 THEN 0 ELSE 0
        <3>1. Total(lists[f]) = IF f < at THEN files[f] ELSE IF f = at THEN numTokens ELSE 0
            BY <1>1, <1>3 DEF ListsInv
        <3> QED
            BY <1>4, <1>5, <1>7, <3>1
    <2> QED
        BY <1>1, <1>2, <1>4, <1>5, <2>1 DEF ListsInv
<1> QED
    BY <1>2, <1>8, <1>9 DEF IInv

LEMMA AllReadStep == IInv /\ AllRead => IInv'
<1> SUFFICES ASSUME IInv, AllRead PROVE IInv'
    OBVIOUS
<1>1. /\ pc = "parse" /\ at > N /\ pc' = "size"
      /\ UNCHANGED <<files, array, printed, reader, lists, distance>>
    BY DEF AllRead, N
<1>2. N' = N /\ PairsInv' /\ MeanInv' /\ WalkInv'
    BY <1>1, ReadersKeep DEF reader
<1>3. Typed /\ ListsInv
    BY DEF IInv
<1>4. N \in Nat /\ at = N + 1
    <2>1. N \in Nat
        BY <1>3, TextIs DEF Typed
    <2> QED
        BY <1>1, <1>3, <2>1 DEF Typed
<1>5. Typed'
    BY <1>1, <1>2, <1>3 DEF Typed, array, distance, reader
<1>6. ListsInv'
    BY <1>1, <1>2, <1>3, <1>4 DEF ListsInv, reader
<1> QED
    BY <1>2, <1>5, <1>6 DEF IInv

-----------------------------------------------------------------------------
(***************************************************************************)
(* The steps that make the pairs.                                          *)
(***************************************************************************)
LEMMA WalkKeeps ==
    ASSUME IInv, pc \in {"size", "fill"}, pc' \in {"trapped", "fill", "overrun", "weigh"},
           UNCHANGED <<files, printed, reader, lists, distance>>
    PROVE  /\ N' = N /\ ListsInv' /\ MeanInv' /\ WalkInv'
           /\ printed = <<>> /\ pair = 0 /\ Printed' = Printed
<1>1. N' = N
    BY DEF N, reader
<1>2. MeanInv' /\ WalkInv'
    BY DistanceIdle DEF IInv
<1>3. ListsInv'
    BY <1>1 DEF IInv, ListsInv, reader
<1>4. printed = <<>> /\ pair = 0
    BY DEF IInv, PairsInv, Typed
<1>5. Printed' = Printed
    BY DEF Printed
<1> QED
    BY <1>1, <1>2, <1>3, <1>4, <1>5

LEMMA SizeStep ==
    ASSUME IInv, Size \/ SizeTraps \/ FillDone, UNCHANGED <<reader, lists, distance>>
    PROVE  IInv'
<1>1. Typed /\ PairsInv
    BY DEF IInv
<1>2. N \in Nat /\ Len(files) = N
    BY <1>1, TextIs DEF Typed
<1>3. UNCHANGED <<files, nodePairs, first, second, printed, text>>
    BY DEF Size, SizeTraps, FillDone, reader
<1>4. \/ pc = "size" /\ pc' = "fill" /\ divisor(N, 2) # 0 /\ totalPairs' = combination(N, 2)
      \/ pc = "size" /\ pc' = "trapped" /\ totalPairs' = totalPairs
      \/ pc = "fill" /\ pc' = "weigh" /\ totalPairs' = totalPairs /\ first > N
    BY <1>2 DEF Size, SizeTraps, FillDone
<1>5. /\ N' = N /\ ListsInv' /\ MeanInv' /\ WalkInv'
      /\ printed = <<>> /\ pair = 0 /\ Printed' = Printed
    BY <1>3, <1>4, WalkKeeps
<1>6. totalPairs' \in Nat
    <2>1. totalPairs \in Nat
        BY <1>1 DEF Typed
    <2> QED
        BY <1>2, <1>4, <2>1, CombinationType
<1>7. Typed'
    BY <1>1, <1>3, <1>4, <1>5, <1>6 DEF Typed, reader, distance
<1>8. Layout' = Layout
    <2>1. \A k : PairOf(k)' = PairOf(k)
        BY <1>3 DEF PairOf
    <2>2. Passed' = Passed
        BY <1>3, <1>5 DEF Passed
    <2>3. {PairOf(k)' : k \in 1..Len(nodePairs')} = {PairOf(k) : k \in 1..Len(nodePairs)}
        BY <1>3, <2>1
    <2> QED
        BY <1>3, <1>5, <2>1, <2>2, <2>3 DEF Layout
<1>9. PairsInv'
    <2>1. pc' \in {"fill", "weigh"} => Len(nodePairs') <= totalPairs'
        <3>1. CASE pc = "size"
            <4>1. nodePairs' = <<>>
                BY <1>1, <1>3, <3>1 DEF PairsInv
            <4> QED
                BY <1>6, <4>1
        <3>2. CASE pc = "fill"
            BY <1>1, <1>3, <1>4, <3>2 DEF PairsInv
        <3> QED
            BY <1>4, <3>1, <3>2
    <2>2. pc' = "weigh" => first' = N' + 1
        <3>1. first \in 1..N + 1
            BY <1>1 DEF Typed
        <3> QED
            BY <1>2, <1>3, <1>4, <1>5, <3>1
    <2>3. pc' = "trapped" => nodePairs' = <<>> /\ first' = 1 /\ second' = 2
        BY <1>1, <1>3, <1>4 DEF PairsInv
    <2>4. Layout'
        BY <1>1, <1>4, <1>8 DEF PairsInv
    <2>5. Cardinality(Printed') = Len(printed')
        BY <1>1, <1>3, <1>5 DEF PairsInv
    <2>6. pair' = 0
        BY <1>5 DEF distance
    <2> QED
        BY <1>3, <1>4, <1>5, <2>1, <2>2, <2>3, <2>4, <2>5, <2>6 DEF PairsInv
<1> QED
    BY <1>5, <1>7, <1>9 DEF IInv

LEMMA FillStep ==
    ASSUME IInv, Fill, UNCHANGED <<reader, lists, distance>>
    PROVE  IInv'
<1>1. Typed /\ PairsInv /\ Layout /\ pc = "fill"
    BY DEF IInv, PairsInv, Fill
<1>2. N \in Nat /\ Len(files) = N /\ files \in [1..N -> Nat]
    BY <1>1, TextIs DEF Typed
<1>3. /\ first <= N /\ second <= N /\ second' = second + 1
      /\ UNCHANGED <<files, totalPairs, first, printed, text>>
      /\ pc' \in {"fill", "overrun"}
    BY <1>1, <1>2 DEF Fill, reader
<1>4. /\ N' = N /\ ListsInv' /\ MeanInv' /\ WalkInv'
      /\ printed = <<>> /\ pair = 0 /\ Printed' = Printed
    BY <1>1, <1>3, WalkKeeps
<1>5. first \in 1..N /\ second \in 1..N /\ first < second
    BY <1>1, <1>2, <1>3 DEF Layout, Typed
<1> DEFINE T == [node1 : 1..N, node2 : 1..N, weight : Nat]
           new == [node1 |-> first, node2 |-> second, weight |-> files[first] + files[second]]
<1>6. nodePairs \in Seq(T)
    BY <1>1 DEF Typed
<1>7. new \in T /\ new.node1 = first /\ new.node2 = second
    <2>1. files[first] \in Nat /\ files[second] \in Nat
        BY <1>2, <1>5
    <2>2. files[first] + files[second] \in Nat
        BY <2>1
    <2> QED
        BY <1>5, <2>2
<1>8. CASE Len(nodePairs) < totalPairs
    <2>1. nodePairs' = Append(nodePairs, new) /\ pc' = "fill"
        BY <1>1, <1>8 DEF Fill
    <2>0. PICK n \in Nat : n = Len(nodePairs)
        BY <1>6
    <2> HIDE DEF T, new
    <2>2. /\ nodePairs' \in Seq(T) /\ Len(nodePairs') = n + 1 /\ n \in Nat
          /\ \A k \in 1..n : nodePairs'[k] = nodePairs[k]
          /\ nodePairs'[n + 1] = new
        BY <1>6, <1>7, <2>0, <2>1, AppendProperties
    <2>3. Typed'
        <3>1. printed' \in Seq(1..Len(nodePairs')) /\ pair' \in 0..Len(nodePairs') /\ pair' = 0
            BY <1>3, <1>4, <2>2 DEF distance
        <3>2. nodePairs' \in Seq([node1 : 1..N', node2 : 1..N', weight : Nat])
            BY <1>4, <2>2 DEF T
        <3>3. second' \in Nat
            BY <1>3, <1>5
        <3> QED
            BY <1>1, <1>3, <1>4, <2>1, <3>1, <3>2, <3>3 DEF Typed, reader, distance
    <2>4. \A k \in 1..n : PairOf(k)' = PairOf(k)
        BY <2>2 DEF PairOf
    <2>5. PairOf(n + 1)' = <<first, second>>
        BY <1>7, <2>2 DEF PairOf
    <2>6. Passed' = Passed \cup {<<first, second>>} /\ <<first, second>> \notin Passed
        <3>1. <<first, second>> \notin Passed
            BY <1>5 DEF Passed
        <3>2. \A p \in (1..N) \X (1..N) : p = <<p[1], p[2]>>
            OBVIOUS
        <3>3. Passed \subseteq Passed' /\ <<first, second>> \in Passed'
            BY <1>2, <1>3, <1>4, <1>5 DEF Passed
        <3>4. ASSUME NEW p \in Passed', p \notin Passed PROVE p = <<first, second>>
            <4>1. p \in (1..N) \X (1..N) /\ p[1] < p[2] /\ (p[1] < first \/ (p[1] = first /\ p[2] < second + 1))
                BY <1>3, <1>4, <3>4 DEF Passed
            <4>2. ~(p[1] < first \/ (p[1] = first /\ p[2] < second))
                BY <3>4, <4>1 DEF Passed
            <4>3. p[1] \in Nat /\ p[2] \in Nat
                BY <4>1
            <4>4. p[1] = first /\ p[2] = second
                BY <1>5, <4>1, <4>2, <4>3
            <4> QED
                BY <3>2, <4>1, <4>4
        <3> QED
            BY <3>1, <3>3, <3>4
    <2> DEFINE S == {PairOf(k) : k \in 1..Len(nodePairs)}
    <2>7. S = Passed /\ \A k \in 1..n : PairOf(k) \in Passed
        BY <1>1, <2>0 DEF Layout
    <2>8. {PairOf(k)' : k \in 1..Len(nodePairs')} = Passed'
        <3>1. \A k \in 1..Len(nodePairs') : PairOf(k)' \in Passed'
            <4>1. \A k \in 1..n + 1 : k \in 1..n \/ k = n + 1
                BY <2>2
            <4> QED
                BY <2>2, <2>4, <2>5, <2>6, <2>7, <4>1
        <3>2. ASSUME NEW p \in Passed PROVE \E k \in 1..Len(nodePairs') : PairOf(k)' = p
            <4>1. PICK k \in 1..n : PairOf(k) = p
                BY <2>0, <2>7
            <4>2. k \in 1..Len(nodePairs')
                BY <2>2
            <4> QED
                BY <2>4, <4>1, <4>2
        <3>3. n + 1 \in 1..Len(nodePairs')
            BY <2>2
        <3> HIDE DEF S
        <3> QED
            BY <2>5, <2>6, <3>1, <3>2, <3>3
    <2>9. \A j, k \in 1..n : PairOf(j) = PairOf(k) => j = k
        BY <1>1, <2>0 DEF Layout
    <2>10. \A j, k \in 1..Len(nodePairs') : PairOf(j)' = PairOf(k)' => j = k
        <3>1. \A k \in 1..n + 1 : k \in 1..n \/ k = n + 1
            BY <2>2
        <3> HIDE DEF S
        <3> QED
            BY <2>2, <2>4, <2>5, <2>6, <2>7, <2>9, <3>1
    <2>11. 2 * Len(nodePairs') = (first' - 1) * (2 * N' - first') + 2 * (second' - first' - 1)
        <3>1. 2 * n = (first - 1) * (2 * N - first) + 2 * (second - first - 1)
            BY <1>1, <2>0 DEF Layout
        <3>2. (first - 1) * (2 * N - first) \in Int
            BY <1>2, <1>5
        <3> DEFINE x == (first - 1) * (2 * N - first)
        <3> HIDE DEF x
        <3>3. x \in Int /\ 2 * n = x + 2 * (second - first - 1)
            BY <3>1, <3>2 DEF x
        <3>4. 2 * (n + 1) = x + 2 * ((second + 1) - first - 1)
            BY <1>5, <2>2, <3>3
        <3> QED
            BY <1>3, <1>4, <2>2, <3>4 DEF x
    <2>12. Layout'
        <3>1. first' < second' /\ second' <= N' + 1
            BY <1>2, <1>3, <1>4, <1>5
        <3> QED
            BY <2>8, <2>10, <2>11, <3>1 DEF Layout
    <2>13. PairsInv'
        <3>1. Len(nodePairs') <= totalPairs'
            BY <1>1, <1>3, <1>8, <2>0, <2>2 DEF Typed
        <3>2. Cardinality(Printed') = Len(printed')
            BY <1>1, <1>3, <1>4 DEF PairsInv
        <3>3. pair' = 0
            BY <1>4 DEF distance
        <3> QED
            BY <1>3, <1>4, <2>1, <2>12, <3>1, <3>2, <3>3 DEF PairsInv
    <2> QED
        BY <1>4, <2>3, <2>13 DEF IInv
<1>9. CASE ~(Len(nodePairs) < totalPairs)
    <2>1. nodePairs' = nodePairs /\ pc' = "overrun"
        BY <1>9 DEF Fill
    <2>2. Typed'
        <3>1. second' \in Nat
            BY <1>3, <1>5
        <3> QED
            BY <1>1, <1>3, <1>4, <2>1, <3>1 DEF Typed, reader, distance
    <2>3. PairsInv'
        <3>2. Cardinality(Printed') = Len(printed')
            BY <1>1, <1>3, <1>4 DEF PairsInv
        <3>3. pair' = 0
            BY <1>4 DEF distance
        <3> QED
            BY <1>3, <1>4, <2>1, <3>2, <3>3 DEF PairsInv
    <2> QED
        BY <1>4, <2>2, <2>3 DEF IInv
<1> QED
    BY <1>8, <1>9

LEMMA NextFirstStep ==
    ASSUME IInv, NextFirst, UNCHANGED <<reader, lists, distance>>
    PROVE  IInv'
<1>1. Typed /\ PairsInv /\ Layout /\ pc = "fill"
    BY DEF IInv, PairsInv, NextFirst
<1>2. N \in Nat /\ Len(files) = N
    BY <1>1, TextIs DEF Typed
<1>3. /\ first <= N /\ second > N /\ first' = first + 1 /\ second' = first + 2
      /\ UNCHANGED <<files, totalPairs, nodePairs, printed, text>> /\ pc' = "fill"
    BY <1>1, <1>2 DEF NextFirst, reader
<1>4. /\ N' = N /\ ListsInv' /\ MeanInv' /\ WalkInv'
      /\ printed = <<>> /\ pair = 0 /\ Printed' = Printed
    BY <1>1, <1>3, WalkKeeps
<1>5. first \in 1..N /\ second = N + 1
    BY <1>1, <1>2, <1>3 DEF Layout, Typed
<1>6. Typed'
    <2>1. first' \in 1..N' + 1 /\ second' \in Nat
        BY <1>2, <1>3, <1>4, <1>5
    <2> QED
        BY <1>1, <1>3, <1>4, <2>1 DEF Typed, reader, distance
<1>7. Passed' = Passed
    <2>1. ASSUME NEW p \in (1..N) \X (1..N), p[1] < p[2]
          PROVE  (p[1] < first' \/ (p[1] = first' /\ p[2] < second'))
                    <=> (p[1] < first \/ (p[1] = first /\ p[2] < second))
        <3>1. p[1] \in 1..N /\ p[2] \in 1..N
            OBVIOUS
        <3> QED
            BY <1>2, <1>3, <1>5, <2>1, <3>1
    <2>2. Passed' = {p \in (1..N) \X (1..N) : p[1] < p[2]
                       /\ (p[1] < first' \/ (p[1] = first' /\ p[2] < second'))}
        BY <1>4 DEF Passed
    <2> QED
        BY <2>1, <2>2 DEF Passed
<1>8. Layout'
    <2>1. \A k : PairOf(k)' = PairOf(k)
        BY <1>3 DEF PairOf
    <2>2. {PairOf(k)' : k \in 1..Len(nodePairs')} = Passed'
        <3>1. {PairOf(k)' : k \in 1..Len(nodePairs')} = {PairOf(k) : k \in 1..Len(nodePairs)}
            BY <1>3, <2>1
        <3> QED
            BY <1>1, <1>7, <3>1 DEF Layout
    <2>3. \/ first' = N' + 1 /\ second' = N' + 2
          \/ first' < second' /\ second' <= N' + 1
        BY <1>2, <1>3, <1>4, <1>5
    <2>4. 2 * Len(nodePairs') = (first' - 1) * (2 * N' - first') + 2 * (second' - first' - 1)
        <3>1. 2 * Len(nodePairs) = (first - 1) * (2 * N - first) + 2 * (second - first - 1)
            BY <1>1 DEF Layout
        <3>2. \A a, b \in Int : (a - 1) * (2 * b - a) + 2 * (b + 1 - a - 1)
                                   = (a + 1 - 1) * (2 * b - (a + 1)) + 2 * (a + 2 - (a + 1) - 1)
            OBVIOUS
        <3>3. first \in Int /\ N \in Int
            BY <1>2, <1>5
        <3> QED
            BY <1>3, <1>4, <1>5, <3>1, <3>2, <3>3
    <2>5. \A j, k \in 1..Len(nodePairs') : PairOf(j)' = PairOf(k)' => j = k
        BY <1>1, <1>3, <2>1 DEF Layout
    <2> QED
        BY <2>2, <2>3, <2>4, <2>5 DEF Layout
<1>9. PairsInv'
    <2>1. Len(nodePairs') <= totalPairs'
        BY <1>1, <1>3 DEF PairsInv
    <2>2. Cardinality(Printed') = Len(printed')
        BY <1>1, <1>3, <1>4 DEF PairsInv
    <2>3. pair' = 0
        BY <1>4 DEF distance
    <2> QED
        BY <1>3, <1>4, <1>8, <2>1, <2>2, <2>3 DEF PairsInv
<1> QED
    BY <1>4, <1>6, <1>9 DEF IInv

-----------------------------------------------------------------------------
(***************************************************************************)
(* calculateProbabilities and the distances.                               *)
(***************************************************************************)
\* A list with the same names is in the same order.
LEMMA SameNames ==
    ASSUME NEW list \in Seq(Nodes), NEW more \in Seq(Nodes), Len(more) = Len(list),
           \A i \in 1..Len(list) : more[i].name = list[i].name
    PROVE  /\ Alphabetical(list) => Alphabetical(more)
           /\ NamesOf(more) = NamesOf(list)
<1>1. DOMAIN list = 1..Len(list) /\ DOMAIN more = 1..Len(list)
    BY NodeIs
<1>2. Alphabetical(list) => Alphabetical(more)
    BY <1>1 DEF Alphabetical
<1>3. NamesOf(more) = NamesOf(list)
    BY DEF NamesOf
<1> QED
    BY <1>2, <1>3

LEMMA Scaled ==
    ASSUME NEW list \in Seq(Nodes), Alphabetical(list), NEW q \in Positive, NEW c, c = 2 * q,
           NEW more, more = [i \in DOMAIN list |-> [list[i] EXCEPT !.val = @ * c]]
    PROVE  /\ more \in Seq(Nodes) /\ Alphabetical(more) /\ Even(more)
           /\ Len(more) = Len(list) /\ Total(more) = c * Total(list)
<1>1. /\ Len(list) \in Nat /\ DOMAIN list = 1..Len(list)
      /\ \A i \in 1..Len(list) :
            /\ list[i].name \in Names /\ list[i].val \in Positive
            /\ list[i] = [name |-> list[i].name, val |-> list[i].val]
    BY NodeIs
<1>2. c \in Positive
    BY DEF Positive
<1>3. ASSUME NEW i \in 1..Len(list)
      PROVE  more[i] = [name |-> list[i].name, val |-> list[i].val * c]
    <2>1. more[i] = [list[i] EXCEPT !.val = @ * c]
        BY <1>1
    <2>2. \A a, b, d : [[name |-> a, val |-> b] EXCEPT !.val = d] = [name |-> a, val |-> d]
        OBVIOUS
    <2> QED
        BY <1>1, <2>1, <2>2
<1>4. \A i \in 1..Len(list) : /\ more[i].name = list[i].name
                              /\ more[i].val = c * list[i].val
                              /\ more[i].val = 2 * (q * list[i].val)
                              /\ more[i] \in Nodes
    <2> SUFFICES ASSUME NEW i \in 1..Len(list)
                 PROVE  /\ more[i].name = list[i].name
                        /\ more[i].val = c * list[i].val
                        /\ more[i].val = 2 * (q * list[i].val)
                        /\ more[i] \in Nodes
        OBVIOUS
    <2>1. more[i].name = list[i].name /\ more[i].val = list[i].val * c
        BY <1>3
    <2>2. \A a, b \in Positive : a * (2 * b) = (2 * b) * a /\ a * (2 * b) = 2 * (b * a)
        BY DEF Positive
    <2>3. list[i].val * c \in Positive
        BY <1>1, <1>2, ProductPositive
    <2>4. more[i] \in Nodes
        BY <1>1, <1>3, <2>3 DEF Nodes
    <2> QED
        BY <1>1, <2>1, <2>2, <2>4
<1>5. more \in Seq(Nodes) /\ Len(more) = Len(list)
    <2>1. DOMAIN more = 1..Len(list) /\ more = [i \in 1..Len(list) |-> more[i]]
        BY <1>1
    <2>2. more \in [1..Len(list) -> Nodes]
        BY <1>4, <2>1
    <2> QED
        BY <1>1, <2>2
<1>6. Even(more)
    <2>1. ASSUME NEW i \in 1..Len(more) PROVE \E p \in 1..more[i].val : more[i].val = 2 * p
        <3>1. q * list[i].val \in Positive
            BY <1>1, <1>5, ProductPositive
        <3>2. more[i].val = 2 * (q * list[i].val)
            BY <1>4, <1>5
        <3>3. \A p \in Positive : p \in 1..2 * p
            BY DEF Positive
        <3> QED
            BY <3>1, <3>2, <3>3
    <2> QED
        BY <2>1 DEF Even
<1>7. Alphabetical(more)
    BY <1>4, <1>5, SameNames
<1>8. Total(more) = c * Total(list)
    <2>1. c \in Nat
        BY <1>2 DEF Positive
    <2>2. \A i \in 1..Len(list) : more[i].name = list[i].name /\ more[i].val = c * list[i].val
        BY <1>4
    <2>4. list \in Seq(Nodes) /\ more \in Seq(Nodes) /\ Len(more) = Len(list)
        BY <1>5
    <2>5. \A W : SumOf(more, W) = c * SumOf(list, W)
        BY <2>1, <2>2, <2>4, SumScale
    <2>3. SumOf(more, Names) = c * SumOf(list, Names)
        BY <2>5
    <2> QED
        BY <1>5, <2>3, SumsOf
<1> QED
    BY <1>5, <1>6, <1>7, <1>8

\* While the pairs are printed the array does not change.
LEMMA PrintingKeeps ==
    ASSUME IInv, pc \in {"weigh", "print", "mean", "kld"}, pc' \in {"print", "mean", "kld"},
           UNCHANGED <<text, array>>
    PROVE  /\ N' = N /\ Layout' /\ Len(nodePairs') <= totalPairs' /\ first' = N' + 1
           /\ (UNCHANGED <<printed, pair>> => PairsInv')
<1>1. N' = N /\ Layout' = Layout
    BY LayoutKept
<1>2. Layout /\ Len(nodePairs) <= totalPairs /\ first = N + 1
    BY DEF IInv, PairsInv
<1>3. Layout' /\ Len(nodePairs') <= totalPairs' /\ first' = N' + 1
    BY <1>1, <1>2 DEF array
<1>4. ASSUME UNCHANGED <<printed, pair>> PROVE PairsInv'
    <2>1. Printed' = Printed
        BY <1>4 DEF Printed
    <2> QED
        BY <1>3, <1>4, <2>1 DEF IInv, PairsInv
<1> QED
    BY <1>1, <1>3, <1>4

LEMMA ProbabilitiesStep == IInv /\ calculateProbabilities => IInv'
<1> SUFFICES ASSUME IInv, calculateProbabilities PROVE IInv'
    OBVIOUS
<1> DEFINE scaled(f) == [i \in DOMAIN lists[f] |->
                            [lists[f][i] EXCEPT !.val = @ * (Whole \div files[f])]]
<1>1. /\ pc = "weigh" /\ pc' = "print" /\ lists' = [f \in DOMAIN lists |-> scaled(f)]
      /\ UNCHANGED <<files, array, printed, reader, distance>>
    BY DEF calculateProbabilities
<1>2. Typed /\ ListsInv /\ MeanInv
    BY DEF IInv
<1>3. N' = N /\ PairsInv'
    BY <1>1, PrintingKeeps DEF reader, distance
<1>4. MeanInv' /\ WalkInv'
    BY <1>1, <1>2, DistanceIdle
<1>5. N \in Nat /\ files \in [1..N -> Nat] /\ lists \in [1..N -> Seq(Nodes)] /\ at = N + 1
      /\ numTokens = 0
    <2>1. N \in Nat
        BY <1>2, TextIs DEF Typed
    <2> QED
        BY <1>1, <1>2, <2>1 DEF Typed, ListsInv
<1>6. ASSUME NEW f \in 1..N
      PROVE  /\ scaled(f) \in Seq(Nodes) /\ Alphabetical(scaled(f)) /\ Even(scaled(f))
             /\ scaled(f) # <<>> => Total(scaled(f)) = Whole
    <2> DEFINE list == lists[f]
    <2>1. list \in Seq(Nodes) /\ Alphabetical(list) /\ Total(list) = files[f]
        BY <1>1, <1>2, <1>5 DEF ListsInv
    <2>2. CASE list = <<>>
        <3>1. scaled(f) = <<>>
            BY <2>2
        <3>2. <<>> \in Seq(Nodes) /\ Alphabetical(<<>>) /\ Even(<<>>)
            BY DEF Alphabetical, Even
        <3> HIDE DEF scaled
        <3> QED
            BY <3>1, <3>2
    <2>3. CASE list # <<>>
        <3> HIDE DEF list
        <3>1. Total(list) \in Positive
            BY <2>1, <2>3, PositiveTotal
        <3>2. files[f] # 0
            BY <2>1, <3>1 DEF Positive
        <3>3. PICK q \in Positive : Whole \div files[f] = 2 * q
            BY <1>5, <3>2, Scale
        <3>4. files[f] * (Whole \div files[f]) = Whole
            BY <1>5, <3>2, Scale
        <3> DEFINE c == Whole \div files[f]
        <3>5. scaled(f) = [i \in DOMAIN list |-> [list[i] EXCEPT !.val = @ * c]]
            BY DEF list
        <3>8. c = 2 * q
            BY <3>3
        <3> HIDE DEF scaled, c
        <3>6. /\ scaled(f) \in Seq(Nodes) /\ Alphabetical(scaled(f)) /\ Even(scaled(f))
              /\ Total(scaled(f)) = c * Total(list)
            BY <2>1, <3>5, <3>8, Scaled
        <3>7. c * Total(list) = Whole
            <4>1. c \in Int /\ Total(list) \in Int
                BY <3>1, <3>8 DEF Positive
            <4>2. files[f] * c = Whole
                BY <3>4 DEF c
            <4> QED
                BY <2>1, <4>1, <4>2
        <3> QED
            BY <3>6, <3>7
    <2> QED
        BY <2>2, <2>3
<1> HIDE DEF scaled
<1>7. /\ lists' \in [1..N -> Seq(Nodes)]
      /\ \A f \in 1..N : lists'[f] = scaled(f)
    BY <1>1, <1>5, <1>6
<1>8. Whole' = Whole
    <2>1. files' = files
        BY <1>1
    <2> QED
        BY <2>1 DEF Whole, FoldSeq, FoldFunction, FoldFunctionOnSet, MapThenFoldSet
<1>9. Typed'
    BY <1>1, <1>2, <1>3, <1>7 DEF Typed, array, reader, distance
<1>10. ListsInv'
    BY <1>1, <1>3, <1>5, <1>6, <1>7, <1>8 DEF ListsInv, reader
<1> QED
    BY <1>3, <1>4, <1>9, <1>10 DEF IInv

LEMMA EmptySum == \A W : SumOf(<<>>, W) = 0 /\ NamesOf(<<>>) = {}
<1> SUFFICES ASSUME NEW W PROVE SumOf(<<>>, W) = 0 /\ NamesOf(<<>>) = {}
    OBVIOUS
<1> DEFINE f == [i \in 1..Len(<<>>) |-> IF <<>>[i].name \in W THEN <<>>[i].val ELSE 0]
           q == [k \in 0..0 |-> 0]
<1>1. SumOf(<<>>, W) = SumFunction(f)
    BY DEF SumOf
<1>2. f \in [1..0 -> Int] /\ PrefixSums(f, 0, q) /\ q[0] = 0 /\ 0 \in Nat
    BY DEF PrefixSums
<1>3. NamesOf(<<>>) = {}
    BY DEF NamesOf
<1> HIDE DEF f, q
<1> QED
    BY <1>1, <1>2, <1>3, SumIs

LEMMA ListsKept ==
    ASSUME ListsInv, pc \in {"print", "mean", "kld"}, pc' \in {"print", "mean", "kld", "done"},
           UNCHANGED <<files, reader, lists>>
    PROVE  ListsInv'
<1>1. N' = N
    BY DEF N, reader
<1>2. Whole' = Whole
    BY DEF Whole, FoldSeq, FoldFunction, FoldFunctionOnSet, MapThenFoldSet
<1>3. \A f \in 1..N : /\ Alphabetical(lists[f])
                      /\ Even(lists[f]) /\ (lists[f] # <<>> => Total(lists[f]) = Whole)
    BY DEF ListsInv
<1>4. \A f \in 1..N' : /\ Alphabetical(lists'[f])
                       /\ Even(lists'[f]) /\ (lists'[f] # <<>> => Total(lists'[f]) = Whole')
    BY <1>1, <1>2, <1>3
<1>5. at' = N' + 1 /\ numTokens' = 0
    BY <1>1 DEF ListsInv, reader
<1> HIDE DEF N, Whole
<1> QED
    BY <1>4, <1>5 DEF ListsInv

\* What holds of the two lists of a pair while its distance is computed.
LEMMA PairLists ==
    ASSUME Typed, ListsInv, pc \in {"mean", "kld"}
    PROVE  /\ pair # 0 /\ pair \in 1..Len(nodePairs)
           /\ \A s \in 1..2 : /\ List(s) \in Seq(Nodes) /\ Alphabetical(List(s)) /\ Even(List(s))
                              /\ (List(s) # <<>> => Total(List(s)) = Whole)
<1>1. pair # 0 /\ pair \in 1..Len(nodePairs)
    BY DEF Typed
<1>2. /\ nodePairs[pair].node1 \in 1..N /\ nodePairs[pair].node2 \in 1..N
      /\ List(1) = lists[nodePairs[pair].node1] /\ List(2) = lists[nodePairs[pair].node2]
      /\ List(1) \in Seq(Nodes) /\ List(2) \in Seq(Nodes)
    BY <1>1, ListIs
<1>3. \A f \in 1..N : /\ Alphabetical(lists[f]) /\ Even(lists[f])
                      /\ (lists[f] # <<>> => Total(lists[f]) = Whole)
    BY DEF ListsInv
<1> QED
    BY <1>1, <1>2, <1>3

LEMMA NextPairStep == IInv /\ NextPair => IInv'
<1> SUFFICES ASSUME IInv, NextPair PROVE IInv'
    OBVIOUS
<1>1. /\ pc = "print" /\ pc' = "mean" /\ pair' \in NextLines
      /\ UNCHANGED <<files, array, printed, reader, lists, mean, node1, node2, side, head,
                     meanHead, terms>>
    BY DEF NextPair
<1>2. Typed /\ PairsInv /\ ListsInv /\ MeanInv /\ pair = 0
    BY <1>1 DEF IInv, Typed
<1>3. N' = N /\ Layout' /\ Len(nodePairs') <= totalPairs' /\ first' = N' + 1
    BY <1>1, PrintingKeeps DEF reader
<1>4. DOMAIN nodePairs = 1..Len(nodePairs) /\ Len(nodePairs) \in Nat
      /\ DOMAIN printed = 1..Len(printed)
    BY <1>2 DEF Typed
<1>5. pair' \in 1..Len(nodePairs) /\ pair' \notin Printed
    BY <1>1, <1>4 DEF NextLines, Printed
<1>6. Typed'
    <2>1. pair' \in 0..Len(nodePairs') /\ pair' # 0
        BY <1>1, <1>4, <1>5 DEF array
    <2> QED
        BY <1>1, <1>2, <1>3, <2>1 DEF Typed, array, reader
<1>7. PairsInv'
    <2>1. Printed' = Printed
        BY <1>1 DEF Printed
    <2> QED
        BY <1>1, <1>2, <1>3, <1>5, <2>1 DEF PairsInv
<1>8. ListsInv'
    BY <1>1, <1>2, ListsKept
<1>9. mean' = <<>> /\ node1' = 1 /\ node2' = 1 /\ side' = 1 /\ head' = 1 /\ meanHead' = 1
      /\ terms' = NoTerms
    BY <1>1, <1>2 DEF MeanInv
<1>10. MeanInv'
    <2> DEFINE L1 == List(1)'
               L2 == List(2)'
    <2>1. Len(L1) \in Nat /\ Len(L2) \in Nat
        <3>1. L1 \in Seq(Nodes) /\ L2 \in Seq(Nodes)
            <4>1. (Typed /\ pair # 0 => List(1) \in Seq(Nodes) /\ List(2) \in Seq(Nodes))'
                BY ListIs, PTL
            <4>2. pair' # 0
                BY <1>4, <1>5
            <4> QED
                BY <1>6, <4>1, <4>2
        <3> QED
            BY <3>1
    <2> HIDE DEF L1, L2
    <2>2. SubSeq(L1, 1, 1 - 1) = <<>> /\ SubSeq(L2, 1, 1 - 1) = <<>>
        BY SubSeqEmpty
    <2>3. Alphabetical(<<>>) /\ Even(<<>>) /\ Len(<<>>) = 0
        BY DEF Alphabetical, Even
    <2>4. node1' <= Len(L1) + 1 /\ node2' <= Len(L2) + 1
        BY <1>9, <2>1
    <2>5. NamesOf(mean') = NamesOf(SubSeq(L1, 1, node1' - 1)) \cup NamesOf(SubSeq(L2, 1, node2' - 1))
        BY <1>9, <2>2, EmptySum
    <2>6. ASSUME NEW name
          PROVE  SumOf(mean', {name}) = SumOf(SubSeq(L1, 1, node1' - 1), {name})
                                          + SumOf(SubSeq(L2, 1, node2' - 1), {name})
        <3>1. SumOf(<<>>, {name}) = 0
            BY EmptySum
        <3>2. /\ mean' = <<>> /\ SubSeq(L1, 1, node1' - 1) = <<>>
              /\ SubSeq(L2, 1, node2' - 1) = <<>>
            BY <1>9, <2>2
        <3>3. /\ SumOf(mean', {name}) = 0 /\ SumOf(SubSeq(L1, 1, node1' - 1), {name}) = 0
              /\ SumOf(SubSeq(L2, 1, node2' - 1), {name}) = 0
            BY <3>1, <3>2, Zenon
        <3> QED
            BY <3>3
    <2>7. pair' # 0 /\ pc' = "mean"
        BY <1>1, <1>4, <1>5
    <2> QED
        BY <1>9, <2>3, <2>4, <2>5, <2>6, <2>7 DEF MeanInv, L1, L2
<1>11. WalkInv'
    BY <1>1 DEF WalkInv
<1> QED
    BY <1>6, <1>7, <1>8, <1>10, <1>11 DEF IInv

\* With what the file had before its k-th token read into m, r has what it has before its j-th.
ReadTo(m, list, k, r, j) ==
    /\ r \in Seq(Nodes) /\ Alphabetical(r) /\ Even(r)
    /\ j \in Positive /\ j <= Len(list) + 1
    /\ \E X : /\ NamesOf(r) = NamesOf(m) \cup X
              /\ NamesOf(SubSeq(list, 1, j - 1)) = NamesOf(SubSeq(list, 1, k - 1)) \cup X
    /\ \A W : /\ SumOf(r, W) \in Int /\ SumOf(m, W) \in Int
              /\ SumOf(SubSeq(list, 1, k - 1), W) \in Int
              /\ SumOf(SubSeq(list, 1, j - 1), W) \in Int
              /\ SumOf(r, W) + SumOf(SubSeq(list, 1, k - 1), W)
                    = SumOf(m, W) + SumOf(SubSeq(list, 1, j - 1), W)

\* Reading one token of a file into the mean list, or none when there is none left.
LEMMA MeanHalf ==
    ASSUME NEW m \in Seq(Nodes), Alphabetical(m), Even(m),
           NEW list \in Seq(Nodes), Even(list), NEW k \in Positive, k <= Len(list) + 1,
           NEW r, r = IF k <= Len(list) THEN insertMeanNode(m, list[k]) ELSE m,
           NEW j, j = IF k <= Len(list) THEN k + 1 ELSE k
    PROVE  ReadTo(m, list, k, r, j)
<1>1. Len(list) \in Nat /\ k \in Nat /\ k > 0 /\ \A i \in 1..Len(list) : list[i] \in Nodes
    BY NodeIs DEF Positive
<1>2. \A i \in 0..Len(list) : SubSeq(list, 1, i) \in Seq(Nodes) /\ Len(SubSeq(list, 1, i)) = i
                              /\ \A h \in 1..i : SubSeq(list, 1, i)[h] = list[h]
    <2> SUFFICES ASSUME NEW i \in 0..Len(list)
                 PROVE  /\ SubSeq(list, 1, i) \in Seq(Nodes) /\ Len(SubSeq(list, 1, i)) = i
                        /\ \A h \in 1..i : SubSeq(list, 1, i)[h] = list[h]
        OBVIOUS
    <2>1. \A h \in 1..i : list[h] \in Nodes
        BY <1>1
    <2>2. /\ SubSeq(list, 1, i) \in Seq(Nodes)
          /\ Len(SubSeq(list, 1, i)) = IF 1 <= i THEN i - 1 + 1 ELSE 0
          /\ \A h \in 1..i - 1 + 1 : SubSeq(list, 1, i)[h] = list[1 + h - 1]
        BY <2>1, SubSeqProperties
    <2>3. \A h \in 1..i : h \in 1..i - 1 + 1 /\ 1 + h - 1 = h
        BY <1>1
    <2> QED
        BY <1>1, <2>2, <2>3
<1>3. k - 1 \in 0..Len(list) /\ j - 1 \in 0..Len(list) /\ j \in Positive /\ j <= Len(list) + 1
    BY <1>1 DEF Positive
<1>4. \A l \in Seq(Nodes) : \A W : SumOf(l, W) \in Int
    BY SumsOf
<1>5. CASE k <= Len(list)
    <2> DEFINE node == list[k]
    <2>1. k \in 1..Len(list) /\ node \in Nodes /\ node.name \in Names /\ node.val \in Positive
        <3>1. k \in 1..Len(list)
            BY <1>1, <1>5
        <3>2. list[k] \in Nodes /\ list[k].name \in Names /\ list[k].val \in Positive
            BY <3>1, NodeIs
        <3> QED
            BY <3>1, <3>2
    <2>2. r = Added(m, node.name, node.val)
        BY <1>5, <2>1, InsertionsAdd
    <2>3. /\ r \in Seq(Nodes) /\ Alphabetical(r)
          /\ NamesOf(r) = NamesOf(m) \cup {node.name}
          /\ \A W : SumOf(r, W) = SumOf(m, W) + (IF node.name \in W THEN node.val ELSE 0)
        <3> HIDE DEF node
        <3>1. node.name \in Names /\ node.val \in Positive
            BY <2>1
        <3>2. /\ Added(m, node.name, node.val) \in Seq(Nodes)
              /\ Alphabetical(Added(m, node.name, node.val))
              /\ NamesOf(Added(m, node.name, node.val)) = NamesOf(m) \cup {node.name}
              /\ \A W : SumOf(Added(m, node.name, node.val), W)
                           = SumOf(m, W) + (IF node.name \in W THEN node.val ELSE 0)
            BY <3>1, AddedIs
        <3> QED
            BY <2>2, <3>2
    <2>4. j - 1 = k
        BY <1>1, <1>5
    <2>5. NamesOf(SubSeq(list, 1, k)) = NamesOf(SubSeq(list, 1, k - 1)) \cup {node.name}
        <3>1. /\ Len(SubSeq(list, 1, k)) = k /\ \A h \in 1..k : SubSeq(list, 1, k)[h] = list[h]
              /\ Len(SubSeq(list, 1, k - 1)) = k - 1
              /\ \A h \in 1..k - 1 : SubSeq(list, 1, k - 1)[h] = list[h]
            BY <1>1, <1>2, <1>5
        <3>2. NamesOf(SubSeq(list, 1, k)) = {list[h].name : h \in 1..k}
            BY <3>1 DEF NamesOf
        <3>3. NamesOf(SubSeq(list, 1, k - 1)) = {list[h].name : h \in 1..k - 1}
            BY <3>1 DEF NamesOf
        <3>4. \A h \in 1..k : h = k \/ h \in 1..k - 1
            BY <1>1
        <3>5. k \in 1..k /\ \A h \in 1..k - 1 : h \in 1..k
            BY <1>1
        <3> QED
            BY <3>2, <3>3, <3>4, <3>5
    <2>6. \A W : SumOf(SubSeq(list, 1, k), W)
                   = SumOf(SubSeq(list, 1, k - 1), W) + (IF node.name \in W THEN node.val ELSE 0)
        BY <2>1, SumAppend
    <2>7. Even(r)
        <3> SUFFICES ASSUME NEW i \in 1..Len(r) PROVE \E q \in 1..r[i].val : r[i].val = 2 * q
            BY DEF Even
        <3>1. PICK p \in Positive : node.val = 2 * p
            BY <2>1 DEF Even, Positive
        <3> DEFINE name == r[i].name
        <3>2. r[i].val \in Positive
            BY <2>3, NodeIs
        <3>3. SumOf(r, {name}) = r[i].val
            BY <2>3, Lookup
        <3>4. r[i].val = SumOf(m, {name}) + (IF node.name \in {name} THEN node.val ELSE 0)
            BY <2>3, <3>3
        <3>5. \E q \in Nat : SumOf(m, {name}) = 2 * q
            <4>1. CASE name \in NamesOf(m)
                <5>1. PICK h \in 1..Len(m) : m[h].name = name
                    BY <4>1 DEF NamesOf
                <5>2. SumOf(m, {name}) = m[h].val /\ m[h].val \in Positive
                    <6> HIDE DEF name
                    <6> QED
                        BY <5>1, Lookup, NodeIs
                <5> QED
                    BY <5>2 DEF Even, Positive
            <4>2. CASE name \notin NamesOf(m)
                <5>1. SumOf(m, {name}) = 0
                    <6> HIDE DEF name
                    <6> QED
                        BY <4>2, Lookup
                <5> QED
                    BY <5>1
            <4> QED
                BY <4>1, <4>2
        <3>6. PICK q \in Nat : SumOf(m, {name}) = 2 * q
            BY <3>5
        <3>7. r[i].val = 2 * q \/ r[i].val = 2 * (q + p)
            BY <3>1, <3>4, <3>6 DEF Positive
        <3>8. \A x \in Nat : 2 * x \in Positive => x \in 1..2 * x
            BY DEF Positive
        <3> HIDE DEF name
        <3>9. q + p \in Nat
            BY DEF Positive
        <3>10. CASE r[i].val = 2 * q
            BY <3>2, <3>8, <3>10
        <3>11. CASE r[i].val = 2 * (q + p)
            BY <3>2, <3>8, <3>9, <3>11
        <3> QED
            BY <3>7, <3>10, <3>11
    <2> HIDE DEF node
    <2>8. ASSUME NEW W
          PROVE  /\ SumOf(r, W) \in Int /\ SumOf(m, W) \in Int
                 /\ SumOf(SubSeq(list, 1, k - 1), W) \in Int
                 /\ SumOf(SubSeq(list, 1, j - 1), W) \in Int
                 /\ SumOf(r, W) + SumOf(SubSeq(list, 1, k - 1), W)
                       = SumOf(m, W) + SumOf(SubSeq(list, 1, j - 1), W)
        <3>1. /\ SumOf(r, W) \in Int /\ SumOf(m, W) \in Int
              /\ SumOf(SubSeq(list, 1, k - 1), W) \in Int
              /\ SumOf(SubSeq(list, 1, j - 1), W) \in Int
            BY <1>2, <1>3, <1>4, <2>3
        <3> DEFINE d == IF node.name \in W THEN node.val ELSE 0
        <3>2. d \in Int
            BY <2>1 DEF Positive
        <3>3. SumOf(r, W) = SumOf(m, W) + d
            BY <2>3
        <3>4. SumOf(SubSeq(list, 1, j - 1), W) = SumOf(SubSeq(list, 1, k - 1), W) + d
            BY <2>4, <2>6
        <3> HIDE DEF d
        <3> QED
            BY <3>1, <3>2, <3>3, <3>4
    <2> QED
        BY <1>3, <2>3, <2>4, <2>5, <2>7, <2>8 DEF ReadTo
<1>6. CASE ~(k <= Len(list))
    <2>1. r = m /\ j = k
        BY <1>6
    <2>2. NamesOf(r) = NamesOf(m) \cup {}
          /\ NamesOf(SubSeq(list, 1, j - 1)) = NamesOf(SubSeq(list, 1, k - 1)) \cup {}
        BY <2>1
    <2> QED
        BY <1>2, <1>3, <1>4, <2>1, <2>2 DEF ReadTo
<1> QED
    BY <1>5, <1>6

\* What the steps of a distance leave alone.
LEMMA DistanceKeeps ==
    ASSUME IInv, pc \in {"mean", "kld"}, pc' \in {"mean", "kld"},
           UNCHANGED <<files, array, printed, reader, lists, pair>>
    PROVE  N' = N /\ PairsInv' /\ ListsInv' /\ (\A s : List(s)' = List(s)) /\ OfEither' = OfEither
<1>1. N' = N /\ PairsInv'
    BY PrintingKeeps DEF reader
<1>2. ListsInv'
    BY ListsKept DEF IInv
<1>3. \A s : List(s)' = List(s)
    BY DEF List, array
<1>4. OfEither' = OfEither
    <2>1. List(1)' = List(1) /\ List(2)' = List(2)
        BY <1>3
    <2> QED
        BY <2>1 DEF OfEither, NamesOf
<1> QED
    BY <1>1, <1>2, <1>3, <1>4

LEMMA MeanStepStep == IInv /\ MeanStep => IInv'
<1> SUFFICES ASSUME IInv, MeanStep PROVE IInv'
    OBVIOUS
<1> DEFINE L1 == List(1)
           L2 == List(2)
           m1 == IF node1 <= Len(L1) THEN insertMeanNode(mean, L1[node1]) ELSE mean
           read1 == SubSeq(L1, 1, node1 - 1)
           read2 == SubSeq(L2, 1, node2 - 1)
           now1 == SubSeq(L1, 1, node1' - 1)
           now2 == SubSeq(L2, 1, node2' - 1)
<1>1. /\ pc = "mean" /\ pc' = pc
      /\ mean' = IF node2 <= Len(L2) THEN insertMeanNode(m1, L2[node2]) ELSE m1
      /\ node1' = IF node1 <= Len(L1) THEN node1 + 1 ELSE node1
      /\ node2' = IF node2 <= Len(L2) THEN node2 + 1 ELSE node2
      /\ UNCHANGED <<files, pc, array, printed, reader, lists, pair, side, head, meanHead, terms>>
    BY DEF MeanStep
<1>2. Typed /\ PairsInv /\ ListsInv /\ MeanInv
    BY DEF IInv
<1>3. N' = N /\ PairsInv' /\ ListsInv' /\ (\A s : List(s)' = List(s)) /\ OfEither' = OfEither
    BY <1>1, DistanceKeeps
<1>4. /\ pair # 0 /\ L1 \in Seq(Nodes) /\ Even(L1) /\ L2 \in Seq(Nodes) /\ Even(L2)
    BY <1>1, <1>2, PairLists
<1>5. /\ mean \in Seq(Nodes) /\ Alphabetical(mean) /\ Even(mean)
      /\ node1 \in Positive /\ node2 \in Positive
      /\ node1 <= Len(L1) + 1 /\ node2 <= Len(L2) + 1
      /\ NamesOf(mean) = NamesOf(read1) \cup NamesOf(read2)
      /\ \A name \in OfEither : SumOf(mean, {name}) = SumOf(read1, {name}) + SumOf(read2, {name})
    BY <1>1, <1>2 DEF Typed, MeanInv
<1> HIDE DEF L1, L2
<1>6. /\ m1 \in Seq(Nodes) /\ Alphabetical(m1) /\ Even(m1)
      /\ node1' \in Positive /\ node1' <= Len(L1) + 1
      /\ \E X : /\ NamesOf(m1) = NamesOf(mean) \cup X
                /\ NamesOf(now1) = NamesOf(read1) \cup X
      /\ \A W : /\ SumOf(m1, W) \in Int /\ SumOf(mean, W) \in Int
                /\ SumOf(read1, W) \in Int /\ SumOf(now1, W) \in Int
                /\ SumOf(m1, W) + SumOf(read1, W) = SumOf(mean, W) + SumOf(now1, W)
    <2>1. m1 = IF node1 <= Len(L1) THEN insertMeanNode(mean, L1[node1]) ELSE mean
        OBVIOUS
    <2> HIDE DEF m1
    <2>2. mean \in Seq(Nodes) /\ Alphabetical(mean) /\ Even(mean) /\ L1 \in Seq(Nodes) /\ Even(L1)
          /\ node1 \in Positive /\ node1 <= Len(L1) + 1
        BY <1>4, <1>5
    <2>3. node1' = IF node1 <= Len(L1) THEN node1 + 1 ELSE node1
        BY <1>1
    <2>4. ReadTo(mean, L1, node1, m1, node1')
        BY <2>1, <2>2, <2>3, MeanHalf
    <2> QED
        BY <2>4 DEF ReadTo
<1> HIDE DEF m1, read1, now1
<1>7. /\ mean' \in Seq(Nodes) /\ Alphabetical(mean') /\ Even(mean')
      /\ node2' \in Positive /\ node2' <= Len(L2) + 1
      /\ \E X : /\ NamesOf(mean') = NamesOf(m1) \cup X
                /\ NamesOf(now2) = NamesOf(read2) \cup X
      /\ \A W : /\ SumOf(mean', W) \in Int /\ SumOf(m1, W) \in Int
                /\ SumOf(read2, W) \in Int /\ SumOf(now2, W) \in Int
                /\ SumOf(mean', W) + SumOf(read2, W) = SumOf(m1, W) + SumOf(now2, W)
    <2>2. m1 \in Seq(Nodes) /\ Alphabetical(m1) /\ Even(m1) /\ L2 \in Seq(Nodes) /\ Even(L2)
          /\ node2 \in Positive /\ node2 <= Len(L2) + 1
        BY <1>4, <1>5, <1>6
    <2>3. /\ mean' = IF node2 <= Len(L2) THEN insertMeanNode(m1, L2[node2]) ELSE m1
          /\ node2' = IF node2 <= Len(L2) THEN node2 + 1 ELSE node2
        BY <1>1
    <2>4. ReadTo(m1, L2, node2, mean', node2')
        BY <2>2, <2>3, MeanHalf
    <2> QED
        BY <2>4 DEF ReadTo
<1> HIDE DEF read2, now2
<1>8. NamesOf(mean') = NamesOf(now1) \cup NamesOf(now2)
    BY <1>5, <1>6, <1>7
<1>9. ASSUME NEW name \in OfEither
      PROVE  SumOf(mean', {name}) = SumOf(now1, {name}) + SumOf(now2, {name})
    <2>5. PICK W : W = {name}
        OBVIOUS
    <2>1. /\ SumOf(m1, W) \in Int /\ SumOf(mean, W) \in Int /\ SumOf(mean', W) \in Int
          /\ SumOf(read1, W) \in Int /\ SumOf(now1, W) \in Int
          /\ SumOf(read2, W) \in Int /\ SumOf(now2, W) \in Int
          /\ SumOf(m1, W) + SumOf(read1, W) = SumOf(mean, W) + SumOf(now1, W)
          /\ SumOf(mean', W) + SumOf(read2, W) = SumOf(m1, W) + SumOf(now2, W)
        BY <1>6, <1>7
    <2>2. SumOf(mean, W) = SumOf(read1, W) + SumOf(read2, W)
        BY <1>5, <2>5
    <2>3. SumOf(mean', W) = SumOf(now1, W) + SumOf(now2, W)
        <3>1. PICK a \in Int, b \in Int, c \in Int, d \in Int, e \in Int, f \in Int, g \in Int :
                /\ a = SumOf(m1, W) /\ b = SumOf(mean, W) /\ c = SumOf(mean', W)
                /\ d = SumOf(read1, W) /\ e = SumOf(now1, W)
                /\ f = SumOf(read2, W) /\ g = SumOf(now2, W)
            BY <2>1, Zenon
        <3>2. a + d = b + e /\ c + f = a + g /\ b = d + f
            BY <2>1, <2>2, <3>1
        <3>3. c = e + g
            BY <3>2
        <3> QED
            BY <3>1, <3>3
    <2> QED
        BY <2>3, <2>5
<1>10. Typed'
    BY <1>1, <1>2, <1>3, <1>6, <1>7 DEF Typed, array, reader
<1>11. MeanInv'
    <2>1. List(1)' = L1 /\ List(2)' = L2
        BY <1>3 DEF L1, L2
    <2>2. now1 = SubSeq(List(1)', 1, node1' - 1) /\ now2 = SubSeq(List(2)', 1, node2' - 1)
        BY <2>1 DEF now1, now2
    <2>3. node1' <= Len(List(1)') + 1 /\ node2' <= Len(List(2)') + 1
        BY <1>6, <1>7, <2>1
    <2>4. \A name \in OfEither' : SumOf(mean', {name}) = SumOf(now1, {name}) + SumOf(now2, {name})
        BY <1>3, <1>9
    <2>5. side' = 1 /\ head' = 1 /\ meanHead' = 1 /\ terms' = NoTerms
        BY <1>1, <1>2 DEF MeanInv
    <2>6. pair' # 0 /\ pc' = "mean"
        BY <1>1, <1>4
    <2> QED
        BY <1>7, <1>8, <2>2, <2>3, <2>4, <2>5, <2>6 DEF MeanInv
<1>12. WalkInv'
    BY <1>1 DEF WalkInv
<1> QED
    BY <1>3, <1>10, <1>11, <1>12 DEF IInv

\* The names of the mean list are found from its beginning on.
LEMMA WalkStarts ==
    ASSUME NEW list \in Seq(Nodes), NEW m \in Seq(Nodes), NamesOf(list) \subseteq NamesOf(m)
    PROVE  \A j \in 1..Len(list) : \E k \in 1..Len(m) : m[k].name = list[j].name
BY DEF NamesOf

LEMMA MeanDoneStep == IInv /\ MeanDone => IInv'
<1> SUFFICES ASSUME IInv, MeanDone PROVE IInv'
    OBVIOUS
<1> DEFINE L1 == List(1)
           L2 == List(2)
<1>1. /\ pc = "mean" /\ pc' = "kld" /\ node1 > Len(L1) /\ node2 > Len(L2)
      /\ mean' = [i \in DOMAIN mean |-> [mean[i] EXCEPT !.val = @ \div 2]]
      /\ side' = 1 /\ head' = 1 /\ meanHead' = 1
      /\ UNCHANGED <<files, array, printed, reader, lists, pair, node1, node2, terms>>
    BY DEF MeanDone
<1>2. Typed /\ PairsInv /\ ListsInv /\ MeanInv
    BY DEF IInv
<1>3. N' = N /\ PairsInv' /\ ListsInv' /\ (\A s : List(s)' = List(s)) /\ OfEither' = OfEither
    BY <1>1, DistanceKeeps
<1>4. /\ pair # 0 /\ L1 \in Seq(Nodes) /\ L2 \in Seq(Nodes)
      /\ Len(L1) \in Nat /\ Len(L2) \in Nat
    <2>1. pair # 0 /\ L1 \in Seq(Nodes) /\ L2 \in Seq(Nodes)
        BY <1>1, <1>2, PairLists
    <2> QED
        BY <2>1, NodeIs
<1>5. /\ mean \in Seq(Nodes) /\ Alphabetical(mean) /\ Even(mean)
      /\ node1 \in Positive /\ node2 \in Positive
      /\ node1 <= Len(L1) + 1 /\ node2 <= Len(L2) + 1
      /\ NamesOf(mean) = NamesOf(SubSeq(L1, 1, node1 - 1)) \cup NamesOf(SubSeq(L2, 1, node2 - 1))
      /\ \A name \in OfEither :
            SumOf(mean, {name}) = SumOf(SubSeq(L1, 1, node1 - 1), {name})
                                    + SumOf(SubSeq(L2, 1, node2 - 1), {name})
      /\ side = 1 /\ head = 1 /\ meanHead = 1 /\ terms = NoTerms
    BY <1>1, <1>2 DEF Typed, MeanInv
<1>6. SubSeq(L1, 1, node1 - 1) = L1 /\ SubSeq(L2, 1, node2 - 1) = L2
    <2>1. node1 - 1 = Len(L1) /\ node2 - 1 = Len(L2)
        BY <1>1, <1>4, <1>5 DEF Positive
    <2> HIDE DEF L1, L2
    <2> QED
        BY <1>4, <2>1, SubSeqFull
<1>7. /\ Len(mean) \in Nat /\ DOMAIN mean = 1..Len(mean)
      /\ \A i \in 1..Len(mean) : /\ mean[i].name \in Names /\ mean[i].val \in Positive
                                 /\ mean[i] = [name |-> mean[i].name, val |-> mean[i].val]
    BY <1>5, NodeIs
<1>8. ASSUME NEW i \in 1..Len(mean)
      PROVE  mean'[i] \in Nodes /\ mean'[i].name = mean[i].name /\ mean[i].val = 2 * mean'[i].val
    <2>1. mean'[i] = [mean[i] EXCEPT !.val = @ \div 2]
        BY <1>1, <1>7
    <2>2. \A a, b, d : [[name |-> a, val |-> b] EXCEPT !.val = d] = [name |-> a, val |-> d]
        OBVIOUS
    <2>3. mean'[i] = [name |-> mean[i].name, val |-> mean[i].val \div 2]
        BY <1>7, <2>1, <2>2
    <2>4. PICK q \in 1..mean[i].val : mean[i].val = 2 * q
        BY <1>5 DEF Even
    <2>5. mean[i].val \div 2 = q /\ q \in Positive
        BY <1>7, <2>4 DEF Positive
    <2> QED
        BY <1>7, <2>3, <2>4, <2>5 DEF Nodes
<1>9. mean' \in Seq(Nodes) /\ Len(mean') = Len(mean)
    <2>1. DOMAIN mean' = 1..Len(mean) /\ mean' = [i \in 1..Len(mean) |-> mean'[i]]
        BY <1>1, <1>7
    <2>2. mean' \in [1..Len(mean) -> Nodes]
        BY <1>8, <2>1
    <2> QED
        BY <1>7, <2>2
<1>10. Alphabetical(mean') /\ NamesOf(mean') = NamesOf(mean)
    BY <1>5, <1>8, <1>9, SameNames
<1>11. \A W : SumOf(mean, W) = 2 * SumOf(mean', W)
    <2>1. Len(mean) = Len(mean')
          /\ \A i \in 1..Len(mean') : mean[i].name = mean'[i].name /\ mean[i].val = 2 * mean'[i].val
        BY <1>8, <1>9
    <2>2. 2 \in Nat /\ mean \in Seq(Nodes) /\ mean' \in Seq(Nodes)
        BY <1>5, <1>9
    <2> QED
        BY <2>1, <2>2, SumScale
<1>12. Typed'
    <2>1. 1 \in Positive /\ 1 \in 1..2
        BY DEF Positive
    <2> QED
        BY <1>1, <1>2, <1>3, <1>9, <2>1 DEF Typed, array, reader
<1>13. NamesOf(mean') = OfEither
    BY <1>5, <1>6, <1>10 DEF OfEither
<1>14. ASSUME NEW name \in OfEither
       PROVE  2 * SumOf(mean', {name}) = SumOf(L1, {name}) + SumOf(L2, {name})
    BY <1>5, <1>6, <1>11
<1>15. MeanInv'
    <2>1. List(1)' = L1 /\ List(2)' = L2
        BY <1>3
    <2>2. pair' # 0 /\ pc' = "kld"
        BY <1>1, <1>4
    <2> HIDE DEF L1, L2
    <2> QED
        BY <1>3, <1>10, <1>13, <1>14, <2>1, <2>2 DEF MeanInv
<1>16. WalkInv'
    <2>1. List(side)' = L1
        BY <1>1 DEF List, array
    <2>2. \A j \in 1..Len(L1) : \E k \in 1..Len(mean') : mean'[k].name = L1[j].name
        <3>1. NamesOf(L1) \subseteq NamesOf(mean')
            BY <1>13 DEF OfEither
        <3> HIDE DEF L1
        <3> QED
            BY <1>4, <1>9, <3>1, WalkStarts
    <2>3. terms' = <<<<>>, <<>>>> /\ terms'[1] = <<>> /\ terms'[2] = <<>> /\ Len(<<>>) = 0
        BY <1>1, <1>5 DEF NoTerms
    <2>4. TermsUpTo(side, head - 1)'
        BY <1>1, <2>3 DEF TermsUpTo
    <2>5. head' <= Len(L1) + 1 /\ meanHead' <= Len(mean') + 1
        BY <1>1, <1>4, <1>7, <1>9
    <2> HIDE DEF L1
    <2>6. (\A j \in head..Len(List(side)) :
              \E k \in meanHead..Len(mean) : mean[k].name = List(side)[j].name)'
        BY <1>1, <2>1, <2>2
    <2>7. (head <= Len(List(side)) + 1 /\ meanHead <= Len(mean) + 1)'
        BY <2>1, <2>5
    <2>8. (side = 1 => terms[2] = <<>>)' /\ side' # 2
        BY <1>1, <2>3
    <2> QED
        BY <2>4, <2>6, <2>7, <2>8 DEF WalkInv
<1> QED
    BY <1>3, <1>12, <1>15, <1>16 DEF IInv

-----------------------------------------------------------------------------
(***************************************************************************)
(* The walk through the mean list and the list of a file.                  *)
(***************************************************************************)
\* The frequency of a token is at most twice its mean.
LEMMA AtMostDouble ==
    ASSUME Typed, ListsInv, MeanInv, pc = "kld", NEW i \in 1..Len(mean),
           NEW s \in 1..2, NEW j \in 1..Len(List(s)), mean[i].name = List(s)[j].name
    PROVE  /\ List(s)[j].name \in Names /\ List(s)[j].val \in Positive
           /\ mean[i].val \in Positive /\ List(s)[j].val <= 2 * mean[i].val
<1> DEFINE name == List(s)[j].name
<1>1. \A t \in 1..2 : List(t) \in Seq(Nodes) /\ Alphabetical(List(t))
    BY PairLists
<1>2. mean \in Seq(Nodes) /\ Alphabetical(mean)
    BY DEF Typed, MeanInv
<1>3. List(s) \in Seq(Nodes) /\ Alphabetical(List(s))
    BY <1>1
<1>4. List(s)[j].name \in Names /\ List(s)[j].val \in Positive
    BY <1>3, NodeIs
<1>5. mean[i].val \in Positive /\ mean[i].name = name
    BY <1>2, NodeIs
<1>6. SumOf(List(s), {name}) = List(s)[j].val
    BY <1>3, Lookup
<1>8. name \in OfEither
    <2>1. name \in NamesOf(List(s))
        BY DEF NamesOf
    <2> QED
        BY <2>1 DEF OfEither
<1> HIDE DEF name
<1>7. SumOf(mean, {name}) = mean[i].val
    BY <1>2, <1>5, Lookup
<1>9. 2 * SumOf(mean, {name}) = SumOf(List(1), {name}) + SumOf(List(2), {name})
    BY <1>8 DEF MeanInv
<1>10. ASSUME NEW t \in 1..2 PROVE SumOf(List(t), {name}) \in Nat
    <2>1. List(t) \in Seq(Nodes) /\ Alphabetical(List(t))
        BY <1>1
    <2>2. CASE name \in NamesOf(List(t))
        <3>1. PICK k \in 1..Len(List(t)) : List(t)[k].name = name
            BY <2>2 DEF NamesOf
        <3>2. SumOf(List(t), {name}) = List(t)[k].val
            BY <2>1, <3>1, Lookup
        <3>3. List(t)[k].val \in Nat
            BY <2>1, NodeIs
        <3> QED
            BY <3>2, <3>3
    <2>3. CASE name \notin NamesOf(List(t))
        <3>1. SumOf(List(t), {name}) = 0
            BY <2>1, <2>3, Lookup
        <3> QED
            BY <3>1
    <2> QED
        BY <2>2, <2>3
<1>11. SumOf(List(1), {name}) \in Nat /\ SumOf(List(2), {name}) \in Nat
    BY <1>10
<1>12. List(s)[j].val <= 2 * mean[i].val
    <2>1. s = 1 \/ s = 2
        OBVIOUS
    <2>2. 2 * mean[i].val = SumOf(List(1), {name}) + SumOf(List(2), {name})
        BY <1>7, <1>9
    <2>3. List(s)[j].val = SumOf(List(1), {name}) \/ List(s)[j].val = SumOf(List(2), {name})
        BY <1>6, <2>1
    <2> QED
        BY <1>11, <2>2, <2>3
<1> QED
    BY <1>4, <1>5, <1>12

\* Two places of an alphabetical list hold different names, in their order.
LEMMA Distinct ==
    ASSUME NEW list \in Seq(Nodes), Alphabetical(list),
           NEW i \in 1..Len(list), NEW j \in 1..Len(list)
    PROVE  /\ list[i].name = list[j].name => i = j
           /\ i < j => Before(list[i].name, list[j].name)
<1>1. DOMAIN list = 1..Len(list) /\ Len(list) \in Nat
      /\ list[i].name \in Names /\ list[j].name \in Names
    BY NodeIs
<1>2. \A k, l \in 1..Len(list) : k < l => Before(list[k].name, list[l].name)
    BY <1>1 DEF Alphabetical
<1>3. ASSUME list[i].name = list[j].name PROVE i = j
    <2>1. ~Before(list[i].name, list[j].name) /\ ~Before(list[j].name, list[i].name)
        BY <1>1, <1>3, BeforeNotSelf
    <2>2. ~(i < j) /\ ~(j < i)
        BY <1>2, <2>1
    <2> QED
        BY <1>1, <2>2
<1> QED
    BY <1>2, <1>3

\* What the walk has before it, in terms of the state only.
LEMMA WalkIs ==
    ASSUME IInv, pc = "kld"
    PROVE  /\ pair # 0 /\ side \in 1..2
           /\ List(side) \in Seq(Nodes) /\ Alphabetical(List(side)) /\ Len(List(side)) \in Nat
           /\ mean \in Seq(Nodes) /\ Alphabetical(mean) /\ Len(mean) \in Nat
           /\ head \in 1..Len(List(side)) + 1 /\ meanHead \in 1..Len(mean) + 1
           /\ TermsUpTo(side, head - 1)
           /\ \A j \in head..Len(List(side)) :
                 \E k \in meanHead..Len(mean) : mean[k].name = List(side)[j].name
<1>1. Typed /\ ListsInv /\ MeanInv /\ WalkInv
    BY DEF IInv
<1>2. pair # 0 /\ side \in 1..2 /\ mean \in Seq(Nodes) /\ head \in Positive /\ meanHead \in Positive
    BY <1>1 DEF Typed
<1>3. List(side) \in Seq(Nodes) /\ Alphabetical(List(side))
    BY <1>1, <1>2, PairLists
<1>4. Len(List(side)) \in Nat /\ Len(mean) \in Nat
    BY <1>2, <1>3, NodeIs
<1>5. Alphabetical(mean)
    BY <1>1 DEF MeanInv
<1>6. head <= Len(List(side)) + 1 /\ meanHead <= Len(mean) + 1
    BY <1>1 DEF WalkInv
<1>7. head \in 1..Len(List(side)) + 1 /\ meanHead \in 1..Len(mean) + 1
    BY <1>2, <1>4, <1>6 DEF Positive
<1>8. /\ TermsUpTo(side, head - 1)
      /\ \A j \in head..Len(List(side)) :
            \E k \in meanHead..Len(mean) : mean[k].name = List(side)[j].name
    BY <1>1 DEF WalkInv
<1> QED
    BY <1>2, <1>3, <1>4, <1>5, <1>7, <1>8

\* The steps of the walk leave the lists and the mean list alone.
LEMMA WalkStepKeeps ==
    ASSUME IInv, pc = "kld",
           UNCHANGED <<files, pc, array, printed, reader, lists, pair, mean, node1, node2>>
    PROVE  /\ N' = N /\ PairsInv' /\ ListsInv' /\ MeanInv'
           /\ \A s : List(s)' = List(s)
<1>1. N' = N /\ PairsInv' /\ ListsInv' /\ (\A s : List(s)' = List(s)) /\ OfEither' = OfEither
    BY DistanceKeeps
<1>2. NamesOf(mean') = NamesOf(mean) /\ Alphabetical(mean)
    BY DEF IInv, MeanInv
<1>3. List(1)' = List(1) /\ List(2)' = List(2)
    BY <1>1
<1>4. MeanInv /\ Typed
    BY DEF IInv
<1>5. MeanInv'
    <2>1. pair' # 0
        BY <1>4 DEF Typed
    <2>2. /\ NamesOf(mean) = OfEither
          /\ \A name \in OfEither :
                2 * SumOf(mean, {name}) = SumOf(List(1), {name}) + SumOf(List(2), {name})
        BY <1>4 DEF MeanInv
    <2>3. /\ NamesOf(mean') = OfEither'
          /\ \A name \in OfEither' :
                2 * SumOf(mean', {name}) = SumOf(List(1)', {name}) + SumOf(List(2)', {name})
        BY <1>1, <1>3, <2>2
    <2> QED
        BY <1>2, <2>1, <2>3 DEF MeanInv
<1> QED
    BY <1>1, <1>5

LEMMA WeighStep == IInv /\ Weigh => IInv'
<1> SUFFICES ASSUME IInv, Weigh PROVE IInv'
    OBVIOUS
<1> DEFINE term == [name |-> mean[meanHead].name, val |-> List(side)[head].val,
                    mean |-> mean[meanHead].val]
           T == [name : Names, val : Positive, mean : Positive]
<1>1. /\ pc = "kld" /\ pc' = pc /\ meanHead <= Len(mean) /\ head <= Len(List(side))
      /\ mean[meanHead].name = List(side)[head].name
      /\ terms' = [terms EXCEPT ![side] = Append(@, term)]
      /\ head' = head + 1 /\ meanHead' = meanHead + 1
      /\ UNCHANGED <<files, pc, array, printed, reader, lists, pair, mean, node1, node2, side>>
    BY DEF Weigh, Walking, SameToken
<1>2. Typed /\ ListsInv /\ MeanInv /\ WalkInv
    BY DEF IInv
<1>3. N' = N /\ PairsInv' /\ ListsInv' /\ MeanInv' /\ \A s : List(s)' = List(s)
    BY <1>1, WalkStepKeeps
<1>4. /\ pair # 0 /\ side \in 1..2
      /\ List(side) \in Seq(Nodes) /\ Alphabetical(List(side)) /\ Len(List(side)) \in Nat
      /\ mean \in Seq(Nodes) /\ Alphabetical(mean) /\ Len(mean) \in Nat
      /\ head \in 1..Len(List(side)) + 1 /\ meanHead \in 1..Len(mean) + 1
      /\ TermsUpTo(side, head - 1)
      /\ \A j \in head..Len(List(side)) :
            \E k \in meanHead..Len(mean) : mean[k].name = List(side)[j].name
    BY <1>1, WalkIs
<1>5. head \in 1..Len(List(side)) /\ meanHead \in 1..Len(mean)
    BY <1>1, <1>4
<1>6. /\ List(side)[head].name \in Names /\ List(side)[head].val \in Positive
      /\ mean[meanHead].val \in Positive /\ List(side)[head].val <= 2 * mean[meanHead].val
    BY <1>1, <1>2, <1>4, <1>5, AtMostDouble
<1>7. term \in T /\ term.name = List(side)[head].name /\ term.val = List(side)[head].val
      /\ term.mean = mean[meanHead].val
    BY <1>1, <1>6
<1>8. terms \in [1..2 -> Seq(T)]
    BY <1>2 DEF Typed
<1> DEFINE more == Append(terms[side], term)
<1>9. \A s \in 1..2 : terms'[s] = IF s = side THEN more ELSE terms[s]
    BY <1>1, <1>4, <1>8
<1> HIDE DEF term, T
<1>10. /\ more \in Seq(T) /\ Len(more) = Len(terms[side]) + 1
       /\ \A i \in 1..Len(terms[side]) : more[i] = terms[side][i]
       /\ more[Len(terms[side]) + 1] = term
    <2>1. terms[side] \in Seq(T)
        BY <1>4, <1>8
    <2> QED
        BY <1>7, <2>1, AppendProperties
<1>11. terms' \in [1..2 -> Seq(T)]
    <2> HIDE DEF more
    <2>1. terms' = [terms EXCEPT ![side] = more]
        BY <1>1 DEF more
    <2> QED
        BY <1>4, <1>8, <1>10, <2>1
<1> HIDE DEF more
<1>12. Typed'
    <2>1. head' \in Positive /\ meanHead' \in Positive
        BY <1>1, <1>5 DEF Positive
    <2> QED
        BY <1>1, <1>2, <1>3, <1>11, <2>1 DEF Typed, array, reader, T
<1>13. List(side)' = List(side)
    BY <1>1 DEF List, array
<1>14. TermsUpTo(side, head - 1)'
    <2>1. head' - 1 = head /\ Len(terms[side]) = head - 1
        BY <1>1, <1>4, <1>5 DEF TermsUpTo
    <2>2. Len(terms'[side']) = head
        BY <1>1, <1>4, <1>5, <1>9, <1>10, <2>1
    <2>3. ASSUME NEW i \in 1..head
          PROVE  /\ terms'[side'][i].name = List(side)[i].name
                 /\ terms'[side'][i].val = List(side)[i].val
                 /\ terms'[side'][i].val <= 2 * terms'[side'][i].mean
        <3>1. terms'[side'] = more
            BY <1>1, <1>4, <1>9
        <3>2. CASE i = head
            <4>1. more[i] = term
                BY <1>5, <1>10, <2>1, <3>2
            <4> QED
                BY <1>6, <1>7, <3>1, <3>2, <4>1
        <3>3. CASE i # head
            <4>1. i \in 1..head - 1
                BY <1>5, <3>3
            <4>2. more[i] = terms[side][i]
                BY <1>10, <2>1, <4>1
            <4> QED
                BY <1>4, <3>1, <4>1, <4>2 DEF TermsUpTo
        <3> QED
            BY <3>2, <3>3
    <2> QED
        BY <1>13, <2>1, <2>2, <2>3 DEF TermsUpTo
<1>15. ASSUME side = 2 PROVE TermsUpTo(1, Len(List(1)))'
    <2>1. TermsUpTo(1, Len(List(1)))
        BY <1>1, <1>2, <1>15 DEF WalkInv
    <2>2. terms'[1] = terms[1] /\ List(1)' = List(1)
        BY <1>3, <1>9, <1>15
    <2> QED
        BY <2>1, <2>2 DEF TermsUpTo
<1>16. ASSUME NEW j \in head + 1..Len(List(side))
       PROVE  \E k \in meanHead + 1..Len(mean) : mean[k].name = List(side)[j].name
    <2>1. j \in head..Len(List(side)) /\ j \in 1..Len(List(side)) /\ j # head
        BY <1>4, <1>5
    <2>2. PICK k \in meanHead..Len(mean) : mean[k].name = List(side)[j].name
        BY <1>4, <2>1
    <2>3. k # meanHead
        BY <1>1, <1>4, <1>5, <2>1, <2>2, Distinct
    <2>4. k \in meanHead + 1..Len(mean)
        BY <1>4, <1>5, <2>2, <2>3
    <2> QED
        BY <2>2, <2>4
<1>17. WalkInv'
    <2>1. (head <= Len(List(side)) + 1 /\ meanHead <= Len(mean) + 1)'
        BY <1>1, <1>4, <1>5, <1>13
    <2>2. (side = 1 => terms[2] = <<>>)'
        <3>1. ASSUME side = 1 PROVE terms'[2] = terms[2] /\ terms[2] = <<>>
            BY <1>1, <1>2, <1>9, <3>1 DEF WalkInv
        <3> QED
            BY <1>1, <3>1
    <2>3. (\A j \in head..Len(List(side)) :
              \E k \in meanHead..Len(mean) : mean[k].name = List(side)[j].name)'
        BY <1>1, <1>13, <1>16
    <2>4. (side = 2 => TermsUpTo(1, Len(List(1))))'
        BY <1>1, <1>15
    <2> QED
        BY <1>14, <2>1, <2>2, <2>3, <2>4 DEF WalkInv
<1> QED
    BY <1>3, <1>12, <1>17 DEF IInv

LEMMA SkipStep == IInv /\ Skip => IInv'
<1> SUFFICES ASSUME IInv, Skip PROVE IInv'
    OBVIOUS
<1>1. /\ pc = "kld" /\ pc' = pc /\ meanHead <= Len(mean) /\ head <= Len(List(side))
      /\ mean[meanHead].name # List(side)[head].name /\ meanHead' = meanHead + 1
      /\ UNCHANGED <<files, pc, array, printed, reader, lists, pair, mean, node1, node2,
                     side, head, terms>>
    BY DEF Skip, Walking, SameToken
<1>2. Typed /\ WalkInv
    BY DEF IInv
<1>3. N' = N /\ PairsInv' /\ ListsInv' /\ MeanInv' /\ \A s : List(s)' = List(s)
    BY <1>1, WalkStepKeeps
<1>4. /\ pair # 0 /\ side \in 1..2
      /\ List(side) \in Seq(Nodes) /\ Alphabetical(List(side)) /\ Len(List(side)) \in Nat
      /\ mean \in Seq(Nodes) /\ Alphabetical(mean) /\ Len(mean) \in Nat
      /\ head \in 1..Len(List(side)) + 1 /\ meanHead \in 1..Len(mean) + 1
      /\ \A j \in head..Len(List(side)) :
            \E k \in meanHead..Len(mean) : mean[k].name = List(side)[j].name
    BY <1>1, WalkIs
<1>5. head \in 1..Len(List(side)) /\ meanHead \in 1..Len(mean)
    BY <1>1, <1>4
<1>6. Typed'
    <2>1. meanHead' \in Positive
        BY <1>1, <1>5 DEF Positive
    <2> QED
        BY <1>1, <1>2, <1>3, <2>1 DEF Typed, array, reader
<1>7. List(side)' = List(side) /\ List(1)' = List(1)
    BY <1>1 DEF List, array
\* What is before the head in the list is before it in the mean list too.
<1>8. ASSUME NEW j \in head..Len(List(side))
      PROVE  \E k \in meanHead + 1..Len(mean) : mean[k].name = List(side)[j].name
    <2>1. PICK k \in meanHead..Len(mean) : mean[k].name = List(side)[j].name
        BY <1>4
    <2>2. PICK h \in meanHead..Len(mean) : mean[h].name = List(side)[head].name
        BY <1>4, <1>5
    <2>3. h # meanHead /\ h \in 1..Len(mean) /\ meanHead < h
        BY <1>1, <1>5, <2>2
    <2>4. ASSUME k = meanHead PROVE FALSE
        <3>1. Before(mean[meanHead].name, mean[h].name)
            BY <1>4, <1>5, <2>3, Distinct
        <3>2. j # head
            BY <1>1, <2>1, <2>4
        <3>3. j \in 1..Len(List(side)) /\ head < j
            BY <1>4, <1>5, <3>2
        <3>4. Before(List(side)[head].name, List(side)[j].name)
            BY <1>4, <1>5, <3>3, Distinct
        <3>5. Before(mean[h].name, mean[meanHead].name)
            BY <2>1, <2>2, <2>4, <3>4
        <3>6. mean[h].name \in Names /\ mean[meanHead].name \in Names
            BY <1>4, <1>5, <2>3, NodeIs
        <3>7. Before(mean[h].name, mean[h].name)
            BY <3>1, <3>5, <3>6, BeforeTransitive
        <3> QED
            BY <3>6, <3>7, BeforeNotSelf
    <2>5. k \in meanHead + 1..Len(mean)
        BY <1>4, <1>5, <2>1, <2>4
    <2> QED
        BY <2>1, <2>5
<1>9. WalkInv'
    <2>1. (head <= Len(List(side)) + 1 /\ meanHead <= Len(mean) + 1)'
        BY <1>1, <1>4, <1>5, <1>7
    <2>2. (side = 1 => terms[2] = <<>>)'
        BY <1>1, <1>2 DEF WalkInv
    <2>3. (\A j \in head..Len(List(side)) :
              \E k \in meanHead..Len(mean) : mean[k].name = List(side)[j].name)'
        BY <1>1, <1>7, <1>8
    <2>4. (side = 2 => TermsUpTo(1, Len(List(1))))'
        BY <1>1, <1>2, <1>7 DEF WalkInv, TermsUpTo
    <2>5. TermsUpTo(side, head - 1)'
        BY <1>1, <1>2, <1>7 DEF WalkInv, TermsUpTo
    <2> QED
        BY <2>1, <2>2, <2>3, <2>4, <2>5 DEF WalkInv
<1> QED
    BY <1>3, <1>6, <1>9 DEF IInv

\* A walk that has ended has reached the end of the file's list.
LEMMA WalkEnds ==
    ASSUME IInv, pc = "kld", ~Walking
    PROVE  head = Len(List(side)) + 1
<1>1. /\ Len(List(side)) \in Nat /\ Len(mean) \in Nat
      /\ head \in 1..Len(List(side)) + 1 /\ meanHead \in 1..Len(mean) + 1
      /\ \A j \in head..Len(List(side)) :
            \E k \in meanHead..Len(mean) : mean[k].name = List(side)[j].name
    BY WalkIs
<1>2. ASSUME head <= Len(List(side)) PROVE FALSE
    <2>1. head \in head..Len(List(side))
        BY <1>1, <1>2
    <2>2. PICK k \in meanHead..Len(mean) : TRUE
        BY <1>1, <2>1
    <2>3. meanHead <= Len(mean)
        BY <1>1, <2>2
    <2> QED
        BY <1>2, <2>3 DEF Walking
<1> QED
    BY <1>1, <1>2

LEMMA SecondFileStep == IInv /\ SecondFile => IInv'
<1> SUFFICES ASSUME IInv, SecondFile PROVE IInv'
    OBVIOUS
<1>1. /\ pc = "kld" /\ pc' = pc /\ ~Walking /\ side = 1
      /\ side' = 2 /\ head' = 1 /\ meanHead' = 1
      /\ UNCHANGED <<files, pc, array, printed, reader, lists, pair, mean, node1, node2, terms>>
    BY DEF SecondFile
<1>2. Typed /\ ListsInv /\ MeanInv /\ WalkInv
    BY DEF IInv
<1>3. N' = N /\ PairsInv' /\ ListsInv' /\ MeanInv' /\ \A s : List(s)' = List(s)
    BY <1>1, WalkStepKeeps
<1>4. head = Len(List(1)) + 1 /\ TermsUpTo(1, head - 1) /\ terms[2] = <<>>
    BY <1>1, <1>2, WalkEnds DEF WalkInv
<1>5. /\ List(1) \in Seq(Nodes) /\ List(2) \in Seq(Nodes) /\ mean \in Seq(Nodes)
      /\ Len(List(1)) \in Nat /\ Len(List(2)) \in Nat /\ Len(mean) \in Nat
    <2>2. \A s \in 1..2 : List(s) \in Seq(Nodes)
        BY <1>1, <1>2, PairLists
    <2>1. List(1) \in Seq(Nodes) /\ List(2) \in Seq(Nodes) /\ mean \in Seq(Nodes)
        BY <1>2, <2>2 DEF Typed
    <2> QED
        BY <2>1, NodeIs
<1>6. Typed'
    <2>1. 1 \in Positive /\ 2 \in 1..2
        BY DEF Positive
    <2> QED
        BY <1>1, <1>2, <1>3, <2>1 DEF Typed, array, reader
<1>7. List(side)' = List(2) /\ List(1)' = List(1)
    BY <1>1 DEF List, array
<1>8. WalkInv'
    <2>1. (head <= Len(List(side)) + 1 /\ meanHead <= Len(mean) + 1)'
        BY <1>1, <1>5, <1>7
    <2>2. TermsUpTo(side, head - 1)'
        <3>1. Len(terms'[side']) = 0 /\ head' - 1 = 0
            BY <1>1, <1>4
        <3> QED
            BY <3>1 DEF TermsUpTo
    <2>3. (side = 2 => TermsUpTo(1, Len(List(1))))'
        <3>1. Len(List(1)) = head - 1
            BY <1>4, <1>5
        <3>2. TermsUpTo(1, Len(List(1)))
            BY <1>4, <3>1
        <3> QED
            BY <1>1, <1>7, <3>2 DEF TermsUpTo
    <2>4. (\A j \in head..Len(List(side)) :
              \E k \in meanHead..Len(mean) : mean[k].name = List(side)[j].name)'
        <3>1. NamesOf(List(2)) \subseteq NamesOf(mean)
            BY <1>1, <1>2 DEF MeanInv, OfEither
        <3>2. \A j \in 1..Len(List(2)) : \E k \in 1..Len(mean) : mean[k].name = List(2)[j].name
            BY <1>5, <3>1, WalkStarts
        <3> QED
            BY <1>1, <1>7, <3>2
    <2>5. side' # 1
        BY <1>1
    <2> QED
        BY <2>1, <2>2, <2>3, <2>4, <2>5 DEF WalkInv
<1> QED
    BY <1>3, <1>6, <1>8 DEF IInv

LEMMA printResultStep == IInv /\ printResult => IInv'
<1> SUFFICES ASSUME IInv, printResult PROVE IInv'
    OBVIOUS
<1>1. /\ pc = "kld" /\ pc' = "print" /\ printed' = Append(printed, pair)
      /\ pair' = 0 /\ mean' = <<>> /\ node1' = 1 /\ node2' = 1
      /\ side' = 1 /\ head' = 1 /\ meanHead' = 1 /\ terms' = NoTerms
      /\ UNCHANGED <<files, array, reader, lists>>
    BY DEF printResult
<1>2. Typed /\ PairsInv /\ ListsInv
    BY DEF IInv
<1>3. N' = N /\ Layout' /\ Len(nodePairs') <= totalPairs' /\ first' = N' + 1
    BY <1>1, PrintingKeeps DEF reader
<1>4. ListsInv'
    BY <1>1, <1>2, ListsKept
<1>5. pair # 0 /\ pair \in 1..Len(nodePairs) /\ printed \in Seq(1..Len(nodePairs))
    BY <1>1, <1>2 DEF Typed
<1> DEFINE S == 1..Len(nodePairs)
<1>6. /\ printed' \in Seq(S) /\ Len(printed') = Len(printed) + 1 /\ Len(printed) \in Nat
      /\ \A i \in 1..Len(printed) : printed'[i] = printed[i]
      /\ printed'[Len(printed) + 1] = pair
    <2>1. pair \in S /\ printed \in Seq(S)
        BY <1>5
    <2> HIDE DEF S
    <2>2. Len(printed) \in Nat
        BY <2>1
    <2> QED
        BY <1>1, <2>1, <2>2, AppendProperties
<1>7. Typed'
    <2>1. printed' \in Seq(1..Len(nodePairs')) /\ pair' \in 0..Len(nodePairs')
        <3>1. Len(nodePairs) \in Nat
            BY <1>2 DEF Typed
        <3> QED
            BY <1>1, <1>6, <3>1 DEF array
    <2>2. 1 \in Positive /\ 1 \in 1..2 /\ <<>> \in Seq(Nodes)
        BY DEF Positive
    <2>3. terms' \in [1..2 -> Seq([name : Names, val : Positive, mean : Positive])]
        <3> DEFINE T == Seq([name : Names, val : Positive, mean : Positive])
        <3>1. <<>> \in T
            OBVIOUS
        <3> HIDE DEF T
        <3>2. \A x \in T : <<x, x>> \in [1..2 -> T]
            OBVIOUS
        <3>3. terms' \in [1..2 -> T]
            BY <1>1, <3>1, <3>2, Zenon DEF NoTerms
        <3> QED
            BY <3>3 DEF T
    <2> QED
        BY <1>1, <1>2, <1>3, <2>1, <2>2, <2>3 DEF Typed, array, reader
<1>8. Printed' = Printed \cup {pair} /\ pair \notin Printed /\ IsFiniteSet(Printed)
    <2>1. \A i \in 1..Len(printed) + 1 : i \in 1..Len(printed) \/ i = Len(printed) + 1
        BY <1>6
    <2>2. Printed' \subseteq Printed \cup {pair}
        BY <1>6, <2>1 DEF Printed
    <2>3. Printed \cup {pair} \subseteq Printed'
        <3>1. \A i \in 1..Len(printed) : i \in 1..Len(printed')
            BY <1>6
        <3>2. Len(printed) + 1 \in 1..Len(printed')
            BY <1>6
        <3>3. \A i \in 1..Len(printed) : printed[i] \in Printed'
            BY <1>6, <3>1 DEF Printed
        <3>4. pair \in Printed'
            BY <1>6, <3>2 DEF Printed
        <3> QED
            BY <3>3, <3>4 DEF Printed
    <2>4. pair \notin Printed
        BY <1>2, <1>5 DEF PairsInv
    <2>5. IsFiniteSet(Printed)
        <3>1. Printed \subseteq 1..Len(nodePairs)
            BY <1>5 DEF Printed
        <3>2. Len(nodePairs) \in Nat
            BY <1>2 DEF Typed
        <3>3. IsFiniteSet(1..Len(nodePairs))
            BY <3>2, FS_Interval
        <3> QED
            BY <3>1, <3>3, FS_Subset
    <2> QED
        BY <2>2, <2>3, <2>4, <2>5
<1>9. Cardinality(Printed') = Len(printed')
    <2>1. Cardinality(Printed \cup {pair}) = Cardinality(Printed) + 1
        BY <1>8, FS_AddElement
    <2>2. Cardinality(Printed) = Len(printed)
        BY <1>2 DEF PairsInv
    <2> QED
        BY <1>6, <1>8, <2>1, <2>2
<1>10. PairsInv'
    BY <1>1, <1>3, <1>9 DEF PairsInv
<1>11. MeanInv'
    BY <1>1 DEF MeanInv, Alphabetical
<1>12. WalkInv'
    BY <1>1 DEF WalkInv
<1> QED
    BY <1>4, <1>7, <1>10, <1>11, <1>12 DEF IInv

LEMMA FinishStep == IInv /\ Finish => IInv'
<1> SUFFICES ASSUME IInv, Finish PROVE IInv'
    OBVIOUS
<1>1. /\ pc = "print" /\ pc' = "done" /\ Len(printed) = totalPairs
      /\ UNCHANGED <<files, totalPairs, nodePairs, first, second, printed, reader, lists, distance>>
    BY DEF Finish, PrintDone
<1>2. Typed /\ PairsInv /\ ListsInv /\ MeanInv
    BY DEF IInv
<1>3. N' = N /\ Layout' = Layout
    BY <1>1, LayoutKept DEF reader, array
<1>4. Typed'
    BY <1>1, <1>2, <1>3 DEF Typed, reader, distance
<1>5. PairsInv'
    <2>1. Printed' = Printed
        BY <1>1 DEF Printed
    <2> QED
        BY <1>1, <1>2, <1>3, <2>1 DEF PairsInv, distance
<1>6. ListsInv'
    BY <1>1, <1>2, ListsKept
<1>7. MeanInv' /\ WalkInv'
    BY <1>1, <1>2, DistanceIdle
<1> QED
    BY <1>4, <1>5, <1>6, <1>7 DEF IInv

LEMMA Stutter == IInv /\ UNCHANGED vars => IInv'
<1> SUFFICES ASSUME IInv, UNCHANGED vars PROVE IInv'
    OBVIOUS
<1>1. UNCHANGED <<files, pc, totalPairs, nodePairs, first, second, printed, text, at, pos, cToken,
                  numTokens, lists, pair, mean, node1, node2, side, head, meanHead, terms>>
    BY DEF vars, array, reader, distance
<1>2. N' = N /\ Layout' = Layout
    BY <1>1, LayoutKept DEF array
<1>3. Typed'
    BY <1>1, <1>2 DEF IInv, Typed
<1>4. PairsInv'
    <2>1. Printed' = Printed
        BY <1>1 DEF Printed
    <2> QED
        BY <1>1, <1>2, <2>1 DEF IInv, PairsInv
<1>5. ListsInv'
    <2>1. Whole' = Whole
        BY <1>1 DEF Whole, FoldSeq, FoldFunction, FoldFunctionOnSet, MapThenFoldSet
    <2> HIDE DEF N, Whole
    <2> QED
        BY <1>1, <1>2, <2>1 DEF IInv, ListsInv
<1>6. MeanInv' /\ WalkInv'
    <2>1. \A s : List(s)' = List(s)
        BY <1>1 DEF List
    <2>2. List(1)' = List(1) /\ List(2)' = List(2) /\ List(side)' = List(side)
        BY <1>1 DEF List
    <2>3. OfEither' = OfEither
        BY <2>2 DEF OfEither, NamesOf
    <2>4. MeanInv'
        BY <1>1, <2>2, <2>3 DEF IInv, MeanInv
    <2>5. \A s, m : TermsUpTo(s, m)' = TermsUpTo(s, m)
        BY <1>1, <2>1 DEF TermsUpTo
    <2>6. TermsUpTo(side, head - 1)' = TermsUpTo(side, head - 1)
        BY <1>1, <2>2 DEF TermsUpTo
    <2>7. TermsUpTo(1, Len(List(1)))' = TermsUpTo(1, Len(List(1)))
        BY <1>1, <2>2 DEF TermsUpTo
    <2>8. WalkInv'
        BY <1>1, <2>2, <2>6, <2>7 DEF IInv, WalkInv
    <2> QED
        BY <2>4, <2>8
<1> QED
    BY <1>3, <1>4, <1>5, <1>6 DEF IInv

\* The invariant of the proofs holds whatever the files hold and whatever the word size.
THEOREM Inductive == Spec => []IInv
<1>1. Init => IInv
    BY InitInv
<1>2. IInv /\ [Next]_vars => IInv'
    <2> SUFFICES ASSUME IInv, [Next]_vars PROVE IInv'
        OBVIOUS
    <2>1. CASE EndToken \/ InToken \/ Ignored \/ EndOfFile \/ AllRead
        BY <2>1, EndTokenStep, InTokenStep, EndOfFileStep, AllReadStep
    <2>2. CASE MakePairs
        <3>1. UNCHANGED <<reader, lists, distance>> /\ (Size \/ SizeTraps \/ Fill \/ NextFirst \/ FillDone)
            BY <2>2 DEF MakePairs
        <3> QED
            BY <3>1, SizeStep, FillStep, NextFirstStep
    <2>3. CASE calculateProbabilities \/ NextPair \/ MeanStep \/ MeanDone
        BY <2>3, ProbabilitiesStep, NextPairStep, MeanStepStep, MeanDoneStep
    <2>4. CASE Weigh \/ Skip \/ SecondFile \/ printResult \/ Finish
        BY <2>4, WeighStep, SkipStep, SecondFileStep, printResultStep, FinishStep
    <2>5. CASE UNCHANGED vars
        BY <2>5, Stutter
    <2> QED
        BY <2>1, <2>2, <2>3, <2>4, <2>5 DEF Next
<1> QED
    BY <1>1, <1>2, PTL DEF Spec

-----------------------------------------------------------------------------
(***************************************************************************)
(* The properties.                                                         *)
(***************************************************************************)
\* Every variable keeps its type.
THEOREM TypeCorrect == Spec => []TypeOK
<1>1. IInv => TypeOK
    <2> SUFFICES ASSUME IInv PROVE TypeOK
        OBVIOUS
    <2>1. Typed
        BY DEF IInv
    <2>2. N \in Nat /\ DOMAIN text = 1..N /\ Len(files) = N /\ DOMAIN files = 1..N
        BY <2>1, TextIs DEF Typed
    <2>3. nodePairs \in Seq([node1 : 1..N, node2 : 1..N, weight : Nat])
          /\ DOMAIN nodePairs = 1..Len(nodePairs)
        BY <2>1 DEF Typed
    <2>4. \A k \in DOMAIN nodePairs :
             nodePairs[k].node1 \in DOMAIN files /\ nodePairs[k].node2 \in DOMAIN files
        <3>1. ASSUME NEW k \in 1..Len(nodePairs)
              PROVE  nodePairs[k].node1 \in 1..N /\ nodePairs[k].node2 \in 1..N
            <4>1. nodePairs[k] \in [node1 : 1..N, node2 : 1..N, weight : Nat]
                BY <2>3, ElementOfSeq
            <4> QED
                BY <4>1
        <3> QED
            BY <2>2, <2>3, <3>1
    <2>5. PairsTypeOK
        BY <2>1, <2>2, <2>3, <2>4 DEF PairsTypeOK, Typed
    <2>6. DOMAIN lists = DOMAIN text /\ DOMAIN terms = 1..2 /\ files \in [DOMAIN text -> Nat]
        BY <2>1, <2>2 DEF Typed
    <2> QED
        BY <2>1, <2>2, <2>5, <2>6 DEF TypeOK, Typed, N, Positive
<1> QED
    BY <1>1, Inductive, PTL

\* A set of two is the set of a smaller and a larger.
LEMMA TwoOf ==
    ASSUME NEW n \in Nat, NEW s \in SUBSET (1..n)
    PROVE  Cardinality(s) = 2 <=> \E a, b \in 1..n : a < b /\ s = {a, b}
<1>1. IsFiniteSet(1..n)
    BY FS_Interval
<1>2. IsFiniteSet(s)
    BY <1>1, FS_Subset
<1>3. ASSUME Cardinality(s) = 2 PROVE \E a, b \in 1..n : a < b /\ s = {a, b}
    <2>1. s # {}
        BY <1>3, FS_EmptySet
    <2>2. PICK x \in s : TRUE
        BY <2>1
    <2>3. IsFiniteSet(s \ {x}) /\ Cardinality(s \ {x}) = 1
        BY <1>2, <1>3, <2>2, FS_RemoveElement
    <2>4. PICK y : s \ {x} = {y}
        BY <2>3, FS_Singleton
    <2>5. x \in 1..n /\ y \in 1..n /\ x # y /\ s = {x, y} /\ s = {y, x}
        BY <2>2, <2>4
    <2>6. x < y \/ y < x
        BY <2>5
    <2> QED
        BY <2>5, <2>6
<1>4. ASSUME NEW a \in 1..n, NEW b \in 1..n, a < b, s = {a, b} PROVE Cardinality(s) = 2
    <2>1. IsFiniteSet({a}) /\ Cardinality({a}) = 1
        BY FS_Singleton
    <2>2. b \notin {a} /\ {a} \cup {b} = s
        BY <1>4
    <2>3. Cardinality({a} \cup {b}) = 1 + 1
        BY <2>1, <2>2, FS_AddElement
    <2> QED
        BY <2>2, <2>3
<1> QED
    BY <1>3, <1>4

\* When the program has ended every pair of distinct files has been printed, and printed
\* once, in whatever order qsort leaves pairs of the same weight.
THEOREM PairsOnce == Spec => []AllPairsOnce
<1>1. IInv => AllPairsOnce
    <2> SUFFICES ASSUME IInv, pc = "done"
                 PROVE  /\ {{Line(n).node1, Line(n).node2} : n \in DOMAIN printed}
                              = {s \in SUBSET DOMAIN files : Cardinality(s) = 2}
                        /\ 2 * Len(printed) = Len(files) * (Len(files) - 1)
        BY DEF AllPairsOnce
    <2>1. Typed /\ PairsInv
        BY DEF IInv
    <2>2. N \in Nat /\ Len(files) = N /\ DOMAIN files = 1..N
        BY <2>1, TextIs DEF Typed
    <2>3. Layout /\ Len(nodePairs) <= totalPairs /\ first = N + 1 /\ Len(printed) = totalPairs
          /\ Cardinality(Printed) = Len(printed)
        BY <2>1 DEF PairsInv
    <2>4. second = N + 2
        BY <2>1, <2>2, <2>3 DEF Layout, Typed
    <2> DEFINE n == Len(nodePairs)
    <2>5. n \in Nat /\ printed \in Seq(1..n) /\ DOMAIN printed = 1..Len(printed)
          /\ Len(printed) \in Nat
        BY <2>1 DEF Typed
    <2>6. Printed = 1..n /\ Len(printed) = n
        <3>1. Printed \subseteq 1..n
            BY <2>5 DEF Printed
        <3>2. IsFiniteSet(1..n) /\ Cardinality(1..n) = n
            <4>1. \A m \in Nat : IsFiniteSet(1..m) /\ Cardinality(1..m) = IF 1 > m THEN 0 ELSE m - 1 + 1
                BY FS_Interval
            <4> HIDE DEF n
            <4> QED
                BY <2>5, <4>1
        <3>3. Cardinality(Printed) <= n /\ (Cardinality(Printed) = n => Printed = 1..n)
            BY <3>1, <3>2, FS_Subset
        <3> QED
            BY <2>1, <2>3, <2>5, <3>3 DEF Typed
    <2>7. 2 * n = N * (N - 1)
        <3>1. 2 * n = ((N + 1) - 1) * (2*N - (N + 1)) + 2 * ((N + 2) - (N + 1) - 1)
            BY <2>3, <2>4 DEF Layout
        <3>2. ((N + 1) - 1) * (2*N - (N + 1)) = N * (N - 1)
            BY <2>2
        <3>3. 2 * ((N + 2) - (N + 1) - 1) = 0 /\ N * (N - 1) \in Int
            BY <2>2
        <3> QED
            BY <3>1, <3>2, <3>3
    <2> DEFINE Lines == {{Line(k).node1, Line(k).node2} : k \in DOMAIN printed}
               Twos == {s \in SUBSET DOMAIN files : Cardinality(s) = 2}
    <2>8. Passed = {p \in (1..N) \X (1..N) : p[1] < p[2]}
        <3>1. \A p \in (1..N) \X (1..N) : p[1] < first
            BY <2>2, <2>3
        <3> QED
            BY <3>1 DEF Passed
    <2>9. \A k \in 1..n : PairOf(k) \in Passed
        BY <2>3 DEF Layout
    <2>10. ASSUME NEW l \in Lines PROVE l \in Twos
        <3>1. PICK k \in DOMAIN printed : l = {Line(k).node1, Line(k).node2}
            OBVIOUS
        <3>2. printed[k] \in 1..n
            BY <2>5, <3>1
        <3>3. PairOf(printed[k]) = <<Line(k).node1, Line(k).node2>>
            BY DEF PairOf, Line
        <3>4. /\ Line(k).node1 \in 1..N /\ Line(k).node2 \in 1..N
              /\ Line(k).node1 < Line(k).node2
            BY <2>8, <2>9, <3>2, <3>3
        <3>5. l \in SUBSET (1..N) /\ \E a, b \in 1..N : a < b /\ l = {a, b}
            BY <3>1, <3>4
        <3> QED
            BY <2>2, <3>5, TwoOf
    <2>11. ASSUME NEW s \in Twos PROVE s \in Lines
        <3>0. s \in SUBSET (1..N) /\ Cardinality(s) = 2
            BY <2>2
        <3>1. PICK a \in 1..N, b \in 1..N : a < b /\ s = {a, b}
            BY <2>2, <3>0, TwoOf
        <3>2. <<a, b>> \in Passed
            BY <2>8, <3>1
        <3>3. PICK k \in 1..n : PairOf(k) = <<a, b>>
            BY <2>3, <3>2 DEF Layout
        <3>4. PICK m \in 1..Len(printed) : printed[m] = k
            BY <2>6, <3>3 DEF Printed
        <3>5. Line(m).node1 = a /\ Line(m).node2 = b
            BY <3>3, <3>4 DEF PairOf, Line
        <3> QED
            BY <2>5, <3>1, <3>4, <3>5
    <2> HIDE DEF Lines, Twos, n
    <2>12. Lines = Twos
        BY <2>10, <2>11
    <2> QED
        BY <2>2, <2>6, <2>7, <2>12 DEF Lines, Twos
<1> QED
    BY <1>1, Inductive, PTL

\* As long as no product of factorial's loop overflows, the array has a place for every pair:
\* the division is defined and nothing is written beyond the end.
THEOREM RoomSuffices ==
    (\A t \in Sources : Fits(Len(t)))
        => (Spec => [](RoomForAllPairs /\ pc \notin {"trapped", "overrun"}))
<1> SUFFICES ASSUME \A t \in Sources : Fits(Len(t))
             PROVE  Spec => [](RoomForAllPairs /\ pc \notin {"trapped", "overrun"})
    OBVIOUS
<1> DEFINE Room == /\ pc \notin {"trapped", "overrun"}
                   /\ pc \notin {"parse", "size"} => 2 * totalPairs = N * (N - 1)
<1>1. Init => Room
    BY DEF Init
<1>2. IInv /\ Room /\ [Next]_vars => Room'
    <2> SUFFICES ASSUME IInv, Room, [Next]_vars PROVE Room'
        OBVIOUS
    <2>1. Typed /\ N \in Nat /\ Len(files) = N /\ Fits(N)
        <3>1. Typed
            BY DEF IInv
        <3>2. N \in Nat /\ Len(files) = N
            BY <3>1, TextIs DEF Typed
        <3>3. Fits(N)
            BY <3>1 DEF Typed, N
        <3> QED
            BY <3>1, <3>2, <3>3
    <2>2. divisor(N, 2) # 0 /\ 2 * combination(N, 2) = N * (N - 1)
        BY <2>1, CombinationIs
    <2>3. CASE EndToken \/ InToken \/ Ignored \/ EndOfFile \/ AllRead
        BY <2>3 DEF EndToken, InToken, Ignored, EndOfFile, AllRead, Reading
    <2>4. CASE calculateProbabilities \/ NextPair \/ MeanStep \/ MeanDone \/ UNCHANGED vars
        BY <2>4 DEF calculateProbabilities, NextPair, MeanStep, MeanDone, N, array, reader, vars
    <2>5. CASE Weigh \/ Skip \/ SecondFile \/ printResult \/ Finish
        BY <2>5 DEF Weigh, Skip, SecondFile, printResult, Finish, PrintDone, Walking, N, array, reader
    <2>6. CASE MakePairs
        <3>1. UNCHANGED text /\ N' = N
            BY <2>6 DEF MakePairs, reader, N
        <3>2. CASE Size \/ SizeTraps
            BY <2>1, <2>2, <3>1, <3>2 DEF Size, SizeTraps
        <3>3. CASE NextFirst \/ FillDone
            BY <3>1, <3>3 DEF NextFirst, FillDone
        <3>4. CASE Fill
            <4>1. /\ pc = "fill" /\ first <= N /\ second <= N /\ totalPairs' = totalPairs
                  /\ (Len(nodePairs) < totalPairs => pc' = pc)
                BY <2>1, <3>4 DEF Fill
            <4>2. /\ 2 * Len(nodePairs) = (first - 1) * (2*N - first) + 2 * (second - first - 1)
                  /\ first < second
                BY <2>1, <4>1 DEF IInv, PairsInv, Layout, Typed
            <4>3. first \in Nat /\ second \in Nat /\ totalPairs \in Nat /\ Len(nodePairs) \in Nat
                BY <2>1 DEF Typed
            <4>4. 2 * totalPairs = N * (N - 1)
                BY <4>1
            <4>5. N - first \in Nat /\ N - first # 0
                BY <2>1, <4>1, <4>2, <4>3
            \* (N - first) * (N - first - 1) pairs are left after those of first.
            <4>6. \A f, m \in Int : (f - 1) * (2*m - f) + 2 * (m - f) + (m - f) * (m - f - 1)
                                      = m * (m - 1)
                OBVIOUS
            <4>7. (first - 1) * (2*N - first) + 2 * (N - first) + (N - first) * (N - first - 1)
                     = N * (N - 1)
                BY <2>1, <4>3, <4>6
            <4>8. (N - first) * (N - first - 1) \in Nat
                <5>1. N - first - 1 \in Nat
                    BY <2>1, <4>3, <4>5
                <5> QED
                    BY <4>5, <5>1
            <4>9. (first - 1) * (2*N - first) \in Int
                BY <2>1, <4>3
            <4>10. PICK x \in Int, y \in Nat :
                      /\ x = (first - 1) * (2*N - first) /\ y = (N - first) * (N - first - 1)
                BY <4>8, <4>9
            <4>11. 2 * Len(nodePairs) = x + 2 * (second - first - 1)
                   /\ x + 2 * (N - first) + y = 2 * totalPairs
                BY <4>2, <4>4, <4>7, <4>10
            <4>12. Len(nodePairs) < totalPairs
                BY <2>1, <4>1, <4>3, <4>11
            <4> QED
                BY <3>1, <4>1, <4>12
        <3> QED
            BY <2>6, <3>2, <3>3, <3>4 DEF MakePairs
    <2> QED
        BY <2>3, <2>4, <2>5, <2>6 DEF Next
<1>3. IInv /\ Room => RoomForAllPairs /\ pc \notin {"trapped", "overrun"}
    <2> SUFFICES ASSUME IInv, Room, pc \notin {"parse", "size"}
                 PROVE  totalPairs = (Len(files) * (Len(files) - 1)) \div 2
        BY DEF RoomForAllPairs
    <2>1. Typed
        BY DEF IInv
    <2>2. N \in Nat /\ Len(files) = N /\ totalPairs \in Nat
        BY <2>1, TextIs DEF Typed
    <2>3. 2 * totalPairs = N * (N - 1)
        OBVIOUS
    <2>4. \A x \in Nat : (2 * x) \div 2 = x
        OBVIOUS
    <2>5. (N * (N - 1)) \div 2 = totalPairs
        BY <2>2, <2>3, <2>4
    <2> QED
        BY <2>2, <2>5
<1> HIDE DEF Room
<1> QED
    BY <1>1, <1>2, <1>3, Inductive, PTL DEF Spec

\* The mean list that the distances are computed from is alphabetical, and gives each token
\* of either file the mean of its two frequencies.
THEOREM MeanSound == Spec => []MeanIsMean
<1>1. IInv => MeanIsMean
    <2> DEFINE All == {n.name : n \in ToSet(mean) \cup ToSet(List(1)) \cup ToSet(List(2))}
    <2> SUFFICES ASSUME IInv, pc = "kld"
                 PROVE  /\ Alphabetical(mean)
                        /\ \A name \in All :
                              2 * ValueOf(mean, name)
                                 = ValueOf(List(1), name) + ValueOf(List(2), name)
        BY DEF MeanIsMean
    <2>1. Typed /\ ListsInv /\ MeanInv
        BY DEF IInv
    <2>2. \A s \in 1..2 : List(s) \in Seq(Nodes)
        BY <2>1, PairLists
    <2>3. mean \in Seq(Nodes) /\ List(1) \in Seq(Nodes) /\ List(2) \in Seq(Nodes)
        BY <2>1, <2>2 DEF Typed
    <2>4. /\ NamesOf(mean) = OfEither
          /\ \A name \in OfEither :
                2 * SumOf(mean, {name}) = SumOf(List(1), {name}) + SumOf(List(2), {name})
        BY <2>1 DEF MeanInv
    <2>5. \A list \in Seq(Nodes) :
             /\ \A n \in ToSet(list) : n.name \in NamesOf(list) /\ n.name \in Names
             /\ \A name \in Names : ValueOf(list, name) = SumOf(list, {name})
        <3> SUFFICES ASSUME NEW list \in Seq(Nodes)
                     PROVE  /\ \A n \in ToSet(list) : n.name \in NamesOf(list) /\ n.name \in Names
                            /\ \A name \in Names : ValueOf(list, name) = SumOf(list, {name})
            OBVIOUS
        <3>1. DOMAIN list = 1..Len(list) /\ \A i \in 1..Len(list) : list[i].name \in Names
            BY NodeIs
        <3> QED
            BY <3>1, SumsOf DEF ToSet, NamesOf
    <2>6. ASSUME NEW name \in All
          PROVE  2 * ValueOf(mean, name) = ValueOf(List(1), name) + ValueOf(List(2), name)
        <3>1. name \in OfEither /\ name \in Names
            <4>1. PICK n \in ToSet(mean) \cup ToSet(List(1)) \cup ToSet(List(2)) : name = n.name
                BY <2>6
            <4> QED
                BY <2>3, <2>4, <2>5, <4>1 DEF OfEither
        <3>2. /\ ValueOf(mean, name) = SumOf(mean, {name})
              /\ ValueOf(List(1), name) = SumOf(List(1), {name})
              /\ ValueOf(List(2), name) = SumOf(List(2), {name})
            BY <2>3, <2>5, <3>1
        <3> QED
            BY <2>4, <3>1, <3>2
    <2> QED
        BY <2>1, <2>6 DEF MeanInv
<1> QED
    BY <1>1, Inductive, PTL

\* When the sum for a file is finished every token of the file has had its term, in order, the
\* frequencies make up the whole, and no quotient is 0 or more than 2.
THEOREM TokensWeighed == Spec => []EveryTokenWeighed
<1>1. IInv => EveryTokenWeighed
    <2> SUFFICES ASSUME IInv, pc = "kld", NEW s \in 1..2, s < side \/ (s = side /\ ~Walking)
                 PROVE  /\ [i \in DOMAIN terms[s] |->
                               [name |-> terms[s][i].name, val |-> terms[s][i].val]] = List(s)
                        /\ \A i \in DOMAIN terms[s] :
                              0 < terms[s][i].val /\ terms[s][i].val <= 2 * terms[s][i].mean
                        /\ Total(terms[s]) = IF List(s) = <<>> THEN 0 ELSE Whole
        BY DEF EveryTokenWeighed
    <2>1. Typed /\ ListsInv /\ WalkInv
        BY DEF IInv
    <2> DEFINE list == List(s)
               n == Len(list)
    <2>2. list \in Seq(Nodes) /\ (list # <<>> => Total(list) = Whole)
        BY <2>1, PairLists
    <2>3. /\ n \in Nat /\ DOMAIN list = 1..n
          /\ \A i \in 1..n : /\ list[i].val \in Nat /\ list[i].val > 0
                             /\ list[i] = [name |-> list[i].name, val |-> list[i].val]
        <3> HIDE DEF list
        <3> QED
            BY <2>2, NodeIs
    <2>4. TermsUpTo(s, n)
        <3>1. CASE s < side
            <4>0. side \in 1..2
                BY <2>1 DEF Typed
            <4>1. side = 2 /\ s = 1
                BY <3>1, <4>0
            <4> QED
                BY <2>1, <4>1 DEF WalkInv
        <3>2. CASE s = side /\ ~Walking
            <4>1. head - 1 = n
                <5>1. head = Len(List(side)) + 1
                    BY <3>2, WalkEnds
                <5> QED
                    BY <2>3, <3>2, <5>1
            <4>2. TermsUpTo(side, head - 1)
                BY <2>1 DEF WalkInv
            <4> QED
                BY <3>2, <4>1, <4>2
        <3> QED
            BY <3>1, <3>2
    <2>5. DOMAIN terms[s] = 1..n
        <3>1. terms[s] \in Seq([name : Names, val : Positive, mean : Positive])
            BY <2>1 DEF Typed
        <3>2. Len(terms[s]) = n
            BY <2>4 DEF TermsUpTo
        <3> QED
            BY <3>1, <3>2
    <2>6. \A i \in 1..n : /\ terms[s][i].name = list[i].name /\ terms[s][i].val = list[i].val
                          /\ terms[s][i].val <= 2 * terms[s][i].mean
        BY <2>4 DEF TermsUpTo
    <2>7. [i \in DOMAIN terms[s] |-> [name |-> terms[s][i].name, val |-> terms[s][i].val]] = list
        <3>1. list = [i \in 1..n |-> list[i]]
            BY <2>2, <2>3
        <3> HIDE DEF list, n
        <3> QED
            BY <2>3, <2>5, <2>6, <3>1
    <2>8. Total(terms[s]) = Total(list)
        <3>1. [i \in DOMAIN terms[s] |-> terms[s][i].val] = [i \in DOMAIN list |-> list[i].val]
            BY <2>3, <2>5, <2>6
        <3> QED
            BY <3>1, Zenon DEF Total
    <2>9. Total(list) = IF list = <<>> THEN 0 ELSE Whole
        BY <2>2, EmptyTotal
    <2>10. \A i \in DOMAIN terms[s] :
              0 < terms[s][i].val /\ terms[s][i].val <= 2 * terms[s][i].mean
        BY <2>3, <2>5, <2>6
    <2> QED
        BY <2>7, <2>8, <2>9, <2>10
<1> QED
    BY <1>1, Inductive, PTL

-----------------------------------------------------------------------------
(***************************************************************************)
(* The tokens of a text.                                                   *)
(***************************************************************************)
Ranked(S, n) == {i \in S : Cardinality({j \in S : j <= i}) = n}
Kept(t, a, b) == {k \in a..b : isalpha(t[k]) \/ t[k] = "-"}
Ended(t, p, name) == {s \in Stretches(t) : s[2] < p /\ TokenIn(t, s) = name}
Inside(t, a, b) == \A k \in a..b : ~checkDelimiter(t[k])

\* The n-th smallest of a set stays that when a larger number is added, which comes last.
LEMMA NthLast ==
    ASSUME NEW a \in Nat, NEW b \in Nat, NEW S \in SUBSET (a..b - 1)
    PROVE  /\ Cardinality(S) \in Nat /\ Cardinality(S \cup {b}) = Cardinality(S) + 1
           /\ \A n \in 1..Cardinality(S) : Nth(S \cup {b}, n) = Nth(S, n)
           /\ Nth(S \cup {b}, Cardinality(S) + 1) = b
<1> DEFINE T == S \cup {b}
           c == Cardinality(S)
           upto(X, k) == {j \in X : j <= k}
<1>1. IsFiniteSet(S) /\ b \notin S
    <2>1. IsFiniteSet(a..b - 1)
        BY FS_Interval
    <2>2. b \notin a..b - 1
        OBVIOUS
    <2>3. S \subseteq a..b - 1
        OBVIOUS
    <2> HIDE DEF T, c, upto
    <2> QED
        BY <2>1, <2>2, <2>3, FS_Subset
<1>2. c \in Nat /\ Cardinality(T) = c + 1
    BY <1>1, FS_CardinalityType, FS_AddElement
<1>3. upto(T, b) = T /\ \A k \in S : upto(T, k) = upto(S, k)
    <2>1. \A j \in S : j <= b
        OBVIOUS
    <2>2. \A k \in S : ~(b <= k)
        OBVIOUS
    <2>3. T \subseteq upto(T, b)
        BY <2>1
    <2>4. ASSUME NEW k \in S PROVE upto(T, k) \subseteq upto(S, k)
        BY <2>2
    <2>5. ASSUME NEW k \in S PROVE upto(S, k) \subseteq upto(T, k)
        OBVIOUS
    <2>6. upto(T, b) \subseteq T
        OBVIOUS
    <2> HIDE DEF T, upto
    <2> QED
        BY <2>3, <2>4, <2>5, <2>6, Zenon
<1>4. ASSUME NEW k \in S PROVE Cardinality(upto(S, k)) \in Nat /\ Cardinality(upto(S, k)) <= c
    <2>1. upto(S, k) \in SUBSET S
        OBVIOUS
    <2> HIDE DEF upto
    <2>2. IsFiniteSet(upto(S, k)) /\ Cardinality(upto(S, k)) <= c
        BY <1>1, <2>1, FS_Subset
    <2> QED
        BY <2>2, FS_CardinalityType
<1>5. \A X, n : Ranked(X, n) = {i \in X : Cardinality(upto(X, i)) = n}
    BY DEF Ranked
<1>6. \A X, n : Nth(X, n) = CHOOSE k \in Ranked(X, n) : TRUE
    BY DEF Nth, Ranked
<1> HIDE DEF upto, T, c
<1>7. ASSUME NEW n \in 1..c PROVE Nth(T, n) = Nth(S, n)
    <2>1. Ranked(T, n) \subseteq Ranked(S, n)
        <3> SUFFICES ASSUME NEW i \in Ranked(T, n) PROVE i \in Ranked(S, n)
            OBVIOUS
        <3>1. i \in T /\ Cardinality(upto(T, i)) = n
            BY <1>5
        <3>2. i # b
            BY <1>2, <1>3, <3>1
        <3> QED
            BY <1>3, <1>5, <3>1, <3>2 DEF T
    <2>2. Ranked(S, n) \subseteq Ranked(T, n)
        BY <1>3, <1>5 DEF T
    <2>3. Ranked(T, n) = Ranked(S, n)
        BY <2>1, <2>2
    <2> QED
        BY <1>6, <2>3, Zenon
<1>8. Nth(T, c + 1) = b
    <2>1. Ranked(T, c + 1) = {b}
        <3>1. b \in T /\ Cardinality(upto(T, b)) = c + 1
            BY <1>2, <1>3 DEF T
        <3>2. ASSUME NEW i \in S PROVE Cardinality(upto(T, i)) # c + 1
            BY <1>2, <1>3, <1>4
        <3>3. \A i \in T : i = b \/ i \in S
            BY DEF T
        <3> QED
            BY <1>5, <3>1, <3>2, <3>3
    <2>2. Nth(T, c + 1) = CHOOSE k \in {b} : TRUE
        BY <1>6, <2>1, Zenon
    <2> QED
        BY <2>2
<1> QED
    BY <1>2, <1>7, <1>8 DEF T, c

\* The spelling of a stretch grows by each letter of it.
LEMMA SpellingGrows ==
    ASSUME NEW t, NEW a \in Positive, NEW b \in Positive
    PROVE  /\ Spelling(t, b, b - 1) = <<>>
           /\ a <= b /\ ~(isalpha(t[b]) \/ t[b] = "-")
                 => Spelling(t, a, b) = Spelling(t, a, b - 1)
           /\ a <= b /\ (isalpha(t[b]) \/ t[b] = "-")
                 => Spelling(t, a, b) = Append(Spelling(t, a, b - 1), tolower(t[b]))
<1>1. a \in Nat /\ b \in Nat /\ a > 0 /\ b > 0
    BY DEF Positive
<1>2. \A x, y : Spelling(t, x, y)
                  = [n \in 1..Cardinality(Kept(t, x, y)) |-> tolower(t[Nth(Kept(t, x, y), n)])]
    BY DEF Spelling, Kept
<1>3. Spelling(t, b, b - 1) = <<>>
    <2>1. b..b - 1 = {}
        BY <1>1
    <2>2. Kept(t, b, b - 1) = {}
        BY <2>1 DEF Kept
    <2>3. Spelling(t, b, b - 1) = [n \in 1..0 |-> tolower(t[Nth({}, n)])]
        BY <1>2, <2>2, FS_EmptySet
    <2> QED
        BY <2>3
<1> DEFINE S == Kept(t, a, b - 1)
           T == Kept(t, a, b)
<1>4. ASSUME a <= b PROVE \A k \in a..b : k = b \/ k \in a..b - 1
    BY <1>1
<1>5. ASSUME a <= b, ~(isalpha(t[b]) \/ t[b] = "-")
      PROVE  Spelling(t, a, b) = Spelling(t, a, b - 1)
    <2>1. T = S
        BY <1>1, <1>4, <1>5 DEF Kept
    <2>2. Kept(t, a, b) = Kept(t, a, b - 1)
        BY <2>1, Zenon DEF S, T
    <2>3. Spelling(t, a, b)
            = [n \in 1..Cardinality(Kept(t, a, b)) |-> tolower(t[Nth(Kept(t, a, b), n)])]
        BY <1>2
    <2>4. Spelling(t, a, b - 1)
            = [n \in 1..Cardinality(Kept(t, a, b - 1)) |->
                    tolower(t[Nth(Kept(t, a, b - 1), n)])]
        BY <1>2
    <2> HIDE DEF S, T
    <2> QED
        BY <2>2, <2>3, <2>4, Zenon
<1>6. ASSUME a <= b, isalpha(t[b]) \/ t[b] = "-"
      PROVE  Spelling(t, a, b) = Append(Spelling(t, a, b - 1), tolower(t[b]))
    <2>1. T = S \cup {b}
        BY <1>1, <1>4, <1>6 DEF Kept
    <2>2. S \in SUBSET (a..b - 1)
        BY DEF Kept
    <2> HIDE DEF S, T
    <2> DEFINE c == Cardinality(S)
    <2>3. /\ c \in Nat /\ Cardinality(T) = c + 1
          /\ \A n \in 1..c : Nth(T, n) = Nth(S, n)
          /\ Nth(T, c + 1) = b
        <3>1. /\ c \in Nat /\ Cardinality(S \cup {b}) = c + 1
              /\ \A n \in 1..c : Nth(S \cup {b}, n) = Nth(S, n)
              /\ Nth(S \cup {b}, c + 1) = b
            BY <1>1, <2>2, NthLast
        <3> QED
            BY <2>1, <3>1
    <2> HIDE DEF c
    <2> DEFINE old == [n \in 1..c |-> tolower(t[Nth(S, n)])]
               new == [n \in 1..c + 1 |-> tolower(t[Nth(T, n)])]
               last == tolower(t[b])
               V == {old[n] : n \in 1..c} \cup {last}
    <2>4. Spelling(t, a, b - 1) = old /\ Spelling(t, a, b) = new
        BY <1>2, <2>3 DEF S, T, c
    <2>5. old \in Seq(V) /\ Len(old) = c
        <3>1. \A n \in 1..c : old[n] \in V
            OBVIOUS
        <3>2. DOMAIN old = 1..c /\ old = [n \in 1..c |-> old[n]]
            OBVIOUS
        <3> HIDE DEF old, V
        <3>3. old \in [1..c -> V]
            BY <3>1, <3>2
        <3> QED
            BY <2>3, <3>3
    <2>6. \A n \in 1..c : new[n] = old[n]
        BY <2>3
    <2>7. new[c + 1] = last /\ last \in V
        BY <2>3
    <2>8. DOMAIN new = 1..c + 1 /\ new = [n \in 1..c + 1 |-> new[n]]
        OBVIOUS
    <2>12. \A n \in 1..c : old[n] \in V
        OBVIOUS
    <2> HIDE DEF old, new, last, V
    <2>9. /\ Append(old, last) \in Seq(V) /\ Len(Append(old, last)) = c + 1
          /\ \A n \in 1..c : Append(old, last)[n] = old[n]
          /\ Append(old, last)[c + 1] = last
        BY <2>5, <2>7, AppendProperties
    <2>10. new \in Seq(V) /\ Len(new) = c + 1
        <3>1. \A n \in 1..c + 1 : new[n] \in V
            <4>1. \A n \in 1..c + 1 : n \in 1..c \/ n = c + 1
                BY <2>3
            <4> QED
                BY <2>6, <2>7, <2>12, <4>1
        <3>2. new \in [1..c + 1 -> V]
            BY <2>8, <3>1
        <3> QED
            BY <2>3, <3>2
    <2>11. new = Append(old, last)
        <3>1. \A n \in 1..Len(new) : new[n] = Append(old, last)[n]
            <4>1. \A n \in 1..c + 1 : n \in 1..c \/ n = c + 1
                BY <2>3
            <4> QED
                BY <2>6, <2>7, <2>9, <2>10, <4>1
        <3> QED
            BY <2>9, <2>10, <3>1, SeqEqual
    <2> QED
        BY <2>4, <2>11 DEF last
<1> QED
    BY <1>3, <1>5, <1>6

\* What the list of a file counts are the stretches that end before p.
CountedTo(list, t, p) ==
    \A name : SumOf(list, {name}) = IF name = <<>> THEN 0 ELSE Cardinality(Ended(t, p, name))

\* In front of p is a stretch of which the token holds the spelling so far, and the list
\* counts those before it.
Spelled(list, token, t, p) ==
    /\ p <= Len(t) + 1
    /\ \E start \in 1..p :
          /\ start = 1 \/ checkDelimiter(t[start - 1])
          /\ Inside(t, start, p - 1)
          /\ token = Spelling(t, start, p - 1)
          /\ CountedTo(list, t, start)

LEMMA StretchIs ==
    ASSUME NEW t \in Seq(STRING)
    PROVE  /\ IsFiniteSet(Stretches(t))
           /\ \A s \in Stretches(t) :
                 /\ s[1] \in 1..Len(t) /\ s[2] \in 1..Len(t) /\ s = <<s[1], s[2]>>
                 /\ s[1] <= s[2] /\ Inside(t, s[1], s[2])
                 /\ s[1] = 1 \/ checkDelimiter(t[s[1] - 1])
                 /\ s[2] = Len(t) \/ checkDelimiter(t[s[2] + 1])
<1>1. DOMAIN t = 1..Len(t) /\ Len(t) \in Nat
    OBVIOUS
<1>2. Stretches(t) \subseteq (1..Len(t)) \X (1..Len(t))
    BY <1>1 DEF Stretches
<1>3. IsFiniteSet((1..Len(t)) \X (1..Len(t)))
    <2>1. Len(t) \in Int /\ 1 \in Int
        BY <1>1
    <2>2. IsFiniteSet(1..Len(t))
        BY <2>1, FS_Interval
    <2> QED
        BY <2>2, FS_Product
<1>4. IsFiniteSet(Stretches(t))
    BY <1>2, <1>3, FS_Subset
<1> QED
    BY <1>1, <1>4 DEF Stretches, Inside

\* At the end of a stretch those that have ended are one more, which it is.
LEMMA EndedAt ==
    ASSUME NEW t \in Seq(STRING), NEW p \in 1..Len(t) + 1, NEW start \in 1..p,
           start = 1 \/ checkDelimiter(t[start - 1]), Inside(t, start, p - 1),
           p = Len(t) + 1 \/ checkDelimiter(t[p]), NEW name, name # <<>>
    PROVE  /\ Cardinality(Ended(t, start, name)) \in Nat
           /\ Cardinality(Ended(t, p + 1, name))
                = Cardinality(Ended(t, start, name))
                  + (IF Spelling(t, start, p - 1) = name THEN 1 ELSE 0)
<1> DEFINE old == Ended(t, start, name)
           new == Ended(t, p + 1, name)
           here == <<start, p - 1>>
<1>1. Len(t) \in Nat /\ p \in Nat /\ start \in Nat /\ p <= Len(t) + 1 /\ start <= p /\ start > 0
    OBVIOUS
<1>2. \A s \in Stretches(t) :
         /\ s[1] \in 1..Len(t) /\ s[2] \in 1..Len(t) /\ s = <<s[1], s[2]>>
         /\ s[1] <= s[2] /\ Inside(t, s[1], s[2])
         /\ s[1] = 1 \/ checkDelimiter(t[s[1] - 1])
         /\ s[2] = Len(t) \/ checkDelimiter(t[s[2] + 1])
    BY StretchIs
<1>3. IsFiniteSet(old)
    <2>1. old \subseteq Stretches(t)
        BY DEF Ended
    <2> QED
        BY <2>1, StretchIs, FS_Subset
<1>4. ASSUME NEW s \in Stretches(t), s[2] < p + 1, ~(s[2] < start)
      PROVE  s = here /\ start < p
    <2>1. s[2] # p
        BY <1>1, <1>2, <1>4 DEF Inside
    <2>2. s[2] \in start..p - 1
        BY <1>1, <1>2, <1>4, <2>1
    <2>3. s[2] = p - 1
        <3>1. CASE s[2] + 1 \in start..p - 1
            BY <1>1, <1>2, <1>4, <3>1 DEF Inside
        <3>2. CASE s[2] + 1 \notin start..p - 1
            BY <1>1, <1>2, <1>4, <2>2, <3>2
        <3> QED
            BY <3>1, <3>2
    <2>4. ~(s[1] > start)
        <3> SUFFICES ASSUME s[1] > start PROVE FALSE
            OBVIOUS
        <3>1. s[1] \in 1..Len(t) /\ s[2] \in 1..Len(t) /\ s[1] <= s[2]
              /\ (s[1] = 1 \/ checkDelimiter(t[s[1] - 1]))
            BY <1>2, <1>4
        <3>2. s[1] - 1 \in start..p - 1 /\ s[1] # 1
            BY <1>1, <2>3, <3>1
        <3>3. \A k \in start..p - 1 : ~checkDelimiter(t[k])
            BY DEF Inside
        <3> QED
            BY <3>1, <3>2, <3>3
    <2>5. ~(s[1] < start)
        <3> SUFFICES ASSUME s[1] < start PROVE FALSE
            OBVIOUS
        <3>1. start - 1 \in s[1]..s[2] /\ start # 1
            BY <1>1, <1>2, <1>4, <2>2
        <3> QED
            BY <1>2, <1>4, <3>1 DEF Inside
    <2> QED
        BY <1>1, <1>2, <1>4, <2>2, <2>3, <2>4, <2>5
<1>5. old \subseteq new
    BY <1>1, <1>2 DEF Ended
<1>6. here \notin old
    <2> SUFFICES ASSUME here \in old PROVE FALSE
        OBVIOUS
    <2>1. here \in Stretches(t) /\ here[2] < start
        BY Zenon DEF Ended
    <2>2. here[1] <= here[2]
        BY <1>2, <2>1, Zenon
    <2> QED
        BY <1>1, <2>1, <2>2
<1>7. TokenIn(t, here) = Spelling(t, start, p - 1)
    BY DEF TokenIn
<1>8. new \subseteq old \cup {here}
    BY <1>4 DEF Ended
<1>9. CASE Spelling(t, start, p - 1) = name
    <2>1. start < p
        <3> SUFFICES ASSUME start = p PROVE FALSE
            BY <1>1
        <3>1. p \in Positive
            BY <1>1 DEF Positive
        <3>2. Spelling(t, p, p - 1) = <<>>
            BY <3>1, SpellingGrows
        <3> QED
            BY <1>9, <3>2
    <2>2. here \in Stretches(t)
        <3>1. here \in (DOMAIN t) \X (DOMAIN t)
            BY <1>1, <2>1
        <3>2. here[1] = start /\ here[2] = p - 1
            OBVIOUS
        <3>3. (p - 1) + 1 = p /\ (p = Len(t) + 1 => p - 1 = Len(t))
            BY <1>1
        <3> HIDE DEF here
        <3> QED
            BY <1>1, <2>1, <3>1, <3>2, <3>3 DEF Stretches, Inside
    <2>3. here \in new
        BY <1>1, <1>7, <1>9, <2>2 DEF Ended
    <2>4. new = old \cup {here}
        BY <1>5, <1>8, <2>3
    <2> HIDE DEF old, new, here
    <2>5. Cardinality(old) \in Nat /\ Cardinality(new) = Cardinality(old) + 1
        BY <1>3, <1>6, <2>4, FS_CardinalityType, FS_AddElement
    <2> QED
        BY <1>9, <2>5 DEF old, new
<1>10. CASE Spelling(t, start, p - 1) # name
    <2>1. here \notin new
        BY <1>7, <1>10 DEF Ended
    <2>2. new = old
        BY <1>5, <1>8, <2>1
    <2> HIDE DEF old, new, here
    <2>3. Cardinality(old) \in Nat /\ Cardinality(new) = Cardinality(old)
        BY <1>3, <2>2, FS_CardinalityType
    <2> QED
        BY <1>10, <2>3 DEF old, new
<1> QED
    BY <1>9, <1>10

\* A character of a token does not delimit.
LEMMA LetterInside ==
    ASSUME NEW c, isalpha(c) \/ c = "-"
    PROVE  ~checkDelimiter(c)
<1> DEFINE small == {"a", "b", "c", "d", "e", "f", "g", "h", "i", "j", "k", "l", "m",
                     "n", "o", "p", "q", "r", "s", "t", "u", "v", "w", "x", "y", "z"}
           large == {"A", "B", "C", "D", "E", "F", "G", "H", "I", "J", "K", "L", "M",
                     "N", "O", "P", "Q", "R", "S", "T", "U", "V", "W", "X", "Y", "Z"}
<1>1. \A i \in 1..26 : Letters[i] \in small /\ Capitals[i] \in large
    BY DEF Letters, Capitals
<1>2. DOMAIN Letters = 1..26 /\ DOMAIN Capitals = 1..26
    BY DEF Letters, Capitals
<1>3. isalpha(c) => c \in small \/ c \in large
    <2> HIDE DEF small, large
    <2> QED
        BY <1>1, <1>2 DEF isalpha, ToSet
<1>4. ASSUME NEW d \in small PROVE ~checkDelimiter(d)
    BY Zenon DEF checkDelimiter
<1>5. ASSUME NEW d \in large PROVE ~checkDelimiter(d)
    BY Zenon DEF checkDelimiter
<1>6. ~checkDelimiter("-")
    BY Zenon DEF checkDelimiter
<1> HIDE DEF small, large
<1> QED
    BY <1>3, <1>4, <1>5, <1>6, Zenon

\* Nothing has been read of a text whose list is empty.
LEMMA SpelledStart ==
    ASSUME NEW t \in Seq(STRING)
    PROVE  Spelled(<<>>, <<>>, t, 1)
<1>1. Len(t) \in Nat /\ 1 \in Positive /\ 1 \in 1..1
    BY DEF Positive
<1>2. Spelling(t, 1, 1 - 1) = <<>>
    BY <1>1, SpellingGrows
<1>3. Inside(t, 1, 1 - 1)
    BY DEF Inside
<1>4. \A name : Ended(t, 1, name) = {}
    BY <1>1, StretchIs DEF Ended
<1>5. CountedTo(<<>>, t, 1)
    BY <1>4, EmptySum, FS_EmptySet DEF CountedTo
<1> QED
    BY <1>1, <1>2, <1>3, <1>5 DEF Spelled

\* A character that does not delimit leaves the stretch open.
LEMMA SpelledOn ==
    ASSUME NEW list, NEW token, NEW t \in Seq(STRING), NEW p \in 1..Len(t),
           Spelled(list, token, t, p), ~checkDelimiter(t[p])
    PROVE  Spelled(list,
                   IF isalpha(t[p]) \/ t[p] = "-" THEN Append(token, tolower(t[p])) ELSE token,
                   t, p + 1)
<1>1. Len(t) \in Nat /\ p \in Nat /\ p <= Len(t) /\ p > 0
    OBVIOUS
<1>2. PICK start \in 1..p :
          /\ start = 1 \/ checkDelimiter(t[start - 1])
          /\ Inside(t, start, p - 1)
          /\ token = Spelling(t, start, p - 1)
          /\ CountedTo(list, t, start)
    BY DEF Spelled
<1>3. start \in Positive /\ p \in Positive /\ start <= p /\ start \in 1..p + 1
    BY <1>1 DEF Positive
<1>4. Spelling(t, start, p)
         = IF isalpha(t[p]) \/ t[p] = "-" THEN Append(token, tolower(t[p])) ELSE token
    BY <1>2, <1>3, SpellingGrows
<1>5. Inside(t, start, p)
    <2>1. \A k \in start..p : k \in start..p - 1 \/ k = p
        BY <1>1
    <2> QED
        BY <1>2, <2>1 DEF Inside
<1>6. (p + 1) - 1 = p /\ p + 1 <= Len(t) + 1
    BY <1>1
<1> DEFINE q == p + 1
<1>7. q - 1 = p /\ q <= Len(t) + 1 /\ start \in 1..q
    BY <1>3, <1>6
<1> HIDE DEF q
<1>8. Spelled(list,
              IF isalpha(t[p]) \/ t[p] = "-" THEN Append(token, tolower(t[p])) ELSE token, t, q)
    BY <1>2, <1>4, <1>5, <1>7 DEF Spelled
<1> QED
    BY <1>8 DEF q

\* At the end of a stretch the insertion of the token, if there is one, counts it.
LEMMA SpelledEnd ==
    ASSUME NEW list \in Seq(Nodes), Alphabetical(list), NEW token \in Names,
           NEW t \in Seq(STRING), NEW p \in 1..Len(t) + 1, Spelled(list, token, t, p),
           p = Len(t) + 1 \/ checkDelimiter(t[p])
    PROVE  CountedTo(IF token = <<>> THEN list ELSE insertToken(list, token), t, p + 1)
<1> DEFINE new == IF token = <<>> THEN list ELSE insertToken(list, token)
<1>1. PICK start \in 1..p :
          /\ start = 1 \/ checkDelimiter(t[start - 1])
          /\ Inside(t, start, p - 1)
          /\ token = Spelling(t, start, p - 1)
          /\ CountedTo(list, t, start)
    BY DEF Spelled
<1>2. \A name : SumOf(new, {name})
                  = SumOf(list, {name}) + (IF token # <<>> /\ token = name THEN 1 ELSE 0)
    <2>1. \A W : SumOf(list, W) \in Int
        BY SumsOf
    <2>2. CASE token = <<>>
        BY <2>1, <2>2
    <2>3. CASE token # <<>>
        <3>1. new = Added(list, token, 1)
            BY <2>3, InsertionsAdd
        <3>2. 1 \in Positive
            BY DEF Positive
        <3> HIDE DEF new
        <3>3. \A W : SumOf(new, W) = SumOf(list, W) + (IF token \in W THEN 1 ELSE 0)
            BY <3>1, <3>2, AddedIs
        <3> QED
            BY <2>3, <3>3
    <2> QED
        BY <2>2, <2>3
<1> HIDE DEF new
<1>3. ASSUME NEW name
      PROVE  SumOf(new, {name}) = IF name = <<>> THEN 0 ELSE Cardinality(Ended(t, p + 1, name))
    <2>1. SumOf(list, {name}) = IF name = <<>> THEN 0 ELSE Cardinality(Ended(t, start, name))
        BY <1>1 DEF CountedTo
    <2>4. PICK more \in 0..1 : more = IF token # <<>> /\ token = name THEN 1 ELSE 0
        OBVIOUS
    <2>5. SumOf(new, {name}) = SumOf(list, {name}) + more
        BY <1>2, <2>4
    <2>2. CASE name = <<>>
        BY <2>1, <2>2, <2>4, <2>5
    <2>3. CASE name # <<>>
        <3>1. /\ Cardinality(Ended(t, start, name)) \in Nat
              /\ Cardinality(Ended(t, p + 1, name))
                   = Cardinality(Ended(t, start, name)) + more
            BY <1>1, <2>3, <2>4, EndedAt
        <3> QED
            BY <2>1, <2>3, <2>5, <3>1
    <2> QED
        BY <2>2, <2>3
<1> QED
    BY <1>3 DEF CountedTo, new

\* Behind a delimiter a stretch begins.
LEMMA SpelledNext ==
    ASSUME NEW list, NEW t \in Seq(STRING), NEW p \in 1..Len(t), checkDelimiter(t[p]),
           CountedTo(list, t, p + 1)
    PROVE  Spelled(list, <<>>, t, p + 1)
<1> DEFINE q == p + 1
<1>1. q \in 1..q /\ q <= Len(t) + 1 /\ q - 1 = p /\ q \in Positive /\ q..q - 1 = {}
    BY DEF Positive
<1>2. CountedTo(list, t, q)
    OBVIOUS
<1> HIDE DEF q
<1>3. Spelling(t, q, q - 1) = <<>>
    BY <1>1, SpellingGrows
<1>4. Inside(t, q, q - 1)
    BY <1>1 DEF Inside
<1>5. Spelled(list, <<>>, t, q)
    BY <1>1, <1>2, <1>3, <1>4 DEF Spelled
<1> QED
    BY <1>5 DEF q

\* Each file that has been read is counted to its end, the one that is read up to the stretch
\* in hand, and the others not at all.
SpellInv ==
    /\ pc \in {"parse", "size"} =>
          \A f \in 1..at - 1 : CountedTo(lists[f], text[f], Len(text[f]) + 2)
    /\ pc = "parse" =>
          /\ at <= N => Spelled(lists[at], cToken, text[at], pos)
          /\ \A f \in at + 1..N : lists[f] = <<>>

LEMMA SpellInit == Init => SpellInv
<1> SUFFICES ASSUME Init PROVE SpellInv
    OBVIOUS
<1>1. Typed
    BY InitInv DEF IInv
<1>2. N \in Nat /\ DOMAIN text = 1..N /\ text \in Seq(Seq(STRING))
    BY <1>1, TextIs, SimilarityAssumption DEF Typed
<1>3. \A f \in 1..N : text[f] \in Seq(STRING) /\ lists[f] = <<>>
    BY <1>2 DEF Init
<1>4. at = 1 /\ pos = 1 /\ cToken = <<>>
    BY DEF Init
<1>5. at <= N => Spelled(lists[at], cToken, text[at], pos)
    BY <1>2, <1>3, <1>4, SpelledStart
<1> QED
    BY <1>2, <1>3, <1>4, <1>5 DEF SpellInv

\* The file that is read.
LEMMA ReadIs ==
    ASSUME IInv, SpellInv, pc = "parse", at <= N
    PROVE  /\ N \in Nat /\ at \in 1..N /\ text[at] \in Seq(STRING) /\ Len(text[at]) \in Nat
           /\ pos \in 1..Len(text[at]) + 1
           /\ lists \in [1..N -> Seq(Nodes)] /\ lists[at] \in Seq(Nodes)
           /\ Alphabetical(lists[at]) /\ cToken \in Names
           /\ Spelled(lists[at], cToken, text[at], pos)
           /\ \A f \in 1..N : text[f] \in Seq(STRING)
<1>1. Typed /\ ListsInv
    BY DEF IInv
<1>2. N \in Nat /\ DOMAIN text = 1..N /\ text \in Seq(Seq(STRING))
    BY <1>1, TextIs, SimilarityAssumption DEF Typed
<1>3. at \in 1..N /\ pos \in Positive /\ lists \in [1..N -> Seq(Nodes)] /\ cToken \in Names
    BY <1>1, <1>2 DEF Typed
<1>4. text[at] \in Seq(STRING) /\ \A f \in 1..N : text[f] \in Seq(STRING)
    BY <1>2, <1>3
<1>5. Len(text[at]) \in Nat
    BY <1>4
<1>6. Spelled(lists[at], cToken, text[at], pos)
    BY DEF SpellInv
<1>7. pos \in 1..Len(text[at]) + 1
    BY <1>3, <1>5, <1>6 DEF Spelled, Positive
<1>8. Alphabetical(lists[at])
    BY <1>1, <1>3 DEF ListsInv
<1> QED
    BY <1>2, <1>3, <1>4, <1>5, <1>6, <1>7, <1>8

LEMMA SpellEndToken == IInv /\ SpellInv /\ EndToken => SpellInv'
<1> SUFFICES ASSUME IInv, SpellInv, EndToken PROVE SpellInv'
    OBVIOUS
<1>1. /\ pc = "parse" /\ at <= N /\ pos <= Len(text[at]) /\ checkDelimiter(text[at][pos])
      /\ Flush /\ pos' = pos + 1 /\ UNCHANGED <<pc, text, at>>
    BY DEF EndToken, Reading, Char, N
<1>2. /\ N \in Nat /\ at \in 1..N /\ text[at] \in Seq(STRING) /\ Len(text[at]) \in Nat
      /\ pos \in 1..Len(text[at]) + 1
      /\ lists \in [1..N -> Seq(Nodes)] /\ lists[at] \in Seq(Nodes)
      /\ Alphabetical(lists[at]) /\ cToken \in Names
      /\ Spelled(lists[at], cToken, text[at], pos)
    BY <1>1, ReadIs
<1>3. pos \in 1..Len(text[at])
    BY <1>1, <1>2
<1> DEFINE new == IF cToken = <<>> THEN lists[at] ELSE insertToken(lists[at], cToken)
<1>4. CountedTo(new, text[at], pos + 1)
    BY <1>1, <1>2, SpelledEnd
<1>5. cToken' = <<>> /\ lists' = [lists EXCEPT ![at] = new]
    <2>1. CASE cToken = <<>>
        BY <1>1, <1>2, <2>1 DEF Flush
    <2>2. CASE cToken # <<>>
        BY <1>1, <2>2 DEF Flush
    <2> QED
        BY <2>1, <2>2
<1> HIDE DEF new
<1>6. \A f \in 1..N : lists'[f] = IF f = at THEN new ELSE lists[f]
    BY <1>2, <1>5
<1>7. Spelled(new, <<>>, text[at], pos + 1)
    BY <1>1, <1>2, <1>3, <1>4, SpelledNext
<1>8. N' = N
    BY <1>1 DEF N
<1>9. \A f \in 1..at - 1 : CountedTo(lists'[f], text[f], Len(text[f]) + 2)
    BY <1>1, <1>2, <1>6 DEF SpellInv
<1>10. \A f \in at + 1..N : lists'[f] = <<>>
    BY <1>1, <1>2, <1>6 DEF SpellInv
<1>11. Spelled(lists'[at], cToken', text[at], pos')
    BY <1>1, <1>2, <1>5, <1>6, <1>7
<1> QED
    BY <1>1, <1>8, <1>9, <1>10, <1>11 DEF SpellInv

LEMMA SpellInToken == IInv /\ SpellInv /\ (InToken \/ Ignored) => SpellInv'
<1> SUFFICES ASSUME IInv, SpellInv, InToken \/ Ignored PROVE SpellInv'
    OBVIOUS
<1>1. /\ pc = "parse" /\ at <= N /\ pos <= Len(text[at])
      /\ pos' = pos + 1 /\ UNCHANGED <<pc, text, at, lists>>
    BY DEF InToken, Ignored, Reading, N
<1> DEFINE c == text[at][pos]
<1>2. /\ cToken' = IF isalpha(c) \/ c = "-" THEN Append(cToken, tolower(c)) ELSE cToken
      /\ ~checkDelimiter(c)
    <2>1. CASE InToken
        BY <2>1, LetterInside DEF InToken, Char
    <2>2. CASE Ignored
        BY <2>2 DEF Ignored, Char
    <2> QED
        BY <2>1, <2>2
<1>3. /\ N \in Nat /\ at \in 1..N /\ text[at] \in Seq(STRING) /\ Len(text[at]) \in Nat
      /\ pos \in 1..Len(text[at]) + 1
      /\ Spelled(lists[at], cToken, text[at], pos)
    BY <1>1, ReadIs
<1>4. pos \in 1..Len(text[at])
    BY <1>1, <1>3
<1>5. Spelled(lists[at], cToken', text[at], pos + 1)
    BY <1>2, <1>3, <1>4, SpelledOn
<1>6. N' = N
    BY <1>1 DEF N
<1> HIDE DEF c
<1> QED
    BY <1>1, <1>5, <1>6 DEF SpellInv

LEMMA SpellEndOfFile == IInv /\ SpellInv /\ EndOfFile => SpellInv'
<1> SUFFICES ASSUME IInv, SpellInv, EndOfFile PROVE SpellInv'
    OBVIOUS
<1>1. /\ pc = "parse" /\ at <= N /\ pos > Len(text[at])
      /\ lists' = IF cToken = <<>> THEN lists
                  ELSE [lists EXCEPT ![at] = insertToken(@, cToken)]
      /\ at' = at + 1 /\ pos' = 1 /\ cToken' = <<>> /\ UNCHANGED <<pc, text>>
    BY DEF EndOfFile, N
<1>2. /\ N \in Nat /\ at \in 1..N /\ text[at] \in Seq(STRING) /\ Len(text[at]) \in Nat
      /\ pos \in 1..Len(text[at]) + 1
      /\ lists \in [1..N -> Seq(Nodes)] /\ lists[at] \in Seq(Nodes)
      /\ Alphabetical(lists[at]) /\ cToken \in Names
      /\ Spelled(lists[at], cToken, text[at], pos)
      /\ \A f \in 1..N : text[f] \in Seq(STRING)
    BY <1>1, ReadIs
<1>3. pos = Len(text[at]) + 1
    BY <1>1, <1>2
<1> DEFINE new == IF cToken = <<>> THEN lists[at] ELSE insertToken(lists[at], cToken)
<1>4. CountedTo(new, text[at], pos + 1)
    BY <1>2, <1>3, SpelledEnd
<1>5. lists' = [lists EXCEPT ![at] = new]
    <2>1. CASE cToken = <<>>
        BY <1>1, <1>2, <2>1
    <2>2. CASE cToken # <<>>
        BY <1>1, <2>2
    <2> QED
        BY <2>1, <2>2
<1> HIDE DEF new
<1>6. \A f \in 1..N : lists'[f] = IF f = at THEN new ELSE lists[f]
    BY <1>2, <1>5
<1>7. pos + 1 = Len(text[at]) + 2
    BY <1>2, <1>3
<1>8. N' = N
    BY <1>1 DEF N
<1>9. ASSUME NEW f \in 1..at' - 1 PROVE CountedTo(lists'[f], text[f], Len(text[f]) + 2)
    <2>1. CASE f = at
        BY <1>2, <1>4, <1>6, <1>7, <2>1
    <2>2. CASE f # at
        <3>1. f \in 1..at - 1 /\ f \in 1..N
            BY <1>1, <1>2, <2>2
        <3> QED
            BY <1>1, <1>6, <2>2, <3>1 DEF SpellInv
    <2> QED
        BY <2>1, <2>2
<1>10. \A f \in at + 1..N : lists'[f] = <<>>
    BY <1>1, <1>2, <1>6 DEF SpellInv
<1>11. at' <= N => Spelled(lists'[at'], cToken', text[at'], pos')
    <2> SUFFICES ASSUME at + 1 <= N PROVE Spelled(lists'[at + 1], <<>>, text[at + 1], 1)
        BY <1>1
    <2>1. at + 1 \in 1..N /\ at + 1 \in at + 1..N
        BY <1>2
    <2>2. lists'[at + 1] = <<>> /\ text[at + 1] \in Seq(STRING)
        BY <1>2, <1>10, <2>1
    <2> QED
        BY <2>2, SpelledStart
<1>12. \A f \in at' + 1..N : lists'[f] = <<>>
    BY <1>1, <1>2, <1>10
<1> QED
    BY <1>1, <1>8, <1>9, <1>11, <1>12 DEF SpellInv

LEMMA SpellStep == IInv /\ SpellInv /\ [Next]_vars => SpellInv'
<1> SUFFICES ASSUME IInv, SpellInv, [Next]_vars PROVE SpellInv'
    OBVIOUS
<1>1. CASE EndToken \/ InToken \/ Ignored \/ EndOfFile
    BY <1>1, SpellEndToken, SpellInToken, SpellEndOfFile
<1>2. CASE AllRead
    <2>1. pc = "parse" /\ pc' = "size" /\ UNCHANGED <<at, text, lists>>
        BY <1>2 DEF AllRead, reader
    <2> QED
        BY <2>1 DEF SpellInv
<1>3. CASE UNCHANGED vars
    <2>1. UNCHANGED <<pc, at, pos, text, lists, cToken>> /\ N' = N
        BY <1>3 DEF vars, reader, N
    <2> QED
        BY <2>1 DEF SpellInv
<1>4. ASSUME pc' \notin {"parse", "size"} PROVE SpellInv'
    BY <1>4 DEF SpellInv
<1>5. CASE MakePairs
    BY <1>4, <1>5 DEF MakePairs, Size, SizeTraps, Fill, NextFirst, FillDone
<1>6. CASE \/ calculateProbabilities \/ NextPair \/ MeanStep \/ MeanDone
           \/ Weigh \/ Skip \/ SecondFile \/ printResult \/ Finish
    BY <1>4, <1>6 DEF calculateProbabilities, NextPair, MeanStep, MeanDone, Weigh, Skip,
                      Walking, SecondFile, printResult, Finish, PrintDone
<1> QED
    BY <1>1, <1>2, <1>3, <1>5, <1>6 DEF Next

LEMMA CountsAre ==
    ASSUME IInv, SpellInv, pc \in {"parse", "size"}, NEW f \in 1..at - 1
    PROVE  /\ Alphabetical(lists[f])
           /\ {lists[f][i].name : i \in DOMAIN lists[f]} = TokensOf(text[f])
           /\ \A i \in DOMAIN lists[f] :
                 lists[f][i].val = Occurrences(text[f], lists[f][i].name)
           /\ files[f] = Total(lists[f])
<1> DEFINE list == lists[f]
           t == text[f]
           those(name) == {s \in Stretches(t) : TokenIn(t, s) = name}
<1>1. Typed /\ ListsInv
    BY DEF IInv
<1>2. N \in Nat /\ DOMAIN text = 1..N /\ text \in Seq(Seq(STRING))
    BY <1>1, TextIs, SimilarityAssumption DEF Typed
<1>3. f \in 1..N /\ f < at
    BY <1>1, <1>2 DEF Typed
<1>4. t \in Seq(STRING) /\ list \in Seq(Nodes) /\ Alphabetical(list)
    BY <1>1, <1>2, <1>3 DEF Typed, ListsInv
<1>5. files[f] = Total(list)
    BY <1>1, <1>3 DEF ListsInv
<1>6. CountedTo(list, t, Len(t) + 2)
    BY DEF SpellInv
<1> HIDE DEF list, t
<1>7. /\ DOMAIN list = 1..Len(list)
      /\ \A i \in 1..Len(list) : list[i].name \in Names /\ list[i].val \in Positive
    BY <1>4, NodeIs
<1>8. ASSUME NEW name, name # <<>>
      PROVE  /\ SumOf(list, {name}) = Cardinality(those(name))
             /\ Cardinality(those(name)) = 0 <=> those(name) = {}
    <2>1. those(name) \subseteq Stretches(t)
        OBVIOUS
    <2>2. \A s \in Stretches(t) : s[2] < Len(t) + 2
        BY <1>4, StretchIs
    <2>3. those(name) = Ended(t, Len(t) + 2, name)
        BY <2>2 DEF Ended
    <2>4. IsFiniteSet(Stretches(t))
        BY <1>4, StretchIs
    <2>5. SumOf(list, {name}) = Cardinality(Ended(t, Len(t) + 2, name))
        BY <1>6, <1>8 DEF CountedTo
    <2> HIDE DEF those
    <2>6. IsFiniteSet(those(name))
        BY <2>1, <2>4, FS_Subset
    <2> QED
        BY <2>3, <2>5, <2>6, FS_EmptySet
<1>9. ASSUME NEW i \in 1..Len(list)
      PROVE  /\ list[i].name # <<>> /\ list[i].val = Cardinality(those(list[i].name))
             /\ those(list[i].name) # {}
    <2> DEFINE name == list[i].name
    <2>1. SumOf(list, {name}) = list[i].val
        BY <1>4, Lookup
    <2>2. list[i].val # 0
        BY <1>7 DEF Positive
    <2> HIDE DEF name, those
    <2>3. name # <<>>
        BY <1>6, <2>1, <2>2 DEF CountedTo
    <2>4. SumOf(list, {name}) = Cardinality(those(name))
          /\ (Cardinality(those(name)) = 0 <=> those(name) = {})
        BY <1>8, <2>3
    <2> QED
        BY <2>1, <2>2, <2>3, <2>4 DEF name
<1>10. NamesOf(list) \subseteq TokensOf(t)
    <2> SUFFICES ASSUME NEW i \in 1..Len(list) PROVE list[i].name \in TokensOf(t)
        BY DEF NamesOf
    <2>1. list[i].name # <<>> /\ those(list[i].name) # {}
        BY <1>9
    <2>2. PICK s \in Stretches(t) : TokenIn(t, s) = list[i].name
        BY <2>1
    <2> QED
        BY <2>1, <2>2 DEF TokensOf
<1>11. TokensOf(t) \subseteq NamesOf(list)
    <2> SUFFICES ASSUME NEW name \in TokensOf(t), name \notin NamesOf(list) PROVE FALSE
        OBVIOUS
    <2>1. name # <<>> /\ \E s \in Stretches(t) : TokenIn(t, s) = name
        BY DEF TokensOf
    <2>2. those(name) # {}
        BY <2>1
    <2>3. SumOf(list, {name}) = 0
        BY <1>4, Lookup
    <2> HIDE DEF those
    <2> QED
        BY <1>8, <2>1, <2>2, <2>3
<1>12. \A i \in 1..Len(list) : list[i].val = Occurrences(t, list[i].name)
    BY <1>9 DEF Occurrences
<1>13. {list[i].name : i \in DOMAIN list} = TokensOf(t)
    BY <1>7, <1>10, <1>11 DEF NamesOf
<1> HIDE DEF those
<1> QED
    BY <1>4, <1>5, <1>7, <1>12, <1>13 DEF list, t

\* The list of a file that has been read is alphabetical and holds just its tokens, each
\* counted as often as it occurs: fileHandler and insertToken miss none.
THEOREM TokensExact == Spec => []TokensCounted
<1>1. IInv /\ SpellInv => TokensCounted
    BY CountsAre DEF TokensCounted
<1>2. Init => IInv /\ SpellInv
    BY InitInv, SpellInit
<1>3. IInv /\ SpellInv /\ [Next]_vars => SpellInv'
    BY SpellStep
<1> QED
    BY <1>1, <1>2, <1>3, Inductive, PTL DEF Spec
=============================================================================
