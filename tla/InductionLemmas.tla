-------------------------- MODULE InductionLemmas ---------------------------
(***************************************************************************)
(* Induction in the form of least counterexamples: a set of subsets of a   *)
(* finite set has a minimal element, and a set of naturals a least one.    *)
(* From the first of these, a fold over a finite set is a function.        *)
(***************************************************************************)
EXTENDS Integers, FiniteSets, FiniteSetTheorems, WellFoundedInduction, TLAPS

\* A set of subsets of a finite set has an element with no other inside it.
LEMMA MinimalSet ==
    ASSUME NEW S, IsFiniteSet(S), NEW T \in SUBSET SUBSET S, T # {}
    PROVE  \E x \in T : \A y \in T : y \subseteq x => y = x
<1>1. IsWellFoundedOn(StrictSubsetOrdering(S), SUBSET S)
    BY FS_StrictSubsetOrderingWellFounded, FS_FiniteSubsetsOfFinite
<1>2. PICK x \in T : \A y \in T : ~(<<y, x>> \in StrictSubsetOrdering(S))
    BY <1>1, WFMin
<1> QED
    BY <1>2 DEF StrictSubsetOrdering

\* A set of naturals has a least element: of the intervals from 0 to one of its
\* elements, a minimal one.
LEMMA Least ==
    ASSUME NEW T \in SUBSET Nat, T # {}
    PROVE  \E x \in T : \A y \in T : x <= y
<1>1. PICK n \in T : TRUE
    OBVIOUS
<1> DEFINE I == 0..n
           U == {0..k : k \in {m \in T : m <= n}}
<1>2. U \in SUBSET SUBSET I /\ U # {}
    OBVIOUS
<1>3. IsFiniteSet(I)
    BY FS_Interval
<1>4. PICK u \in U : \A v \in U : v \subseteq u => v = u
    <2> HIDE DEF U, I
    <2> QED
        BY <1>2, <1>3, MinimalSet
<1>5. PICK x \in T : x <= n /\ u = 0..x
    OBVIOUS
<1>6. ASSUME NEW y \in T, y < x PROVE FALSE
    <2>1. 0..y \in U /\ 0..y \subseteq 0..x /\ x \in 0..x /\ x \notin 0..y
        BY <1>5, <1>6
    <2> QED
        BY <2>1, <1>4, <1>5
<1> QED
    BY <1>6

\* h takes from each subset of S the element that pick gives and combines it, by G, with
\* its value for the rest.
Picks(pick, S) == \A s \in SUBSET S : s # {} => pick[s] \in s
FoldsTo(h, S, V, base, G, pick) ==
    /\ h \in [SUBSET S -> V]
    /\ \A s \in SUBSET S : h[s] = IF s = {} THEN base ELSE G[<<pick[s], h[s \ {pick[s]}]>>]

LEMMA FoldExists ==
    ASSUME NEW S, IsFiniteSet(S), NEW V, NEW base \in V, NEW G \in [S \X V -> V],
           NEW pick, Picks(pick, S)
    PROVE  \E h : FoldsTo(h, S, V, base, G, pick)
<1> DEFINE Value(h, s) == IF s = {} THEN base ELSE G[<<pick[s], h[s \ {pick[s]}]>>]
           Fold(h, s) == h \in [SUBSET s -> V] /\ \A r \in SUBSET s : h[r] = Value(h, r)
<1>1. \A s \in SUBSET S : s # {} => pick[s] \in s
    BY DEF Picks
<1>2. ASSUME NEW s \in SUBSET S, NEW u \in SUBSET S, NEW h, NEW g, Fold(h, s), Fold(g, u),
             NEW r \in SUBSET (s \cap u)
      PROVE  h[r] = g[r]
    <2> DEFINE T == {q \in SUBSET (s \cap u) : h[q] # g[q]}
    <2>1. SUFFICES ASSUME T # {} PROVE FALSE
        OBVIOUS
    <2>2. IsFiniteSet(s \cap u)
        BY FS_Subset
    <2>3. PICK m \in T : \A y \in T : y \subseteq m => y = m
        <3>1. T \in SUBSET SUBSET (s \cap u)
            OBVIOUS
        <3> HIDE DEF T
        <3> QED
            BY <2>1, <2>2, <3>1, MinimalSet
    <2>4. m # {}
        BY <1>2, <2>3
    <2> DEFINE rest == m \ {pick[m]}
    <2>5. rest \in SUBSET (s \cap u) /\ rest # m /\ rest \subseteq m
        BY <1>1, <2>3, <2>4
    <2>6. h[rest] = g[rest]
        BY <2>3, <2>5
    <2>7. h[m] = Value(h, m) /\ g[m] = Value(g, m)
        BY <1>2, <2>3
    <2> QED
        BY <2>3, <2>4, <2>6, <2>7
<1>3. ASSUME NEW s \in SUBSET S PROVE \E h : Fold(h, s)
    <2> DEFINE T == {q \in SUBSET S : ~\E h : Fold(h, q)}
    <2>1. SUFFICES ASSUME T # {} PROVE FALSE
        OBVIOUS
    <2>2. PICK m \in T : \A y \in T : y \subseteq m => y = m
        <3>1. T \in SUBSET SUBSET S
            OBVIOUS
        <3> HIDE DEF T
        <3> QED
            BY <2>1, <3>1, MinimalSet
    <2> DEFINE sub(r) == CHOOSE h : Fold(h, r)
               new == [r \in SUBSET m |->
                         IF r # m THEN sub(r)[r]
                         ELSE IF m = {} THEN base
                         ELSE G[<<pick[m], sub(m \ {pick[m]})[m \ {pick[m]}]>>]]
    <2>3. m \in SUBSET S /\ ~\E h : Fold(h, m)
        BY <2>2
    <2>4. ASSUME NEW r \in SUBSET m, r # m PROVE Fold(sub(r), r)
        <3>1. r \in SUBSET S /\ r \notin T
            BY <2>2, <2>3, <2>4
        <3>2. \E h : Fold(h, r)
            BY <3>1
        <3> HIDE DEF Fold
        <3> QED
            BY <3>2
    <2> HIDE DEF sub
    <2>5. ASSUME NEW r \in SUBSET m, r # {}
          PROVE  LET p == r \ {pick[r]}
                 IN  pick[r] \in S /\ p \in SUBSET m /\ p \in SUBSET r /\ p # m
                     /\ new[p] = sub(p)[p] /\ sub(p)[p] \in V
        <3> DEFINE p == r \ {pick[r]}
        <3>1. pick[r] \in S /\ p \in SUBSET m /\ p \in SUBSET r /\ p # m /\ p \in SUBSET p
            BY <1>1, <2>3, <2>5
        <3> HIDE DEF p
        <3>2. sub(p)[p] \in V
            <4>1. Fold(sub(p), p)
                BY <2>4, <3>1
            <4>2. sub(p) \in [SUBSET p -> V]
                BY <4>1
            <4> QED
                BY <3>1, <4>2
        <3>3. new[p] = sub(p)[p]
            BY <3>1
        <3> QED
            BY <3>1, <3>2, <3>3 DEF p
    <2>6. ASSUME NEW r \in SUBSET m PROVE new[r] \in V /\ new[r] = Value(new, r)
        <3> DEFINE p == r \ {pick[r]}
        <3>1. CASE r = {}
            <4>1. CASE r # m
                <5>1. Fold(sub(r), r) /\ r \in SUBSET r
                    BY <2>4, <4>1
                <5> QED
                    BY <3>1, <4>1, <5>1
            <4>2. CASE r = m
                BY <3>1, <4>2
            <4> QED
                BY <4>1, <4>2
        <3>2. CASE r # {} /\ r = m
            <4>1. new[r] = G[<<pick[r], sub(p)[p]>>]
                BY <3>2
            <4>2. Value(new, r) = G[<<pick[r], new[p]>>]
                BY <3>2
            <4>3. pick[r] \in S /\ new[p] = sub(p)[p] /\ sub(p)[p] \in V
                BY <2>5, <3>2
            <4> HIDE DEF new, p, Value
            <4> QED
                BY <4>1, <4>2, <4>3
        <3>3. CASE r # {} /\ r # m
            <4>1. Fold(sub(r), r) /\ r \in SUBSET r
                BY <2>4, <3>3
            <4>2. new[r] = sub(r)[r]
                BY <3>3
            <4>3. sub(r)[r] = G[<<pick[r], sub(r)[p]>>]
                BY <3>3, <4>1
            <4>4. /\ pick[r] \in S /\ p \in SUBSET m /\ p \in SUBSET r /\ p # m
                  /\ new[p] = sub(p)[p] /\ sub(p)[p] \in V
                BY <2>5, <3>3
            <4>5. Fold(sub(p), p)
                BY <2>4, <4>4
            <4>6. sub(r)[p] = sub(p)[p]
                <5>1. r \in SUBSET S /\ p \in SUBSET S /\ p \in SUBSET (r \cap p)
                    BY <2>3, <4>4
                <5> HIDE DEF p, Fold
                <5> QED
                    BY <1>2, <4>1, <4>5, <5>1
            <4>7. Value(new, r) = G[<<pick[r], new[p]>>]
                BY <3>3
            <4> HIDE DEF new, p, Value, Fold
            <4> QED
                BY <4>2, <4>3, <4>4, <4>6, <4>7
        <3> QED
            BY <3>1, <3>2, <3>3
    <2>7. new \in [SUBSET m -> V]
        <3>1. new = [r \in SUBSET m |-> new[r]]
            OBVIOUS
        <3> HIDE DEF new
        <3> QED
            BY <2>6, <3>1
    <2>8. Fold(new, m)
        <3> HIDE DEF new
        <3> QED
            BY <2>6, <2>7
    <2> HIDE DEF Fold, new
    <2> QED
        BY <2>3, <2>8
<1>4. PICK h : Fold(h, S)
    <2> HIDE DEF Fold
    <2> QED
        BY <1>3
<1> QED
    BY <1>4 DEF FoldsTo
=============================================================================
