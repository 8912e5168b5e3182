------------------------------- MODULE Pairs --------------------------------
(***************************************************************************)
(* The pairs of outputResults() in Asst2/Asst2.c: an array with room for   *)
(* combination(n, 2) pairs is filled by walking the list of files, sorted  *)
(* by weight and printed line by line.  The factorials are computed in     *)
(* WIDTH bits.  Similarity composes this with the tokens and distances.    *)
(***************************************************************************)
EXTENDS Integers, Sequences, FiniteSets

CONSTANT WIDTH       \* bits of an unsigned long long

\* There are at least two bits.
ASSUME PairsAssumption == WIDTH \in Nat /\ 2^WIDTH >= 4

VARIABLES
    files,           \* val of each node of the list: the tokens of its file
    pc,
    totalPairs,
    nodePairs,       \* the array: the pairs written to it
    first, second,   \* the two walking pointers; one past the end is NULL
    printed          \* the lines of the output

array == <<totalPairs, nodePairs, first, second>>

(***************************************************************************)
(* combination(n, r) in unsigned arithmetic.                               *)
(***************************************************************************)
Wrap(x) == x % 2^WIDTH

\* A negative n gives the empty product.
factorial(n) ==
    LET f[k \in 0..n] == IF k = 0 THEN 1 ELSE Wrap(f[k-1] * k)
    IN  IF n <= 0 THEN 1 ELSE f[n]

\* Variant: the order of the chosen files is counted.
permutation(n, r) == factorial(n) \div factorial(n - r)

divisor(n, r) == Wrap(factorial(r) * factorial(n - r))

combination(n, r) == factorial(n) \div divisor(n, r)

PairsInit ==
    /\ totalPairs = 0 /\ nodePairs = <<>>
    /\ first = 1 /\ second = 2
    /\ printed = <<>>

Size ==
    /\ pc = "size" /\ divisor(Len(files), 2) # 0
    /\ totalPairs' = combination(Len(files), 2)
    /\ pc' = "fill"
    /\ UNCHANGED <<files, nodePairs, first, second, printed>>

\* The division by zero ends the process.
SizeTraps ==
    /\ pc = "size" /\ divisor(Len(files), 2) = 0
    /\ pc' = "trapped"
    /\ UNCHANGED <<files, totalPairs, nodePairs, first, second, printed>>

\* Variant: the pair is made of the first node and the one before the second.
LateFill ==
    /\ pc = "fill"
    /\ first <= Len(files) /\ second <= Len(files)
    /\ IF Len(nodePairs) < totalPairs
       THEN nodePairs' = Append(nodePairs,
                [node1 |-> first, node2 |-> second - 1,
                 weight |-> files[first] + files[second]]) /\ pc' = pc
       ELSE pc' = "overrun" /\ UNCHANGED nodePairs
    /\ second' = second + 1
    /\ UNCHANGED <<files, totalPairs, first, printed>>

\* nodePairs[j] = nodePair; what lies beyond the array is no longer the program's.
Fill ==
    /\ pc = "fill"
    /\ first <= Len(files) /\ second <= Len(files)
    /\ IF Len(nodePairs) < totalPairs
       THEN nodePairs' = Append(nodePairs,
                [node1 |-> first, node2 |-> second,
                 weight |-> files[first] + files[second]]) /\ pc' = pc
       ELSE pc' = "overrun" /\ UNCHANGED nodePairs
    /\ second' = second + 1
    /\ UNCHANGED <<files, totalPairs, first, printed>>

\* Variant: the outer loop skips a file.
SkipNextFirst ==
    /\ pc = "fill"
    /\ first <= Len(files) /\ second > Len(files)
    /\ first' = first + 2 /\ second' = first + 3
    /\ UNCHANGED <<files, pc, totalPairs, nodePairs, printed>>

NextFirst ==
    /\ pc = "fill"
    /\ first <= Len(files) /\ second > Len(files)
    /\ first' = first + 1 /\ second' = first + 2
    /\ UNCHANGED <<files, pc, totalPairs, nodePairs, printed>>

FillDone ==
    /\ pc = "fill"
    /\ first > Len(files)
    /\ pc' = "weigh"
    /\ UNCHANGED <<files, totalPairs, nodePairs, first, second, printed>>

\* qsort by compareFunc, in any order among equals, then one line for each pair: the
\* next line is of a pair not yet printed that compares least.
compareFunc(p, q) == p.weight - q.weight

NextLines ==
    LET left == DOMAIN nodePairs \ {printed[n] : n \in DOMAIN printed}
    IN  {k \in left : \A m \in left : compareFunc(nodePairs[k], nodePairs[m]) <= 0}

PrintDone ==
    /\ pc = "print"
    /\ Len(printed) = totalPairs
    /\ pc' = "done"
    /\ UNCHANGED <<files, totalPairs, nodePairs, first, second, printed>>

-----------------------------------------------------------------------------
\* Every variable of the pairs keeps its type.
PairsTypeOK ==
    /\ totalPairs \in Nat
    /\ first \in 1..Len(files) + 1 /\ second \in Nat
    /\ \A k \in DOMAIN nodePairs :
          nodePairs[k].node1 \in DOMAIN files /\ nodePairs[k].node2 \in DOMAIN files
    /\ printed \in Seq(DOMAIN nodePairs)

\* No product of factorial's loop, for n files, is too large for its type.
Fits(n) == \A k \in 1..n : factorial(k - 1) * k < 2^WIDTH

\* "Calculate Combinations: nCr": the array has one place for each pair of files.
RoomForAllPairs ==
    pc \notin {"parse", "size", "trapped"} => totalPairs = (Len(files) * (Len(files) - 1)) \div 2

\* Every pair of distinct files is printed, and printed once, whatever the sort does
\* with ties.
Line(n) == nodePairs[printed[n]]
AllPairsOnce ==
    pc = "done" =>
        /\ {{Line(n).node1, Line(n).node2} : n \in DOMAIN printed}
              = {s \in SUBSET DOMAIN files : Cardinality(s) = 2}
        /\ 2 * Len(printed) = Len(files) * (Len(files) - 1)
=============================================================================
