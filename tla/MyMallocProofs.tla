--------------------------- MODULE MyMallocProofs ---------------------------
(***************************************************************************)
(* Proofs about mymalloc() and myfree(), for an arena of any size.         *)
(***************************************************************************)
EXTENDS MyMalloc, TLAPS

\* What HeapAssumption gives to the arithmetic of the arena.
LEMMA Sizes ==
    /\ META \in Nat /\ META > 0
    /\ SIZE \in Nat /\ SIZE >= META
    /\ MIN_BLOCK \in Nat
    /\ Requests \subseteq Nat /\ Pointers \subseteq Int
<1>1. PICK n \in 1..SIZE : SIZE = n * META
    BY HeapAssumption
<1>2. n * META >= META
    <2>1. n \in Nat /\ n >= 1 /\ META \in Nat
        BY HeapAssumption
    <2>2. n = (n - 1) + 1 /\ n - 1 \in Nat
        BY <2>1
    <2>3. (n - 1) * META >= 0
        BY <2>1, <2>2
    <2>4. n * META = (n - 1) * META + META
        BY <2>1
    <2> QED
        BY <2>1, <2>3, <2>4
<1> QED
    BY <1>1, <1>2, HeapAssumption

-----------------------------------------------------------------------------
(***************************************************************************)
(* The initial state.                                                      *)
(***************************************************************************)

\* The zeroed arena is a tiling by empty allocated blocks.
LEMMA ZeroTiled ==
    ASSUME meta = ZeroHeaders
    PROVE  /\ Heads \subseteq 0..SIZE-1
           /\ meta \in [Heads -> [len : 0..SIZE, isFree : BOOLEAN]]
           /\ \A j \in Heads : meta[j].len = 0 /\ ~meta[j].isFree
           /\ HeapTiled
<1> USE Sizes
<1>0. Heads = {k \in 0..SIZE-1 : \E n \in 0..SIZE : k = n * META}
    BY DEF ZeroHeaders, Heads
<1>a. \A j \in Heads : meta[j] = [len |-> 0, isFree |-> FALSE]
    BY <1>0 DEF ZeroHeaders
<1>b. meta \in [Heads -> [len : 0..SIZE, isFree : BOOLEAN]]
    <2>1. meta = [j \in Heads |-> [len |-> 0, isFree |-> FALSE]]
        BY <1>0 DEF ZeroHeaders
    <2>2. [len |-> 0, isFree |-> FALSE] \in [len : 0..SIZE, isFree : BOOLEAN]
        OBVIOUS
    <2> QED
        BY <2>1, <2>2
<1>1. /\ Heads = {k \in 0..SIZE-1 : \E n \in 0..SIZE : k = n * META}
      /\ \A j \in Heads : meta[j].len = 0 /\ ~meta[j].isFree /\ NextHead(j) = j + META
    <2>1. \A j \in Heads : meta[j].len = 0 /\ ~meta[j].isFree
        BY <1>a
    <2>2. \A j \in Heads : j \in Int
        BY <1>0
    <2>3. ASSUME NEW j \in Heads PROVE NextHead(j) = j + META
        BY <2>1, <2>2 DEF NextHead
    <2> QED
        BY <1>0, <2>1, <2>3
<1>2. 0 \in Heads
    <2>1. 0 = 0 * META
        OBVIOUS
    <2> QED
        BY <1>1, <2>1
<1>3. PICK m \in 1..SIZE : SIZE = m * META
    BY HeapAssumption
<1>4. ASSUME NEW a \in Nat, NEW b \in Nat, a * META < b * META
      PROVE  (a + 1) * META = a * META + META /\ (a + 1) * META <= b * META
    <2>1. a < b
        <3>1. ASSUME b <= a PROVE FALSE
            <4> DEFINE d == a - b
            <4>1. d \in Nat /\ a = b + d
                BY <3>1
            <4> HIDE DEF d
            <4>2. d * META >= 0
                BY <4>1
            <4>3. a * META = b * META + d * META
                BY <4>1
            <4> QED
                BY <4>1, <4>2, <4>3, <1>4
        <3> QED
            BY <3>1
    <2> DEFINE d == b - a - 1
    <2>2. d \in Nat /\ b = a + 1 + d
        BY <2>1
    <2> HIDE DEF d
    <2>3. d * META >= 0
        BY <2>2
    <2>4. b * META = (a + 1) * META + d * META
        BY <2>2
    <2>5. (a + 1) * META = a * META + META
        OBVIOUS
    <2> QED
        BY <2>2, <2>3, <2>4, <2>5
<1>5. ASSUME NEW j \in Heads
      PROVE  NextHead(j) \in Heads \cup {SIZE}
    <2>1. PICK n \in 0..SIZE : j = n * META
        BY <1>1
    <2>2. j \in 0..SIZE-1 /\ n \in Nat /\ m \in Nat
        BY <1>1, <1>3
    <2>3. NextHead(j) = (n + 1) * META /\ NextHead(j) <= SIZE
        <3>1. n * META < m * META
            BY <1>3, <2>1, <2>2
        <3>2. (n + 1) * META = n * META + META /\ (n + 1) * META <= m * META
            BY <1>4, <2>2, <3>1
        <3>3. NextHead(j) = j + META
            BY <1>1
        <3> QED
            BY <1>3, <2>1, <3>2, <3>3
    <2>4. CASE NextHead(j) < SIZE
        <3>1. NextHead(j) = j + META
            BY <1>1
        <3>2. n < SIZE
            <4>1. n * META >= n
                <5>1. n * META = n * (META - 1) + n /\ META - 1 \in Nat
                    BY <2>2
                <5>2. n * (META - 1) >= 0
                    BY <5>1, <2>2
                <5> QED
                    BY <5>1, <5>2, <2>2
            <4> QED
                BY <2>1, <2>2, <4>1
        <3> QED
            BY <1>1, <2>2, <2>3, <2>4, <3>1, <3>2
    <2> QED
        BY <2>3, <2>4, <2>2, <1>1
<1>6. ASSUME NEW j \in Heads, NEW k \in Heads, j < k
      PROVE  NextHead(j) <= k
    <2>1. PICK a \in 0..SIZE : j = a * META
        BY <1>1
    <2>2. PICK b \in 0..SIZE : k = b * META
        BY <1>1
    <2> QED
        BY <1>1, <1>4, <1>6, <2>1, <2>2
<1> QED
    BY <1>1, <1>b, <1>2, <1>5, <1>6 DEF HeapTiled, Heads

LEMMA InitIInv == Init => IInv
<1> SUFFICES ASSUME Init PROVE IInv
    OBVIOUS
<1> USE Sizes
<1>1. meta = ZeroHeaders
    BY DEF Init
<1>2. /\ Heads \subseteq 0..SIZE-1
      /\ meta \in [Heads -> [len : 0..SIZE, isFree : BOOLEAN]]
      /\ \A j \in Heads : meta[j].len = 0 /\ ~meta[j].isFree
      /\ HeapTiled
    BY <1>1, ZeroTiled
<1>3. TypeOK
    <2>1. DOMAIN owned = {} /\ owned \in [DOMAIN owned -> Nat]
        BY DEF Init
    <2>2. DOMAIN meta \subseteq 0..SIZE-1
          /\ meta \in [DOMAIN meta -> [len : 0..SIZE, isFree : BOOLEAN]]
        BY <1>2 DEF Heads
    <2>3. /\ isMemoryInitialized \in BOOLEAN /\ isError \in BOOLEAN
          /\ pc = "idle" /\ arg \in Int /\ ret \in Int
          /\ i \in 0..SIZE /\ freeBlock \in -1..SIZE-1
          /\ containsPointer \in -1..SIZE-1
        <3>1. isMemoryInitialized \in BOOLEAN /\ isError \in BOOLEAN
            BY Zenon DEF Init
        <3>2. pc = "idle" /\ arg \in Int /\ ret \in Int
            BY DEF Init, NULL
        <3>3. i = 0 /\ freeBlock = 0 /\ containsPointer = -1
            BY DEF Init
        <3> QED
            BY <3>1, <3>2, <3>3
    <2>4. DOMAIN owned \subseteq META..SIZE
        BY <2>1
    <2> QED
        BY <2>1, <2>2, <2>3, <2>4 DEF TypeOK
<1>4. OwnedIsAllocated /\ ZeroInv /\ FreeApart
    BY <1>2 DEF Init, OwnedIsAllocated, ZeroInv, FreeApart, Heads
<1>5. MallocInv /\ SearchInv /\ MergeInv
    BY DEF Init, MallocInv, SearchInv, MergeInv
<1> QED
    BY <1>2, <1>3, <1>4, <1>5 DEF IInv, Init

-----------------------------------------------------------------------------
(***************************************************************************)
(* The tiling.                                                             *)
(***************************************************************************)

\* Every block lies inside the arena and is at least a header long.
LEMMA HeadFacts ==
    ASSUME TypeOK, HeapTiled, NEW j \in Heads
    PROVE  /\ j \in 0..SIZE-1
           /\ meta[j] \in [len : 0..SIZE, isFree : BOOLEAN]
           /\ meta[j].len \in Nat /\ meta[j].isFree \in BOOLEAN
           /\ NextHead(j) = j + META + meta[j].len
           /\ NextHead(j) \in Heads \cup {SIZE}
           /\ NextHead(j) \in Nat /\ NextHead(j) <= SIZE /\ j + META <= NextHead(j)
<1>1. j \in 0..SIZE-1 /\ meta[j] \in [len : 0..SIZE, isFree : BOOLEAN]
    BY DEF TypeOK, Heads
<1>2. NextHead(j) \in Heads \cup {SIZE}
    BY DEF HeapTiled, Heads
<1>3. meta[j].len \in 0..SIZE /\ meta[j].isFree \in BOOLEAN
    BY <1>1
<1>4. NextHead(j) = j + META + meta[j].len
    BY DEF NextHead
<1>5. NextHead(j) <= SIZE
    BY <1>2, Sizes DEF TypeOK, Heads
<1> QED
    BY <1>1, <1>2, <1>3, <1>4, <1>5, Sizes

\* Distinct blocks do not overlap.
LEMMA Disjoint ==
    ASSUME HeapTiled, NEW j \in Heads, NEW k \in Heads, j < k
    PROVE  NextHead(j) <= k
BY DEF HeapTiled, Heads

\* At most one block ends at a given place.
LEMMA OneBefore ==
    ASSUME TypeOK, HeapTiled, NEW j \in Heads, NEW k \in Heads,
           NextHead(j) = NextHead(k)
    PROVE  j = k
<1>1. /\ j \in Nat /\ k \in Nat
      /\ j < NextHead(j) /\ k < NextHead(k)
      /\ NextHead(j) \in Nat /\ NextHead(k) \in Nat
    BY HeadFacts, Sizes
<1>2. ~(j < k) /\ ~(k < j)
    BY <1>1, Disjoint
<1> QED
    BY <1>1, <1>2

\* The whole arena is one free block once no block is allocated.
LEMMA AllFree ==
    ASSUME TypeOK, HeapTiled, \A j \in Heads : meta[j].isFree,
           \A j \in Heads :
               meta[j].isFree /\ NextHead(j) < SIZE => ~meta[NextHead(j)].isFree
    PROVE  Heads = {0} /\ meta[0] = [len |-> SIZE - META, isFree |-> TRUE]
<1>1. 0 \in Heads
    BY DEF HeapTiled, Heads
<1>2. NextHead(0) = SIZE
    BY <1>1, HeadFacts, Sizes
<1>3. ASSUME NEW k \in Heads, k # 0 PROVE FALSE
    <2>1. k \in 0..SIZE-1
        BY HeadFacts
    <2>2. 0 < k
        BY <2>1, <1>3
    <2> QED
        BY <1>1, <1>2, <2>1, <2>2, Disjoint, Sizes
<1>4. meta[0].len = SIZE - META /\ meta[0].isFree = TRUE
    BY <1>1, <1>2, HeadFacts, Sizes
<1>5. meta[0] \in [len : 0..SIZE, isFree : BOOLEAN]
    BY <1>1, HeadFacts
<1>6. meta[0] = [len |-> meta[0].len, isFree |-> meta[0].isFree]
    BY <1>5
<1> QED
    BY <1>1, <1>3, <1>4, <1>6

\* What a step that touches neither the arena nor the client's pointers keeps.
LEMMA SameHeap ==
    ASSUME IInv, UNCHANGED <<meta, isMemoryInitialized, owned>>
    PROVE  /\ HeapTiled' /\ OwnedIsAllocated' /\ ZeroInv'
           /\ Heads' = Heads
           /\ \A j : NextHead(j)' = NextHead(j)
           /\ \A k : NoFreeBefore(k)' = NoFreeBefore(k)
           /\ \A b, k : FreeBefore(b, k)' = FreeBefore(b, k)
BY DEF IInv, HeapTiled, OwnedIsAllocated, ZeroInv, Heads, NextHead,
       NoFreeBefore, FreeBefore

-----------------------------------------------------------------------------
(***************************************************************************)
(* One lemma for each action.                                              *)
(***************************************************************************)

LEMMA CallMallocIInv ==
    ASSUME IInv, NEW n \in Nat, CallMalloc(n)
    PROVE  IInv'
<1> USE Sizes DEF CallMalloc
<1>1. CASE isMemoryInitialized
    <2>1. UNCHANGED <<meta, isMemoryInitialized, owned>>
        BY <1>1
    <2>2. TypeOK'
        BY <2>1 DEF IInv, TypeOK, NULL
    <2>3. HeapTiled' /\ OwnedIsAllocated' /\ ZeroInv' /\ Heads' = Heads
        BY <2>1, SameHeap
    <2>4. FreeApart'
        BY <2>1 DEF IInv, FreeApart, Heads, NextHead
    <2>5. 0 \in Heads
        BY DEF IInv, HeapTiled, Heads
    <2>6. MallocInv' /\ SearchInv' /\ MergeInv'
        BY <2>3, <2>5 DEF MallocInv, SearchInv, MergeInv
    <2> QED
        BY <2>2, <2>3, <2>4, <2>6 DEF IInv
<1>2. CASE ~isMemoryInitialized
    <2>1. meta' = OneFreeBlock /\ owned' = owned /\ DOMAIN owned = {}
        BY <1>2 DEF IInv, OwnedIsAllocated
    <2>2. /\ Heads' = {0}
          /\ meta'[0] = [len |-> SIZE - META, isFree |-> TRUE]
          /\ NextHead(0)' = SIZE
        <3>1. Heads' = {0}
            BY <2>1 DEF OneFreeBlock, Heads
        <3>2. meta'[0] = [len |-> SIZE - META, isFree |-> TRUE]
            BY <2>1 DEF OneFreeBlock
        <3>3. NextHead(0)' = 0 + META + meta'[0].len
            BY DEF NextHead
        <3> QED
            BY <3>1, <3>2, <3>3
    <2>3. TypeOK'
        <3>1. meta' \in [DOMAIN meta' -> [len : 0..SIZE, isFree : BOOLEAN]]
            BY <2>1 DEF OneFreeBlock
        <3>2. DOMAIN meta' \subseteq 0..SIZE-1
            BY <2>2 DEF Heads
        <3> QED
            BY <2>1, <3>1, <3>2 DEF IInv, TypeOK, NULL
    <2>4. HeapTiled'
        BY <2>2 DEF HeapTiled, Heads
    <2>5. OwnedIsAllocated' /\ ZeroInv' /\ FreeApart'
        BY <2>1, <2>2 DEF OwnedIsAllocated, ZeroInv, FreeApart, Heads
    <2>6. MallocInv' /\ SearchInv' /\ MergeInv'
        BY <2>2 DEF MallocInv, SearchInv, MergeInv
    <2> QED
        BY <2>3, <2>4, <2>5, <2>6 DEF IInv
<1> QED
    BY <1>1, <1>2

\* The walk passes a block that cannot serve the request: no hole that begins in
\* it has room, for a short free block ends at an allocated one or at SIZE.
LEMMA MallocNextIInv ==
    ASSUME IInv, MallocNext
    PROVE  IInv'
<1> USE Sizes DEF MallocNext
<1>1. UNCHANGED <<meta, isMemoryInitialized, owned>>
    OBVIOUS
<1>2. i \in Heads /\ arg \in Nat /\ TypeOK /\ HeapTiled
    BY DEF IInv, MallocInv, TypeOK
<1>3. /\ NextHead(i) \in Heads \cup {SIZE} /\ NextHead(i) \in 0..SIZE
      /\ NextHead(i) = i + META + meta[i].len
      /\ i \in Nat /\ meta[i].len \in Nat /\ meta[i].isFree \in BOOLEAN
    BY <1>2, HeadFacts
<1>4. TypeOK'
    BY <1>1, <1>2, <1>3 DEF TypeOK
<1>5. /\ HeapTiled' /\ OwnedIsAllocated' /\ ZeroInv'
      /\ Heads' = Heads /\ \A j : NextHead(j)' = NextHead(j)
    BY <1>1, SameHeap
<1>6. FreeApart'
    BY <1>5 DEF IInv, FreeApart
<1>7. ASSUME NEW a \in 0..NextHead(i)-1, a + META + arg <= SIZE
      PROVE  \E j \in Heads : ~meta[j].isFree /\ Overlaps(a, arg, j)
    <2>1. CASE a < i
        BY <2>1, <1>7, <1>3 DEF IInv, MallocInv
    <2>2. CASE i <= a /\ ~meta[i].isFree
        BY <2>2, <1>2, <1>3, <1>7 DEF Overlaps
    <2>3. CASE i <= a /\ meta[i].isFree
        <3>1. meta[i].len < arg
            BY <2>3, <1>2, <1>3 DEF Fits
        <3>2. NextHead(i) < a + META + arg
            BY <2>3, <3>1, <1>2, <1>3, <1>7
        <3>3. NextHead(i) \in Heads
            BY <3>2, <1>2, <1>3, <1>7
        <3>4. NextHead(i) < SIZE /\ a < NextHead(NextHead(i))
            BY <3>3, <1>2, <1>3, <1>7, HeadFacts
        <3>5. ~meta[NextHead(i)].isFree
            BY <2>3, <3>4, <1>2 DEF IInv, FreeApart
        <3> QED
            BY <3>2, <3>3, <3>4, <3>5 DEF Overlaps
    <2> QED
        BY <2>1, <2>2, <2>3, <1>3
<1>8. MallocInv'
    <2>1. isMemoryInitialized' /\ arg' \in Nat /\ i' \in (Heads \cup {SIZE})'
        BY <1>2, <1>3, <1>5 DEF IInv, MallocInv
    <2>2. ASSUME NEW a \in (0..i-1)', (a + META + arg <= SIZE)'
          PROVE  (\E j \in Heads : ~meta[j].isFree /\ Overlaps(a, arg, j))'
        <3>1. PICK j \in Heads : ~meta[j].isFree /\ Overlaps(a, arg, j)
            BY <2>2, <1>7
        <3> QED
            BY <3>1, <1>5 DEF Overlaps
    <2> QED
        BY <2>1, <2>2 DEF MallocInv
<1>9. SearchInv' /\ MergeInv'
    BY DEF SearchInv, MergeInv
<1> QED
    BY <1>4, <1>5, <1>6, <1>8, <1>9 DEF IInv

\* A returning call leaves the loops' invariants with nothing to say.
LEMMA ReturnIdle ==
    ASSUME Return
    PROVE  /\ MallocInv' /\ SearchInv' /\ MergeInv'
           /\ (pc = "idle" => i = 0)'
           /\ pc' = "idle" /\ arg' \in Int /\ i' \in 0..SIZE
           /\ freeBlock' \in -1..SIZE-1 /\ containsPointer' \in -1..SIZE-1
<1>1. pc' = "idle" /\ arg' = 0 /\ i' = 0 /\ freeBlock' = 0 /\ containsPointer' = -1
    BY DEF Return
<1>2. MallocInv' /\ SearchInv' /\ MergeInv'
    BY <1>1 DEF MallocInv, SearchInv, MergeInv
<1> QED
    BY <1>1, <1>2, Sizes

\* The allocated part keeps the place; the rest becomes a block that ends where
\* the old one did, so its successor is still an allocated block or SIZE.
LEMMA MallocSplitIInv ==
    ASSUME IInv, MallocSplit
    PROVE  IInv'
<1> USE Sizes
<1>0. PICK b, n, s : b = i /\ n = arg /\ s = b + META + n
    OBVIOUS
<1>1. /\ pc = "malloc" /\ b < SIZE /\ b \in Heads /\ n \in Nat
      /\ isMemoryInitialized /\ TypeOK /\ HeapTiled
    BY <1>0 DEF IInv, MallocInv, MallocSplit
<1>2. /\ b \in 0..SIZE-1 /\ meta[b].len \in 0..SIZE /\ meta[b].isFree
      /\ NextHead(b) = b + META + meta[b].len
      /\ NextHead(b) \in Heads \cup {SIZE} /\ NextHead(b) <= SIZE
      /\ meta[b].len >= n + META + MIN_BLOCK
    <2>1. meta[b].isFree /\ meta[b].len >= n + META + MIN_BLOCK
        BY <1>0 DEF MallocSplit, Fits, Splits
    <2> QED
        BY <1>1, <2>1, HeadFacts
<1>3. s \in Nat /\ b + META <= s /\ s + META <= NextHead(b) /\ s < SIZE
    BY <1>0, <1>1, <1>2
<1>4. s \notin Heads
    BY <1>1, <1>2, <1>3, Disjoint
<1>5. meta' = [j \in Heads \cup {s} |->
                  IF j = b THEN [len |-> n, isFree |-> FALSE]
                  ELSE IF j = s THEN [len |-> meta[b].len - n - META, isFree |-> TRUE]
                  ELSE meta[j]]
    BY <1>0 DEF MallocSplit, Heads
<1>6. /\ ret' = b + META /\ isError' = isError
      /\ isMemoryInitialized' = isMemoryInitialized
      /\ owned' = [p \in DOMAIN owned \cup {b + META} |->
                      IF p = b + META THEN n ELSE owned[p]]
      /\ Return
    BY <1>0 DEF MallocSplit, HandOut
<1>7. /\ Heads' = Heads \cup {s}
      /\ meta'[b] = [len |-> n, isFree |-> FALSE]
      /\ meta'[s] = [len |-> meta[b].len - n - META, isFree |-> TRUE]
      /\ \A j \in Heads : j # b => meta'[j] = meta[j]
    BY <1>1, <1>4, <1>5 DEF Heads
<1>8. /\ NextHead(b)' = s
      /\ NextHead(s)' = NextHead(b)
      /\ \A j \in Heads : j # b => NextHead(j)' = NextHead(j)
    <2>1. NextHead(b)' = b + META + meta'[b].len
        BY DEF NextHead
    <2>2. NextHead(s)' = s + META + meta'[s].len
        BY DEF NextHead
    <2>3. ASSUME NEW j \in Heads, j # b PROVE NextHead(j)' = NextHead(j)
        BY <1>7, <2>3 DEF NextHead
    <2> QED
        BY <1>0, <1>1, <1>2, <1>3, <1>7, <2>1, <2>2, <2>3
<1>9. /\ pc' = "idle" /\ isMemoryInitialized' /\ MallocInv' /\ SearchInv'
      /\ MergeInv' /\ (pc = "idle" => i = 0)' /\ ZeroInv'
    BY <1>1, <1>6, ReturnIdle DEF ZeroInv
<1>10. TypeOK'
    <2>1. meta' \in [Heads' -> [len : 0..SIZE, isFree : BOOLEAN]]
        <3>1. ASSUME NEW j \in Heads'
              PROVE  meta'[j] \in [len : 0..SIZE, isFree : BOOLEAN]
            <4>1. n \in 0..SIZE /\ meta[b].len - n - META \in 0..SIZE
                BY <1>1, <1>2
            <4>a. /\ [len |-> n, isFree |-> FALSE] \in [len : 0..SIZE, isFree : BOOLEAN]
                  /\ [len |-> meta[b].len - n - META, isFree |-> TRUE]
                        \in [len : 0..SIZE, isFree : BOOLEAN]
                BY <4>1
            <4>2. CASE j = b
                BY <1>7, <4>a, <4>2
            <4>3. CASE j = s
                BY <1>7, <4>a, <4>3
            <4>4. CASE j \in Heads /\ j # b
                BY <1>1, <1>7, <4>4, HeadFacts
            <4> QED
                BY <1>7, <4>2, <4>3, <4>4
        <3>2. meta' = [j \in Heads' |-> meta'[j]]
            BY <1>5, <1>7 DEF Heads
        <3> QED
            BY <3>1, <3>2
    <2>2. Heads' \subseteq 0..SIZE-1
        BY <1>1, <1>3, <1>7 DEF TypeOK, Heads
    <2>3. DOMAIN owned' \subseteq META..SIZE /\ owned' \in [DOMAIN owned' -> Nat]
        BY <1>1, <1>2, <1>6 DEF TypeOK
    <2>4. ret' \in Int /\ isError' \in BOOLEAN
        BY <1>1, <1>2, <1>6 DEF TypeOK
    <2>5. /\ arg' \in Int /\ i' \in 0..SIZE
          /\ freeBlock' \in -1..SIZE-1 /\ containsPointer' \in -1..SIZE-1
        BY <1>6, ReturnIdle
    <2> QED
        BY <1>1, <1>6, <1>9, <2>1, <2>2, <2>3, <2>4, <2>5 DEF TypeOK, Heads
<1>11. HeapTiled'
    <2>1. 0 \in Heads'
        BY <1>1, <1>7 DEF HeapTiled, Heads
    <2>2. ASSUME NEW j \in Heads' PROVE NextHead(j)' \in Heads' \cup {SIZE}
        BY <1>1, <1>2, <1>7, <1>8, HeadFacts
    <2>3. ASSUME NEW j \in Heads', NEW k \in Heads', j < k
          PROVE  NextHead(j)' <= k
        <3>1. CASE j \in Heads /\ k \in Heads /\ j # b
            BY <1>1, <1>8, <2>3, <3>1, Disjoint
        <3>2. CASE j = b
            BY <1>1, <1>2, <1>3, <1>7, <1>8, <2>3, <3>2, Disjoint, HeadFacts
        <3>3. CASE j = s
            BY <1>1, <1>2, <1>3, <1>7, <1>8, <2>3, <3>3, Disjoint, HeadFacts
        <3>4. CASE j \in Heads /\ k = s /\ j # b
            <4>1. j < b
                BY <1>1, <1>2, <1>3, <2>3, <3>4, Disjoint, HeadFacts
            <4> QED
                BY <1>1, <1>2, <1>3, <1>8, <3>4, <4>1, Disjoint, HeadFacts
        <3> QED
            BY <1>7, <3>1, <3>2, <3>3, <3>4
    <2> QED
        BY <2>1, <2>2, <2>3 DEF HeapTiled, Heads
<1>12. OwnedIsAllocated'
    <2>1. ASSUME NEW p \in DOMAIN owned'
          PROVE  /\ p - META \in Heads' /\ ~meta'[p - META].isFree
                 /\ meta'[p - META].len - owned'[p] \in 0..(META + MIN_BLOCK - 1)
        <3>1. CASE p = b + META
            BY <1>1, <1>2, <1>6, <1>7, <3>1
        <3>2. CASE p # b + META
            <4>1. /\ p \in DOMAIN owned /\ owned'[p] = owned[p]
                BY <1>6, <3>2
            <4>2. /\ p - META \in Heads /\ ~meta[p - META].isFree
                  /\ meta[p - META].len - owned[p] \in 0..(META + MIN_BLOCK - 1)
                BY <1>1, <4>1 DEF IInv, OwnedIsAllocated, Heads
            <4> QED
                BY <1>2, <1>7, <4>1, <4>2
        <3> QED
            BY <3>1, <3>2
    <2>2. ASSUME NEW j \in Heads', ~meta'[j].isFree
          PROVE  j + META \in DOMAIN owned'
        BY <1>1, <1>6, <1>7, <2>2 DEF IInv, OwnedIsAllocated, Heads
    <2> QED
        BY <1>9, <2>1, <2>2 DEF OwnedIsAllocated, Heads
<1>13. FreeApart'
    <2> SUFFICES ASSUME NEW j \in Heads', meta'[j].isFree, NextHead(j)' < SIZE,
                        meta'[NextHead(j)'].isFree
                 PROVE  FALSE
        BY DEF FreeApart, Heads, NextHead
    <2>1. j # b
        BY <1>7
    <2>2. CASE j = s
        <3>1. NextHead(b) \in Heads /\ NextHead(b) # b
            BY <1>2, <1>8, <2>2
        <3> QED
            BY <1>1, <1>2, <1>7, <1>8, <2>2, <3>1 DEF IInv, FreeApart
    <2>3. CASE j \in Heads
        <3>1. NextHead(j) \in Heads /\ NextHead(j) # b
            BY <1>1, <1>7, <1>8, <2>1, <2>3, HeadFacts
        <3> QED
            BY <1>1, <1>7, <1>8, <2>1, <2>3, <3>1 DEF IInv, FreeApart
    <2> QED
        BY <1>7, <2>2, <2>3
<1> QED
    BY <1>9, <1>10, <1>11, <1>12, <1>13 DEF IInv

\* The block is handed out with its padding: the tiling does not change.
LEMMA MallocWholeIInv ==
    ASSUME IInv, MallocWhole
    PROVE  IInv'
<1> USE Sizes
<1>0. PICK b, n : b = i /\ n = arg
    OBVIOUS
<1>1. /\ pc = "malloc" /\ b < SIZE /\ b \in Heads /\ n \in Nat
      /\ isMemoryInitialized /\ TypeOK /\ HeapTiled
    BY <1>0 DEF IInv, MallocInv, MallocWhole
<1>2. /\ b \in 0..SIZE-1 /\ meta[b].len \in 0..SIZE /\ meta[b].isFree
      /\ NextHead(b) = b + META + meta[b].len
      /\ NextHead(b) \in Heads \cup {SIZE} /\ NextHead(b) <= SIZE
      /\ meta[b].len >= n /\ meta[b].len < n + META + MIN_BLOCK
    <2>1. meta[b].isFree /\ meta[b].len >= n /\ ~(meta[b].len >= n + META + MIN_BLOCK)
        BY <1>0 DEF MallocWhole, Fits, Splits
    <2> QED
        BY <1>1, <2>1, HeadFacts
<1>3. /\ meta' = [meta EXCEPT ![b] = [len |-> meta[b].len, isFree |-> FALSE]]
      /\ ret' = b + META /\ isError' = isError
      /\ isMemoryInitialized' = isMemoryInitialized
      /\ owned' = [p \in DOMAIN owned \cup {b + META} |->
                      IF p = b + META THEN n ELSE owned[p]]
      /\ Return
    BY <1>0 DEF MallocWhole, HandOut
<1>4. /\ Heads' = Heads
      /\ meta'[b] = [len |-> meta[b].len, isFree |-> FALSE]
      /\ \A j \in Heads : j # b => meta'[j] = meta[j]
    BY <1>1, <1>3 DEF Heads
<1>5. \A j \in Heads : NextHead(j)' = NextHead(j)
    BY <1>4 DEF NextHead
<1>6. /\ pc' = "idle" /\ isMemoryInitialized' /\ MallocInv' /\ SearchInv'
      /\ MergeInv' /\ (pc = "idle" => i = 0)' /\ ZeroInv'
    BY <1>1, <1>3, ReturnIdle DEF ZeroInv
<1>7. TypeOK'
    <2>1. meta' \in [Heads' -> [len : 0..SIZE, isFree : BOOLEAN]]
        <3>1. [len |-> meta[b].len, isFree |-> FALSE] \in [len : 0..SIZE, isFree : BOOLEAN]
            BY <1>2
        <3> QED
            BY <1>1, <1>3, <1>4, <3>1 DEF TypeOK, Heads
    <2>2. Heads' \subseteq 0..SIZE-1
        BY <1>1, <1>4 DEF TypeOK, Heads
    <2>3. DOMAIN owned' \subseteq META..SIZE /\ owned' \in [DOMAIN owned' -> Nat]
        BY <1>1, <1>2, <1>3 DEF TypeOK
    <2>4. ret' \in Int /\ isError' \in BOOLEAN
        BY <1>1, <1>2, <1>3 DEF TypeOK
    <2>5. /\ arg' \in Int /\ i' \in 0..SIZE
          /\ freeBlock' \in -1..SIZE-1 /\ containsPointer' \in -1..SIZE-1
        BY <1>3, ReturnIdle
    <2> QED
        BY <1>1, <1>6, <2>1, <2>2, <2>3, <2>4, <2>5 DEF TypeOK, Heads
<1>8. HeapTiled'
    BY <1>1, <1>4, <1>5 DEF HeapTiled, Heads
<1>9. OwnedIsAllocated'
    <2>1. ASSUME NEW p \in DOMAIN owned'
          PROVE  /\ p - META \in Heads' /\ ~meta'[p - META].isFree
                 /\ meta'[p - META].len - owned'[p] \in 0..(META + MIN_BLOCK - 1)
        <3>1. CASE p = b + META
            BY <1>1, <1>2, <1>3, <1>4, <3>1
        <3>2. CASE p # b + META
            <4>1. /\ p \in DOMAIN owned /\ owned'[p] = owned[p]
                BY <1>3, <3>2
            <4>2. /\ p - META \in Heads /\ ~meta[p - META].isFree
                  /\ meta[p - META].len - owned[p] \in 0..(META + MIN_BLOCK - 1)
                BY <1>1, <4>1 DEF IInv, OwnedIsAllocated, Heads
            <4> QED
                BY <1>2, <1>4, <4>1, <4>2
        <3> QED
            BY <3>1, <3>2
    <2>2. ASSUME NEW j \in Heads', ~meta'[j].isFree
          PROVE  j + META \in DOMAIN owned'
        BY <1>1, <1>3, <1>4, <2>2 DEF IInv, OwnedIsAllocated, Heads
    <2> QED
        BY <1>6, <2>1, <2>2 DEF OwnedIsAllocated, Heads
<1>10. FreeApart'
    <2> SUFFICES ASSUME NEW j \in Heads', meta'[j].isFree, NextHead(j)' < SIZE,
                        meta'[NextHead(j)'].isFree
                 PROVE  FALSE
        BY DEF FreeApart, Heads, NextHead
    <2>1. j # b /\ NextHead(j) # b /\ NextHead(j) \in Heads
        BY <1>1, <1>4, <1>5, HeadFacts
    <2> QED
        BY <1>1, <1>4, <1>5, <2>1 DEF IInv, FreeApart
<1> QED
    BY <1>6, <1>7, <1>8, <1>9, <1>10 DEF IInv

\* A call that ends without touching the arena.
LEMMA ReturnIInv ==
    ASSUME IInv, pc # "merge", Return,
           UNCHANGED <<meta, isMemoryInitialized, owned>>,
           ret' = ret, isError' \in BOOLEAN
    PROVE  IInv'
<1>1. /\ MallocInv' /\ SearchInv' /\ MergeInv' /\ (pc = "idle" => i = 0)'
      /\ pc' = "idle" /\ arg' \in Int /\ i' \in 0..SIZE
      /\ freeBlock' \in -1..SIZE-1 /\ containsPointer' \in -1..SIZE-1
    BY ReturnIdle
<1>2. /\ HeapTiled' /\ OwnedIsAllocated' /\ ZeroInv'
      /\ Heads' = Heads /\ \A j : NextHead(j)' = NextHead(j)
    BY SameHeap
<1>3. FreeApart'
    BY <1>2 DEF IInv, FreeApart
<1>4. TypeOK'
    BY <1>1 DEF IInv, TypeOK
<1> QED
    BY <1>1, <1>2, <1>3, <1>4 DEF IInv

LEMMA FreeNullIInv ==
    ASSUME IInv, FreeNull
    PROVE  IInv'
<1>1. /\ HeapTiled' /\ OwnedIsAllocated' /\ ZeroInv'
      /\ Heads' = Heads /\ \A j : NextHead(j)' = NextHead(j)
    BY SameHeap DEF FreeNull
<1>2. TypeOK'
    BY DEF IInv, TypeOK, FreeNull, locals, NULL
<1>3. FreeApart'
    BY <1>1 DEF IInv, FreeApart, FreeNull, locals
<1>4. MallocInv' /\ SearchInv' /\ MergeInv' /\ (pc = "idle" => i = 0)'
    BY DEF IInv, MallocInv, SearchInv, MergeInv, FreeNull, locals
<1> QED
    BY <1>1, <1>2, <1>3, <1>4 DEF IInv

LEMMA CallFreeIInv ==
    ASSUME IInv, NEW r \in Int, CallFree(r)
    PROVE  IInv'
<1> USE Sizes DEF CallFree
<1>1. /\ HeapTiled' /\ OwnedIsAllocated' /\ ZeroInv'
      /\ Heads' = Heads /\ \A j : NextHead(j)' = NextHead(j)
    BY SameHeap
<1>2. TypeOK'
    <2>1. /\ i' = 0 /\ freeBlock' = 0 /\ containsPointer' = -1
          /\ arg' \in Int /\ ret' \in Int
        BY DEF NULL
    <2>2. isError' \in BOOLEAN
        BY Zenon
    <2>3. i' \in 0..SIZE /\ freeBlock' \in -1..SIZE-1 /\ containsPointer' \in -1..SIZE-1
        BY <2>1
    <2> QED
        BY <2>1, <2>2, <2>3 DEF IInv, TypeOK
<1>3. FreeApart'
    BY <1>1 DEF IInv, FreeApart
<1>4. SearchInv'
    <2>1. 0 \in Heads'
        BY <1>1 DEF HeapTiled, Heads
    <2>2. (\A j \in Heads : j < i => j + META # arg)'
        BY <1>2 DEF TypeOK, Heads
    <2>3. CanHold(arg)'
        BY DEF CanHold
    <2> QED
        BY <2>1, <2>2, <2>3 DEF SearchInv
<1>5. MallocInv' /\ MergeInv'
    BY DEF MallocInv, MergeInv
<1> QED
    BY <1>1, <1>2, <1>3, <1>4, <1>5 DEF IInv

\* The cursor leaves a block that is not the client's: if that block is free, so
\* was none before it, and freeBlock is it; else freeBlock is -1.
LEMMA SearchNextIInv ==
    ASSUME IInv, SearchNext
    PROVE  IInv'
<1> USE Sizes
<1>0. PICK b, c : b = i /\ c = NextHead(i)
    OBVIOUS
<1>1. /\ pc = "search" /\ b < SIZE /\ b \in Heads /\ TypeOK /\ HeapTiled
      /\ ~isError /\ CanHold(arg)
    BY <1>0 DEF IInv, SearchInv, SearchNext
<1>2. /\ b \in 0..SIZE-1 /\ c \in Heads \cup {SIZE} /\ c \in 0..SIZE /\ b < c
      /\ meta[b].isFree \in BOOLEAN /\ c = NextHead(b)
    BY <1>0, <1>1, HeadFacts
<1>3. /\ UNCHANGED <<meta, isMemoryInitialized, owned, isError, pc, arg,
                     containsPointer, ret>>
      /\ i' = c
      /\ freeBlock' = IF meta[b].isFree /\ freeBlock = -1 THEN b
                      ELSE IF ~meta[b].isFree THEN -1 ELSE freeBlock
      /\ b + META # arg
    BY <1>0 DEF SearchNext
<1>4. /\ HeapTiled' /\ OwnedIsAllocated' /\ ZeroInv'
      /\ Heads' = Heads /\ \A j : NextHead(j)' = NextHead(j)
    BY <1>3, SameHeap
<1>5. TypeOK'
    BY <1>1, <1>2, <1>3 DEF TypeOK
<1>6. FreeApart'
    BY <1>1, <1>3, <1>4 DEF IInv, FreeApart
<1>7. ASSUME NEW j \in Heads, j < c PROVE j + META # arg
    <2>1. j < b \/ j = b
        BY <1>1, <1>2, <1>7, Disjoint, HeadFacts
    <2> QED
        BY <1>0, <1>1, <1>3, <2>1 DEF IInv, SearchInv
<1>8. \/ freeBlock' = -1 /\ NoFreeBefore(c)
      \/ FreeBefore(freeBlock', c)
    <2>1. CASE ~meta[b].isFree
        <3>1. freeBlock' = -1
            BY <1>2, <1>3, <2>1
        <3>2. ASSUME NEW j \in Heads, NextHead(j) = c PROVE ~meta[j].isFree
            BY <1>1, <1>2, <2>1, <3>2, OneBefore
        <3> QED
            BY <3>1, <3>2 DEF NoFreeBefore
    <2>2. CASE meta[b].isFree
        <3>1. CASE freeBlock = -1 \/ (b = 0 /\ freeBlock = 0)
            <4>1. freeBlock' = b
                BY <1>2, <1>3, <2>2, <3>1
            <4> QED
                BY <1>1, <1>2, <2>2, <4>1 DEF FreeBefore
        <3>2. CASE FreeBefore(freeBlock, b)
            <4>1. freeBlock \in Heads /\ meta[freeBlock].isFree /\ NextHead(freeBlock) = b
                BY <3>2 DEF FreeBefore
            <4> QED
                BY <1>1, <1>2, <2>2, <4>1 DEF IInv, FreeApart
        <3>3. freeBlock = -1 \/ (b = 0 /\ freeBlock = 0) \/ FreeBefore(freeBlock, b)
            BY <1>0, <1>1 DEF IInv, SearchInv
        <3> QED
            BY <3>1, <3>2, <3>3
    <2> QED
        BY <1>2, <2>1, <2>2
<1>9. SearchInv'
    <2>1. NoFreeBefore(c)' <=> NoFreeBefore(c)
        BY <1>3, SameHeap
    <2>2. (FreeBefore(freeBlock, i))' <=> FreeBefore(freeBlock', c)
        BY <1>3, <1>4 DEF FreeBefore
    <2>3. (NoFreeBefore(i))' <=> NoFreeBefore(c)
        BY <1>3, <1>4 DEF NoFreeBefore
    <2>4. CanHold(arg)'
        BY <1>1, <1>3 DEF CanHold
    <2>5. (\A j \in Heads : j < i => j + META # arg)'
        BY <1>3, <1>4, <1>7
    <2> QED
        BY <1>1, <1>2, <1>3, <1>4, <1>8, <2>2, <2>3, <2>4, <2>5 DEF SearchInv
<1>10. MallocInv' /\ MergeInv'
    BY <1>1, <1>3 DEF MallocInv, MergeInv
<1> QED
    BY <1>1, <1>3, <1>4, <1>5, <1>6, <1>9, <1>10 DEF IInv

\* The block the client names is marked free; its free neighbours are joined next.
LEMMA FreeFoundIInv ==
    ASSUME IInv, FreeFound
    PROVE  IInv'
<1> USE Sizes
<1>0. PICK b, c : b = i /\ c = NextHead(i)
    OBVIOUS
<1>1. /\ pc = "search" /\ b < SIZE /\ b \in Heads /\ TypeOK /\ HeapTiled
      /\ ~isError /\ CanHold(arg) /\ b + META = arg /\ ~meta[b].isFree
    BY <1>0 DEF IInv, SearchInv, FreeFound
<1>2. /\ b \in 0..SIZE-1 /\ c \in Heads \cup {SIZE} /\ c \in 0..SIZE /\ b < c
      /\ c = NextHead(b) /\ b + META <= SIZE
      /\ meta[b] \in [len : 0..SIZE, isFree : BOOLEAN]
    BY <1>0, <1>1, HeadFacts
<1>3. isMemoryInitialized
    BY <1>1, <1>2 DEF CanHold
<1>4. /\ meta' = [meta EXCEPT ![b].isFree = TRUE]
      /\ containsPointer' = b /\ i' = c /\ pc' = "merge"
      /\ owned' = [p \in DOMAIN owned \ {b + META} |-> owned[p]]
      /\ UNCHANGED <<isMemoryInitialized, isError, arg, freeBlock, ret>>
    BY <1>0, <1>1 DEF FreeFound
<1>5. /\ Heads' = Heads
      /\ meta'[b].isFree /\ meta'[b].len = meta[b].len
      /\ meta'[b] \in [len : 0..SIZE, isFree : BOOLEAN]
      /\ \A j \in Heads : j # b => meta'[j] = meta[j]
    BY <1>1, <1>2, <1>4 DEF Heads, TypeOK
<1>6. ASSUME NEW j \in Heads PROVE NextHead(j)' = NextHead(j)
    BY <1>5 DEF NextHead
<1>7. TypeOK'
    <2>1. meta' \in [Heads' -> [len : 0..SIZE, isFree : BOOLEAN]]
        BY <1>1, <1>2, <1>4, <1>5 DEF TypeOK, Heads
    <2>2. owned' \in [DOMAIN owned' -> Nat] /\ DOMAIN owned' \subseteq META..SIZE
        BY <1>1, <1>4 DEF TypeOK
    <2>3. Heads' \subseteq 0..SIZE-1
        BY <1>1, <1>5 DEF TypeOK, Heads
    <2> QED
        BY <1>1, <1>2, <1>4, <2>1, <2>2, <2>3 DEF TypeOK, Heads
<1>8. HeapTiled'
    BY <1>1, <1>5, <1>6 DEF HeapTiled, Heads
<1>9. OwnedIsAllocated'
    <2>1. ASSUME NEW p \in DOMAIN owned'
          PROVE  /\ p - META \in Heads' /\ ~meta'[p - META].isFree
                 /\ meta'[p - META].len - owned'[p] \in 0..(META + MIN_BLOCK - 1)
        <3>1. p \in DOMAIN owned /\ p # b + META /\ owned'[p] = owned[p] /\ p \in Int
            BY <1>1, <1>4 DEF TypeOK
        <3>2. /\ p - META \in Heads /\ ~meta[p - META].isFree /\ p - META # b
              /\ meta[p - META].len - owned[p] \in 0..(META + MIN_BLOCK - 1)
            BY <1>2, <1>3, <3>1 DEF IInv, OwnedIsAllocated, Heads
        <3> QED
            BY <1>5, <3>1, <3>2
    <2>2. ASSUME NEW j \in Heads', ~meta'[j].isFree
          PROVE  j + META \in DOMAIN owned'
        <3>1. j \in Heads /\ j # b /\ ~meta[j].isFree /\ j \in Int
            BY <1>1, <1>5, <2>2, HeadFacts
        <3>2. j + META \in DOMAIN owned /\ j + META # b + META
            BY <1>2, <1>3, <3>1 DEF IInv, OwnedIsAllocated, Heads
        <3> QED
            BY <1>4, <3>2
    <2> QED
        BY <1>3, <1>4, <2>1, <2>2 DEF OwnedIsAllocated, Heads
<1>10. FreeApart'
    <2> SUFFICES ASSUME NEW j \in Heads', meta'[j].isFree, NextHead(j)' < SIZE,
                        meta'[NextHead(j)'].isFree
                 PROVE  b \in {j, NextHead(j)'}
        BY <1>4 DEF FreeApart, Heads, NextHead
    <2>1. j \in Heads /\ NextHead(j)' = NextHead(j) /\ NextHead(j) \in Heads
        BY <1>1, <1>5, <1>6, HeadFacts
    <2> QED
        BY <1>1, <1>5, <2>1 DEF IInv, FreeApart
<1>11. \/ freeBlock \in {-1, b} /\ NoFreeBefore(b)
       \/ FreeBefore(freeBlock, b)
    <2>1. ASSUME b = 0 PROVE NoFreeBefore(b)
        BY <1>1, <2>1, HeadFacts DEF NoFreeBefore
    <2> QED
        BY <1>0, <1>1, <2>1 DEF IInv, SearchInv
<1>12. MergeInv'
    <2>1. NoFreeBefore(b) => NoFreeBefore(b)'
        <3> SUFFICES ASSUME NoFreeBefore(b), NEW j \in Heads', NextHead(j)' = b
                     PROVE  ~meta'[j].isFree
            BY DEF NoFreeBefore
        <3>1. j \in Heads /\ NextHead(j) = b /\ j # b
            BY <1>1, <1>5, <1>6, HeadFacts
        <3> QED
            BY <1>5, <3>1 DEF NoFreeBefore
    <2>2. FreeBefore(freeBlock, b) => (FreeBefore(freeBlock, b))'
        <3> SUFFICES ASSUME FreeBefore(freeBlock, b)
                     PROVE  (FreeBefore(freeBlock, b))'
            OBVIOUS
        <3>1. /\ freeBlock \in Heads /\ meta[freeBlock].isFree
              /\ NextHead(freeBlock) = b
            BY DEF FreeBefore
        <3>2. freeBlock # b
            BY <1>1, <3>1
        <3> QED
            BY <1>4, <1>5, <3>1, <3>2 DEF FreeBefore, NextHead
    <2>3. NextHead(b)' = c
        BY <1>1, <1>2, <1>6
    <2> QED
        BY <1>1, <1>2, <1>3, <1>4, <1>5, <1>11, <2>1, <2>2, <2>3
           DEF MergeInv, NoFreeBefore, FreeBefore, NextHead
<1>13. ZeroInv' /\ MallocInv' /\ SearchInv'
    BY <1>3, <1>4 DEF ZeroInv, MallocInv, SearchInv
<1> QED
    BY <1>4, <1>7, <1>8, <1>9, <1>10, <1>12, <1>13 DEF IInv

\* Behind the freed block there is at most one free block to pass.
LEMMA MergeNextIInv ==
    ASSUME IInv, MergeNext
    PROVE  IInv'
<1> USE Sizes
<1>0. PICK b, p : b = i /\ p = containsPointer
    OBVIOUS
<1>1. /\ pc = "merge" /\ b < SIZE /\ b \in Heads /\ meta[b].isFree
      /\ TypeOK /\ HeapTiled /\ p \in Heads /\ meta[p].isFree
      /\ isMemoryInitialized
    BY <1>0 DEF IInv, MergeInv, MergeNext
<1>2. /\ UNCHANGED <<meta, isMemoryInitialized, owned, isError, pc, arg, freeBlock,
                     containsPointer, ret>>
      /\ i' = NextHead(b)
    BY <1>0 DEF MergeNext
<1>3. /\ HeapTiled' /\ OwnedIsAllocated' /\ ZeroInv'
      /\ Heads' = Heads /\ \A j : NextHead(j)' = NextHead(j)
    BY <1>2, SameHeap
<1>4. NextHead(b) \in Heads \cup {SIZE} /\ NextHead(b) \in 0..SIZE
    BY <1>1, HeadFacts
<1>5. TypeOK'
    BY <1>1, <1>2, <1>4 DEF TypeOK
<1>6. FreeApart'
    BY <1>0, <1>1, <1>2, <1>3 DEF IInv, FreeApart
<1>7. b = NextHead(p)
    <2> SUFFICES ASSUME NEW n \in Heads, n = NextHead(p), meta[n].isFree,
                        b = NextHead(n)
                 PROVE  FALSE
        BY <1>0, <1>1 DEF IInv, MergeInv
    <2>1. p \in Nat /\ n \in Nat /\ p < n /\ n < b
        BY <1>1, HeadFacts
    <2>2. p \in {n, b}
        BY <1>0, <1>1 DEF IInv, FreeApart
    <2> QED
        BY <1>1, <2>1, <2>2, HeadFacts
<1>8. MergeInv'
    BY <1>0, <1>1, <1>2, <1>3, <1>4, <1>7
       DEF IInv, MergeInv, NoFreeBefore, FreeBefore
<1>9. MallocInv' /\ SearchInv'
    BY <1>1, <1>2 DEF MallocInv, SearchInv
<1> QED
    BY <1>1, <1>2, <1>3, <1>5, <1>6, <1>8, <1>9 DEF IInv

\* What the join covers: from a block with no free block before it up to one that
\* is not free, and nothing but free blocks in between.
LEMMA MergeSpan ==
    ASSUME IInv, MergeDone
    PROVE  /\ MergeBase \in Heads /\ meta[MergeBase].isFree
           /\ i \in Heads \cup {SIZE} /\ MergeBase + META <= i
           /\ i < SIZE => ~meta[i].isFree
           /\ \A k \in Heads : MergeBase < k /\ k < i => meta[k].isFree
           /\ NoFreeBefore(MergeBase)
           /\ containsPointer \in Heads
           /\ MergeBase <= containsPointer /\ containsPointer < i
<1> USE Sizes
<1>0. PICK b, p : b = MergeBase /\ p = containsPointer
    OBVIOUS
<1>1. /\ pc = "merge" /\ TypeOK /\ HeapTiled
      /\ p \in Heads /\ meta[p].isFree /\ i \in Heads \cup {SIZE}
      /\ i < SIZE => ~meta[i].isFree
    BY <1>0 DEF IInv, MergeInv, MergeDone
<1>2. /\ p \in 0..SIZE-1 /\ p + META <= NextHead(p) /\ NextHead(p) \in 0..SIZE
      /\ i \in 0..SIZE
    BY <1>1, HeadFacts DEF TypeOK
<1>3. /\ p + META <= i
      /\ \A k \in Heads : p < k /\ k < i => meta[k].isFree
    <2>1. CASE i = NextHead(p)
        BY <1>1, <1>2, <2>1, Disjoint, HeadFacts
    <2>2. CASE NextHead(p) \in Heads /\ meta[NextHead(p)].isFree
               /\ i = NextHead(NextHead(p))
        <3> DEFINE n == NextHead(p)
        <3>1. n \in 0..SIZE-1 /\ n + META <= i
            BY <2>2, <1>1, HeadFacts
        <3>2. ASSUME NEW k \in Heads, p < k, k < i PROVE k = n
            <4>1. NextHead(p) <= k
                BY <1>1, <3>2, Disjoint
            <4>2. ~(n < k)
                BY <1>1, <1>2, <2>2, <3>1, <3>2, Disjoint, HeadFacts
            <4> QED
                BY <1>1, <3>1, <4>1, <4>2, HeadFacts
        <3> QED
            BY <1>2, <2>2, <3>1, <3>2
    <2> QED
        BY <1>0, <2>1, <2>2, <1>1 DEF IInv, MergeInv
<1>4. CASE freeBlock \in {-1, p} /\ NoFreeBefore(p)
    <2>1. b = p
        BY <1>0, <1>4 DEF MergeBase
    <2> QED
        BY <1>0, <1>1, <1>2, <1>3, <1>4, <2>1
<1>5. CASE FreeBefore(freeBlock, p)
    <2>1. freeBlock \in Heads /\ meta[freeBlock].isFree /\ NextHead(freeBlock) = p
        BY <1>5 DEF FreeBefore
    <2>2. freeBlock \in 0..SIZE-1 /\ freeBlock + META <= p
        BY <1>1, <2>1, HeadFacts
    <2>3. b = freeBlock
        BY <1>0, <2>2 DEF MergeBase
    <2>4. ASSUME NEW k \in Heads, b < k, k < i PROVE meta[k].isFree
        <3>1. p <= k
            BY <1>1, <2>1, <2>3, <2>4, Disjoint
        <3> QED
            BY <1>1, <1>2, <1>3, <2>4, <3>1, HeadFacts
    <2>5. ASSUME NEW j \in Heads, NextHead(j) = b, meta[j].isFree PROVE FALSE
        <3>1. p \in {j, b}
            BY <1>0, <1>1, <2>1, <2>2, <2>3, <2>5 DEF IInv, FreeApart
        <3>2. j < b /\ b < p /\ j \in Nat /\ b \in Nat
            BY <1>1, <2>1, <2>2, <2>3, <2>5, HeadFacts
        <3> QED
            BY <3>1, <3>2
    <2> QED
        BY <1>0, <1>1, <1>2, <1>3, <2>1, <2>2, <2>3, <2>4, <2>5 DEF NoFreeBefore
<1> QED
    BY <1>0, <1>1, <1>4, <1>5 DEF IInv, MergeInv

\* The headers inside the span go; every other block and its end stay.
LEMMA MergeDoneIInv ==
    ASSUME IInv, MergeDone
    PROVE  IInv'
<1> USE Sizes
<1>0. PICK b, e : b = MergeBase /\ e = i
    OBVIOUS
<1>1. /\ TypeOK /\ HeapTiled /\ pc = "merge" /\ isMemoryInitialized
    BY DEF IInv, MergeInv, MergeDone
<1>2. /\ b \in Heads /\ meta[b].isFree /\ e \in Heads \cup {SIZE} /\ b + META <= e
      /\ e < SIZE => ~meta[e].isFree
      /\ \A k \in Heads : b < k /\ k < e => meta[k].isFree
      /\ NoFreeBefore(b)
    BY <1>0, MergeSpan
<1>3. /\ b \in 0..SIZE-1 /\ e \in 0..SIZE /\ meta[b].isFree \in BOOLEAN
    BY <1>0, <1>1, <1>2, HeadFacts DEF TypeOK
<1>4. /\ meta' = [j \in Heads \ {k \in Heads : b < k /\ k < e} |->
                     IF j = b THEN [len |-> e - (b + META), isFree |-> meta[j].isFree]
                     ELSE meta[j]]
      /\ Return
      /\ UNCHANGED <<isMemoryInitialized, isError, ret, owned>>
    BY <1>0 DEF MergeDone, Heads
<1>5. /\ Heads' = Heads \ {k \in Heads : b < k /\ k < e}
      /\ b \in Heads'
      /\ meta'[b].len = e - (b + META) /\ meta'[b].isFree
      /\ meta'[b] \in [len : 0..SIZE, isFree : BOOLEAN]
      /\ \A j \in Heads' : j # b => meta'[j] = meta[j]
    <2>1. Heads' = Heads \ {k \in Heads : b < k /\ k < e} /\ b \in Heads'
        BY <1>2, <1>3, <1>4 DEF Heads
    <2>2. meta'[b] = [len |-> e - (b + META), isFree |-> meta[b].isFree]
        BY <1>4, <2>1
    <2>3. e - (b + META) \in 0..SIZE
        BY <1>2, <1>3
    <2>4. \A j \in Heads' : j # b => meta'[j] = meta[j]
        BY <1>4, <2>1
    <2> QED
        BY <1>2, <1>3, <2>1, <2>2, <2>3, <2>4
<1>6. /\ NextHead(b)' = e
      /\ \A j \in Heads' : j # b => NextHead(j)' = NextHead(j)
    BY <1>2, <1>3, <1>5 DEF NextHead
<1>7. ASSUME NEW j \in Heads, ~meta[j].isFree PROVE j \in Heads' /\ j # b
    BY <1>2, <1>5, <1>7
<1>8. /\ MallocInv' /\ SearchInv' /\ MergeInv' /\ (pc = "idle" => i = 0)'
      /\ pc' = "idle" /\ arg' \in Int /\ i' \in 0..SIZE
      /\ freeBlock' \in -1..SIZE-1 /\ containsPointer' \in -1..SIZE-1
    BY <1>4, ReturnIdle
<1>9. TypeOK'
    <2>1. meta' \in [Heads' -> [len : 0..SIZE, isFree : BOOLEAN]]
        <3>1. ASSUME NEW j \in Heads'
              PROVE  meta'[j] \in [len : 0..SIZE, isFree : BOOLEAN]
            BY <1>1, <1>5, HeadFacts
        <3>2. meta' = [j \in Heads' |-> meta'[j]]
            BY <1>4, <1>5 DEF Heads
        <3> QED
            BY <3>1, <3>2
    <2>2. Heads' \subseteq 0..SIZE-1
        BY <1>1, <1>5 DEF TypeOK, Heads
    <2> QED
        BY <1>1, <1>4, <1>8, <2>1, <2>2 DEF TypeOK, Heads
<1>10. HeapTiled'
    <2>1. 0 \in Heads'
        BY <1>1, <1>3, <1>5 DEF HeapTiled, Heads
    <2>2. ASSUME NEW j \in Heads' PROVE NextHead(j)' \in Heads' \cup {SIZE}
        <3>1. CASE j = b
            BY <1>2, <1>3, <1>5, <1>6, <3>1
        <3>2. CASE j # b
            <4>1. j \in Heads /\ ~(b < j /\ j < e) /\ NextHead(j)' = NextHead(j)
                BY <1>5, <1>6, <3>2
            <4>2. NextHead(j) \in Heads \cup {SIZE} /\ j \in Nat /\ j < NextHead(j)
                  /\ NextHead(j) \in Nat
                BY <1>1, <4>1, HeadFacts
            <4>3. j < b => NextHead(j) <= b
                BY <1>1, <1>2, <4>1, Disjoint
            <4> QED
                BY <1>3, <1>5, <3>2, <4>1, <4>2, <4>3
        <3> QED
            BY <3>1, <3>2
    <2>3. ASSUME NEW j \in Heads', NEW k \in Heads', j < k
          PROVE  NextHead(j)' <= k
        <3>1. j \in Heads /\ k \in Heads /\ ~(b < k /\ k < e) /\ k \in Nat
            BY <1>1, <1>5, HeadFacts
        <3>2. CASE j = b
            BY <1>3, <1>6, <2>3, <3>1, <3>2
        <3>3. CASE j # b
            BY <1>1, <1>6, <2>3, <3>1, <3>3, Disjoint
        <3> QED
            BY <3>2, <3>3
    <2> QED
        BY <2>1, <2>2, <2>3 DEF HeapTiled, Heads
<1>11. OwnedIsAllocated'
    <2>1. ASSUME NEW p \in DOMAIN owned'
          PROVE  /\ p - META \in Heads' /\ ~meta'[p - META].isFree
                 /\ meta'[p - META].len - owned'[p] \in 0..(META + MIN_BLOCK - 1)
        <3>1. /\ p - META \in Heads /\ ~meta[p - META].isFree
              /\ meta[p - META].len - owned[p] \in 0..(META + MIN_BLOCK - 1)
            BY <1>1, <1>4 DEF IInv, OwnedIsAllocated, Heads
        <3> QED
            BY <1>4, <1>5, <1>7, <3>1
    <2>2. ASSUME NEW j \in Heads', ~meta'[j].isFree
          PROVE  j + META \in DOMAIN owned'
        BY <1>1, <1>4, <1>5, <2>2 DEF IInv, OwnedIsAllocated, Heads
    <2> QED
        BY <1>1, <1>4, <2>1, <2>2 DEF OwnedIsAllocated, Heads
<1>12. FreeApart'
    <2> SUFFICES ASSUME NEW j \in Heads', meta'[j].isFree, NextHead(j)' < SIZE,
                        meta'[NextHead(j)'].isFree
                 PROVE  FALSE
        BY DEF FreeApart, Heads, NextHead
    <2>1. CASE j = b
        <3>1. e \in Heads /\ e # b /\ ~meta[e].isFree
            BY <1>2, <1>3, <1>6, <2>1
        <3> QED
            BY <1>5, <1>6, <1>7, <2>1, <3>1
    <2>2. CASE j # b
        <3>1. /\ j \in Heads /\ meta[j].isFree /\ NextHead(j)' = NextHead(j)
              /\ j \in Nat /\ NextHead(j) \in Heads
            BY <1>1, <1>5, <1>6, <2>2, HeadFacts
        <3>2. NextHead(j) # b
            BY <1>2, <3>1 DEF NoFreeBefore
        <3>3. NextHead(j) \in Heads'
            BY <1>10, <3>1 DEF HeapTiled, Heads
        <3>4. meta[NextHead(j)].isFree
            BY <1>5, <3>1, <3>2, <3>3
        <3>5. containsPointer \in {j, NextHead(j)}
            BY <1>1, <3>1, <3>4 DEF IInv, FreeApart
        <3>6. /\ b <= containsPointer /\ containsPointer < e
              /\ containsPointer \in Heads /\ containsPointer \in Nat
            BY <1>0, <1>1, MergeSpan, HeadFacts
        <3> QED
            BY <1>3, <1>5, <2>2, <3>1, <3>2, <3>3, <3>5, <3>6
    <2> QED
        BY <2>1, <2>2
<1>13. ZeroInv'
    BY <1>1, <1>4 DEF ZeroInv
<1> QED
    BY <1>8, <1>9, <1>10, <1>11, <1>12, <1>13 DEF IInv

-----------------------------------------------------------------------------
(***************************************************************************)
(* The theorems.                                                           *)
(***************************************************************************)

\* What any client may do, whatever it asks for and passes.
AnyNext ==
    \/ \E n \in Nat : CallMalloc(n)
    \/ FreeNull
    \/ \E r \in Int : CallFree(r)
    \/ Step

LEMMA NextIsAny == Next => AnyNext
BY Sizes DEF Next, AnyNext

LEMMA NextIInv == IInv /\ [AnyNext]_vars => IInv'
<1> SUFFICES ASSUME IInv, [AnyNext]_vars
             PROVE  IInv'
    OBVIOUS
<1>1. ASSUME NEW n \in Nat, CallMalloc(n) PROVE IInv'
    BY <1>1, CallMallocIInv
<1>2. ASSUME NEW r \in Int, CallFree(r) PROVE IInv'
    BY <1>2, CallFreeIInv
<1>3. CASE FreeNull
    BY <1>3, FreeNullIInv
<1>4. CASE MallocNext
    BY <1>4, MallocNextIInv
<1>5. CASE MallocSplit
    BY <1>5, MallocSplitIInv
<1>6. CASE MallocWhole
    BY <1>6, MallocWholeIInv
<1>7. CASE MallocFail
    <2>1. /\ pc # "merge" /\ Return /\ ret' = ret /\ isError' \in BOOLEAN
          /\ UNCHANGED <<meta, isMemoryInitialized, owned>>
        BY <1>7 DEF MallocFail, IInv, TypeOK
    <2> QED
        BY <2>1, ReturnIInv
<1>8. CASE SearchNext
    BY <1>8, SearchNextIInv
<1>9. CASE FreeUnknown \/ FreeTwice
    <2>1. /\ pc # "merge" /\ Return /\ ret' = ret /\ isError' \in BOOLEAN
          /\ UNCHANGED <<meta, isMemoryInitialized, owned>>
        BY <1>9 DEF FreeUnknown, FreeTwice
    <2> QED
        BY <2>1, ReturnIInv
<1>10. CASE FreeFound
    BY <1>10, FreeFoundIInv
<1>11. CASE MergeNext
    BY <1>11, MergeNextIInv
<1>12. CASE MergeDone
    BY <1>12, MergeDoneIInv
<1>13. CASE UNCHANGED vars
    BY <1>13 DEF vars, locals, IInv, TypeOK, HeapTiled, OwnedIsAllocated, FreeApart,
                 MallocInv, SearchInv, MergeInv, ZeroInv, Heads, NextHead, Overlaps,
                 CanHold, NoFreeBefore, FreeBefore
<1> QED
    BY <1>1, <1>2, <1>3, <1>4, <1>5, <1>6, <1>7, <1>8, <1>9, <1>10, <1>11, <1>12,
       <1>13 DEF AnyNext, Step

\* The invariant of the walks holds in every state of mymalloc.c: the arena is
\* tiled, ownership and headers agree, and each loop knows what it relies on.
THEOREM Inductive == Spec => []IInv
<1>1. Init => IInv
    BY InitIInv
<1>2. IInv /\ [Next]_vars => IInv'
    BY NextIInv, NextIsAny
<1> QED
    BY <1>1, <1>2, PTL DEF Spec

\* Every variable keeps its type; no cursor leaves the arena.
THEOREM TypeCorrect == Spec => []TypeOK
<1>1. IInv => TypeOK
    BY DEF IInv
<1> QED
    BY <1>1, Inductive, PTL

\* The headers tile the arena after every step of mymalloc and myfree.
THEOREM Tiled == Spec => []HeapTiled
<1>1. IInv => HeapTiled
    BY DEF IInv
<1> QED
    BY <1>1, Inductive, PTL

\* Allocated blocks and the client's pointers are the same thing at every step.
THEOREM Ownership == Spec => []OwnedIsAllocated
<1>1. IInv => OwnedIsAllocated
    BY DEF IInv
<1> QED
    BY <1>1, Inductive, PTL

\* Each loop's cursor reads a header that is one, or has reached the end.
THEOREM CursorSafe == Spec => []CursorOnHeader
<1>1. IInv => CursorOnHeader
    <2> SUFFICES ASSUME IInv, i < SIZE PROVE i \in Heads
        BY DEF CursorOnHeader, Heads
    <2>1. pc \in {"idle", "malloc", "search", "merge"}
        BY DEF IInv, TypeOK
    <2>2. pc = "idle" => i \in Heads
        BY DEF IInv, HeapTiled, Heads
    <2>3. pc # "idle" => i \in Heads \cup {SIZE}
        BY <2>1 DEF IInv, MallocInv, SearchInv, MergeInv
    <2> QED
        BY <2>2, <2>3, Sizes
<1> QED
    BY <1>1, Inductive, PTL

\* One myfree joins both sides: no two neighbours are free between calls.
THEOREM NoFragments == Spec => []Coalesced
<1>1. IInv => Coalesced
    BY DEF IInv, FreeApart, Coalesced, Heads
<1> QED
    BY <1>1, Inductive, PTL

\* When the client has given everything back, the arena is one free block again.
LEMMA EmptyIsClean == IInv => CleanWhenEmpty
<1> SUFFICES ASSUME IInv, isMemoryInitialized, pc = "idle", DOMAIN owned = {}
             PROVE  isMemCorrectlyConfigured /\ DOMAIN meta = {0}
    BY DEF CleanWhenEmpty
<1>1. TypeOK /\ HeapTiled
    BY DEF IInv
<1>2. \A j \in Heads : meta[j].isFree
    BY DEF IInv, OwnedIsAllocated, Heads
<1>3. \A j \in Heads :
         meta[j].isFree /\ NextHead(j) < SIZE => ~meta[NextHead(j)].isFree
    BY DEF IInv, FreeApart
<1>4. Heads = {0} /\ meta[0] = [len |-> SIZE - META, isFree |-> TRUE]
    BY <1>1, <1>2, <1>3, AllFree
<1> QED
    BY <1>4 DEF isMemCorrectlyConfigured, Heads

\* Whatever was allocated and in whatever order it was freed, nothing is left of it.
THEOREM LeakFree == Spec => []CleanWhenEmpty
BY EmptyIsClean, Inductive, PTL

\* mymalloc gives up only when no header and payload of that size fit anywhere.
THEOREM NullMeansFull == Spec => OutOfMemoryIsReal
<1>1. IInv /\ [Next]_vars => [MallocFail => NoRoom(arg)]_vars
    <2> SUFFICES ASSUME IInv, MallocFail PROVE NoRoom(arg)
        BY Zenon
    <2>1. /\ arg \in Nat /\ i \in Heads \cup {SIZE} /\ i >= SIZE /\ TypeOK
          /\ \A a \in 0..i-1 : a + META + arg <= SIZE =>
                \E j \in Heads : ~meta[j].isFree /\ Overlaps(a, arg, j)
        BY DEF IInv, MallocInv, MallocFail
    <2>2. i = SIZE
        BY <2>1, Sizes DEF TypeOK, Heads
    <2>3. ASSUME NEW a \in 0..SIZE, a + META + arg <= SIZE PROVE a \in 0..i-1
        BY <2>1, <2>2, <2>3, Sizes
    <2> QED
        BY <2>1, <2>2, <2>3 DEF NoRoom, Heads
<1> QED
    BY <1>1, Inductive, PTL DEF Spec, OutOfMemoryIsReal

\* The walk over the headers meets the pointer exactly when the client owns it.
LEMMA RefusalStep ==
    ASSUME IInv, AnyNext, pc = "search", pc' # "search"
    PROVE  isError' <=> arg \notin DOMAIN owned
<1>0. /\ TypeOK /\ HeapTiled /\ ~isError /\ CanHold(arg)
      /\ i \in Heads \cup {SIZE}
      /\ \A j \in Heads : j < i => j + META # arg
    BY DEF IInv, SearchInv
<1>1. ASSUME arg \in DOMAIN owned
      PROVE  arg - META \in Heads /\ ~meta[arg - META].isFree
    BY <1>1 DEF IInv, OwnedIsAllocated, Heads
<1>2. CASE FreeUnknown
    <2>1. isError' /\ i >= SIZE
        BY <1>2 DEF FreeUnknown
    <2>2. ASSUME arg \in DOMAIN owned PROVE FALSE
        BY <1>0, <1>1, <2>1, <2>2, HeadFacts, Sizes DEF TypeOK
    <2> QED
        BY <2>1, <2>2
<1>3. CASE FreeTwice
    <2>1. isError' /\ i \in Heads /\ arg = i + META /\ meta[i].isFree
        BY <1>0, <1>3, Sizes DEF FreeTwice
    <2>2. arg - META = i
        BY <1>0, <2>1, Sizes DEF TypeOK
    <2> QED
        BY <1>1, <2>1, <2>2
<1>4. CASE FreeFound
    <2>1. /\ ~isError' /\ i \in Heads /\ arg = i + META /\ ~meta[i].isFree
        BY <1>0, <1>4, Sizes DEF FreeFound
    <2>2. i \in Nat /\ i + META <= SIZE
        BY <1>0, <2>1, HeadFacts, Sizes
    <2>3. isMemoryInitialized
        BY <1>0, <2>1, <2>2, Sizes DEF CanHold
    <2>4. arg \in DOMAIN owned
        BY <2>1, <2>3 DEF IInv, OwnedIsAllocated, Heads
    <2> QED
        BY <2>1, <2>4
<1> QED
    BY <1>2, <1>3, <1>4
       DEF AnyNext, Step, CallMalloc, CallFree, FreeNull, locals, MallocNext,
           MallocSplit, MallocWhole, MallocFail, SearchNext, MergeNext, MergeDone

\* myfree refuses a pointer exactly when the client does not own it, however the
\* call came to its end.
THEOREM RefusalExact == Spec => RefusedIffNotOwned
<1> DEFINE A == pc = "search" /\ pc' # "search" => (isError' <=> arg \notin DOMAIN owned)
<1>1. IInv /\ [Next]_vars => [A]_vars
    BY RefusalStep, NextIsAny
<1> QED
    BY <1>1, Inductive, PTL DEF Spec, RefusedIffNotOwned

\* Neither the split nor the join of its neighbours reaches a block that stays in use.
LEMMA InUseStep ==
    ASSUME IInv, AnyNext, NEW p \in DOMAIN owned, p \in DOMAIN owned'
    PROVE  meta'[p - META] = meta[p - META]
<1>0. /\ TypeOK /\ HeapTiled /\ isMemoryInitialized
      /\ p - META \in Heads /\ ~meta[p - META].isFree
      /\ p \in Int /\ p - META \in 0..SIZE-1
    <2>1. isMemoryInitialized /\ p - META \in Heads /\ ~meta[p - META].isFree
        BY DEF IInv, OwnedIsAllocated, Heads
    <2>2. TypeOK /\ HeapTiled
        BY DEF IInv
    <2> QED
        BY <2>1, <2>2 DEF TypeOK, Heads
<1>1. CASE MallocSplit
    <2>1. /\ meta' = [j \in Heads \cup {i + META + arg} |->
                IF j = i THEN [len |-> arg, isFree |-> FALSE]
                ELSE IF j = i + META + arg
                     THEN [len |-> meta[i].len - arg - META, isFree |-> TRUE]
                     ELSE meta[j]]
          /\ meta[i].isFree /\ meta[i].len >= arg + META + MIN_BLOCK
          /\ i \in Heads /\ arg \in Nat
        BY <1>1, Sizes DEF MallocSplit, Fits, Splits, IInv, MallocInv, Heads
    <2>2. /\ i \in Nat /\ NextHead(i) = i + META + meta[i].len
          /\ meta[i].len \in Nat
        BY <1>0, <2>1, HeadFacts
    <2>3. i + META + arg \notin Heads
        BY <1>0, <2>1, <2>2, Disjoint, Sizes
    <2>4. p - META # i /\ p - META # i + META + arg
        BY <1>0, <2>1, <2>3
    <2> QED
        BY <1>0, <2>1, <2>4
<1>2. CASE MallocWhole
    BY <1>0, <1>2 DEF MallocWhole, Fits, Heads
<1>3. CASE FreeFound
    <2>1. /\ meta' = [meta EXCEPT ![i].isFree = TRUE] /\ arg = i + META
          /\ p # arg /\ i \in Heads
        BY <1>3, Sizes DEF FreeFound, IInv, SearchInv
    <2>2. p - META # i
        BY <1>0, <2>1, HeadFacts, Sizes
    <2> QED
        BY <1>0, <2>1, <2>2 DEF Heads
<1>4. CASE MergeDone
    <2>1. p - META # MergeBase /\ ~(MergeBase < p - META /\ p - META < i)
        BY <1>0, <1>4, MergeSpan
    <2> QED
        BY <1>0, <1>4, <2>1 DEF MergeDone, Heads
<1>5. CASE UNCHANGED meta
    BY <1>5
<1>6. ASSUME NEW n \in Nat, CallMalloc(n) PROVE UNCHANGED meta
    BY <1>0, <1>6 DEF CallMalloc
<1> QED
    BY <1>1, <1>2, <1>3, <1>4, <1>5, <1>6
       DEF AnyNext, Step, CallFree, FreeNull, MallocNext, MallocFail, SearchNext,
           FreeUnknown, FreeTwice, MergeNext

\* No call moves or resizes a block that stays in use.
THEOREM InUseKept == Spec => InUseUnmoved
<1> DEFINE A == \A p \in DOMAIN owned \cap DOMAIN owned' : meta'[p - META] = meta[p - META]
<1>1. IInv /\ [Next]_vars => [A]_vars
    BY InUseStep, NextIsAny
<1> QED
    BY <1>1, Inductive, PTL DEF Spec, InUseUnmoved

-----------------------------------------------------------------------------
(***************************************************************************)
(* Refinement of HeapSpec.                                                 *)
(***************************************************************************)

\* What the mapping says in each state of the walk.
LEMMA HeapOpOf ==
    /\ pc = "malloc" => heapOp = "malloc" /\ heapArg = arg
    /\ pc = "search" => heapOp = "free" /\ heapArg = arg
    /\ pc \in {"idle", "merge"} => heapOp = "none" /\ heapArg = 0
BY DEF heapOp, heapArg

LEMMA HeapOpOfNext ==
    /\ pc' = "malloc" => heapOp' = "malloc" /\ heapArg' = arg'
    /\ pc' = "search" => heapOp' = "free" /\ heapArg' = arg'
    /\ pc' \in {"idle", "merge"} => heapOp' = "none" /\ heapArg' = 0
BY DEF heapOp, heapArg

\* The block first fit chose is clear of every extent the client owns.
LEMMA ServedIsClear ==
    ASSUME IInv, MallocSplit \/ MallocWhole
    PROVE  /\ i + META \in META..SIZE
           /\ Heap!Clear(i + META, heapArg)
           /\ heapOp = "malloc" /\ heapArg = arg
<1> USE Sizes
<1>1. /\ pc = "malloc" /\ i < SIZE /\ Fits(i, arg)
    BY DEF MallocSplit, MallocWhole
<1>2. /\ TypeOK /\ HeapTiled /\ isMemoryInitialized /\ arg \in Nat /\ i \in Heads
    BY <1>1 DEF IInv, MallocInv
<1>3. heapOp = "malloc" /\ heapArg = arg
    BY <1>1, HeapOpOf
<1>4. /\ i \in 0..SIZE-1 /\ meta[i].isFree /\ meta[i].len >= arg
      /\ NextHead(i) = i + META + meta[i].len /\ NextHead(i) <= SIZE
      /\ meta[i].len \in Nat
    BY <1>1, <1>2, HeadFacts DEF Fits
<1>5. ASSUME NEW q \in DOMAIN owned
      PROVE  i + META + arg <= q - META \/ q + owned[q] <= i + META - META
    <2>1. /\ q - META \in Heads /\ ~meta[q - META].isFree
          /\ meta[q - META].len - owned[q] \in 0..(META + MIN_BLOCK - 1)
        BY <1>2 DEF IInv, OwnedIsAllocated, Heads
    <2>2. q \in Int /\ owned[q] \in Nat
        BY <1>2 DEF TypeOK
    <2>3. /\ NextHead(q - META) = q - META + META + meta[q - META].len
          /\ meta[q - META].len \in Nat /\ q - META \in Nat
        BY <1>2, <2>1, HeadFacts
    <2>4. CASE i < q - META
        BY <1>2, <1>4, <2>1, <2>2, <2>4, Disjoint
    <2>5. CASE q - META < i
        BY <1>2, <1>4, <2>1, <2>2, <2>3, <2>5, Disjoint
    <2>6. i # q - META
        BY <1>4, <2>1
    <2> QED
        BY <1>4, <2>2, <2>4, <2>5, <2>6
<1>6. i + META + arg <= SIZE
    BY <1>2, <1>4
<1>7. Heap!Clear(i + META, heapArg)
    BY <1>3, <1>4, <1>5, <1>6 DEF Heap!Clear
<1> QED
    BY <1>3, <1>4, <1>6, <1>7, <1>2

\* Where first fit found no room there is none for a heap with padded blocks.
LEMMA FullIsFull ==
    ASSUME IInv, MallocFail
    PROVE  ~Heap!Room(heapArg) /\ heapOp = "malloc"
<1> USE Sizes
<1>1. pc = "malloc" /\ i >= SIZE
    BY DEF MallocFail
<1>2. /\ TypeOK /\ HeapTiled /\ isMemoryInitialized /\ arg \in Nat
      /\ i \in Heads \cup {SIZE}
      /\ \A a \in 0..i-1 : a + META + arg <= SIZE =>
            \E j \in Heads : ~meta[j].isFree /\ Overlaps(a, arg, j)
    BY <1>1 DEF IInv, MallocInv
<1>3. i = SIZE
    BY <1>1, <1>2 DEF TypeOK, Heads
<1>4. heapOp = "malloc" /\ heapArg = arg
    BY <1>1, HeapOpOf
<1>5. ASSUME NEW p \in META..SIZE, p + arg <= SIZE,
             \A q \in DOMAIN owned :
                p + arg <= q - META \/ q + owned[q] + Heap!MaxPadding <= p - META
      PROVE  FALSE
    <2>1. p - META \in 0..i-1 /\ p - META + META + arg <= SIZE
        BY <1>2, <1>3, <1>5
    <2>2. PICK j \in Heads : ~meta[j].isFree /\ Overlaps(p - META, arg, j)
        BY <1>2, <2>1
    <2>3. j \in Nat /\ NextHead(j) = j + META + meta[j].len /\ meta[j].len \in Nat
        BY <1>2, HeadFacts
    <2>4. j < p - META + META + arg /\ p - META < NextHead(j)
        BY <2>2 DEF Overlaps
    <2> DEFINE q == j + META
    <2>5. q \in DOMAIN owned /\ owned[q] \in Nat /\ q - META = j /\ q \in Nat
        BY <1>2, <2>2, <2>3 DEF IInv, OwnedIsAllocated, Heads, TypeOK
    <2>6. meta[j].len - owned[q] \in 0..(META + MIN_BLOCK - 1)
        BY <1>2, <2>5 DEF IInv, OwnedIsAllocated
    <2> HIDE DEF q
    <2>7. p + arg <= q - META \/ q + owned[q] + (META + MIN_BLOCK - 1) <= p - META
        BY <1>5, <2>5 DEF Heap!MaxPadding
    <2> QED
        BY <1>2, <2>3, <2>4, <2>5, <2>6, <2>7
<1> QED
    BY <1>4, <1>5 DEF Heap!Room

\* mymalloc.c implements the heap of extents: it starts as that heap does, and each
\* of its steps is a step of that heap or does not show.
THEOREM HeapRefinement == Spec => Heap!Init /\ [][Heap!Next]_(Heap!vars)
<1> USE Sizes
<1>1. Init => Heap!Init
    BY HeapOpOf DEF Init, Heap!Init, Heap!NULL, NULL
<1>2. IInv /\ [Next]_vars => [Heap!Next]_(Heap!vars)
    <2> SUFFICES ASSUME IInv, [Next]_vars
                 PROVE  Heap!Next \/ UNCHANGED Heap!vars
        OBVIOUS
    <2> USE DEF Heap!vars, Heap!NULL, NULL
    <2>1. ASSUME NEW n \in Requests, CallMalloc(n) PROVE Heap!CallMalloc(n)
        BY <2>1, HeapOpOf, HeapOpOfNext DEF CallMalloc, Heap!CallMalloc
    <2>2. ASSUME NEW r \in Pointers, CallFree(r) PROVE Heap!CallFree(r)
        BY <2>2, HeapOpOf, HeapOpOfNext DEF CallFree, Heap!CallFree
    <2>3. CASE FreeNull
        <3>1. UNCHANGED <<heapOp, heapArg>> /\ heapOp = "none"
            BY <2>3, HeapOpOf, HeapOpOfNext DEF FreeNull, locals
        <3>2. Heap!FreeNull
            BY <2>3, <3>1 DEF FreeNull, Heap!FreeNull
        <3> QED
            BY <3>2 DEF Heap!Next
    <2>4. CASE MallocSplit \/ MallocWhole
        <3>1. /\ i + META \in META..SIZE /\ Heap!Clear(i + META, heapArg)
              /\ heapOp = "malloc" /\ heapArg = arg
            BY <2>4, ServedIsClear
        <3>2. /\ HandOut /\ Return
            BY <2>4 DEF MallocSplit, MallocWhole, HandOut
        <3>3. heapOp' = "none" /\ heapArg' = 0
            BY <3>2, HeapOpOfNext DEF Return
        <3>4. /\ ret' = i + META /\ UNCHANGED isError
              /\ owned' = [q \in DOMAIN owned \cup {i + META} |->
                              IF q = i + META THEN heapArg ELSE owned[q]]
            BY <3>1, <3>2 DEF HandOut
        <3>5. Heap!MallocOk
            BY <3>1, <3>3, <3>4 DEF Heap!MallocOk
        <3> QED
            BY <3>5 DEF Heap!Next, Heap!Answer
    <2>5. CASE MallocFail
        <3>1. ~Heap!Room(heapArg) /\ heapOp = "malloc"
            BY <2>5, FullIsFull
        <3>2. heapOp' = "none" /\ heapArg' = 0
            BY <2>5, HeapOpOfNext DEF MallocFail, Return
        <3>3. Heap!MallocNull
            BY <2>5, <3>1, <3>2 DEF MallocFail, Heap!MallocNull
        <3> QED
            BY <3>3 DEF Heap!Next, Heap!Answer
    <2>6. CASE MallocNext \/ SearchNext \/ MergeNext
        <3>1. UNCHANGED <<pc, arg, owned, ret, isError>>
            BY <2>6 DEF MallocNext, SearchNext, MergeNext
        <3> QED
            BY <3>1 DEF heapOp, heapArg
    <2>7. CASE FreeUnknown \/ FreeTwice \/ FreeFound
        <3>1. pc = "search" /\ pc' # "search" /\ ~isError
            BY <2>7 DEF FreeUnknown, FreeTwice, FreeFound, Return, IInv, SearchInv
        <3>2. heapOp = "free" /\ heapArg = arg
            BY <3>1, HeapOpOf
        <3>3. heapOp' = "none" /\ heapArg' = 0
            BY <2>7, HeapOpOfNext DEF FreeUnknown, FreeTwice, FreeFound, Return
        <3>4. Next
            BY <2>7 DEF Next, Step
        <3>5. isError' <=> arg \notin DOMAIN owned
            BY <3>1, <3>4, RefusalStep, NextIsAny
        <3>6. CASE FreeFound
            <4>1. Heap!FreeOk
                BY <3>1, <3>2, <3>3, <3>5, <3>6 DEF FreeFound, Heap!FreeOk
            <4> QED
                BY <4>1 DEF Heap!Next, Heap!Answer
        <3>7. CASE FreeUnknown \/ FreeTwice
            <4>1. Heap!FreeRefused
                BY <3>2, <3>3, <3>5, <3>7 DEF FreeUnknown, FreeTwice, Heap!FreeRefused
            <4> QED
                BY <4>1 DEF Heap!Next, Heap!Answer
        <3> QED
            BY <2>7, <3>6, <3>7
    <2>8. CASE MergeDone
        <3>1. heapOp = "none" /\ heapArg = 0
            BY <2>8, HeapOpOf DEF MergeDone
        <3>2. heapOp' = "none" /\ heapArg' = 0
            BY <2>8, HeapOpOfNext DEF MergeDone, Return
        <3> QED
            BY <2>8, <3>1, <3>2 DEF MergeDone
    <2>9. CASE UNCHANGED vars
        BY <2>9 DEF vars, locals, heapOp, heapArg
    <2> QED
        BY <2>1, <2>2, <2>3, <2>4, <2>5, <2>6, <2>7, <2>8, <2>9
           DEF Next, Step, Heap!Next
<1> QED
    BY <1>1, <1>2, Inductive, PTL DEF Spec

\* A step of a call ends it, or finds the block to be freed, or brings its loop on by a
\* header at least.
CallNearer ==
    pc # "idle" =>
        \/ pc' = "idle"
        \/ pc = "search" /\ pc' = "merge"
        \/ pc' = pc /\ i + META <= i' /\ i' <= SIZE

\* No loop of mymalloc.c goes round for ever: each turn goes on in the arena and not
\* beyond it, so that no loop takes more than SIZE \div META turns, whatever was allocated and
\* freed before.
THEOREM LoopsAdvance == Spec => [][CallNearer]_vars
<1>1. IInv /\ IInv' /\ [Next]_vars => [CallNearer]_vars
    <2> SUFFICES ASSUME IInv, IInv', Next, pc # "idle" PROVE CallNearer
        BY DEF CallNearer
    <2>1. CASE MallocNext \/ SearchNext \/ MergeNext
        <3>1. i < SIZE /\ i \in Heads /\ i' = NextHead(i) /\ pc' = pc
            <4>1. i < SIZE /\ i' = NextHead(i) /\ pc' = pc /\ pc \in {"malloc", "search", "merge"}
                BY <2>1 DEF MallocNext, SearchNext, MergeNext
            <4>2. i \in Heads \cup {SIZE}
                BY <4>1 DEF IInv, MallocInv, SearchInv, MergeInv
            <4> QED
                BY <4>1, <4>2, Sizes
        <3>2. i \in Nat /\ meta[i].len \in Nat
            BY <3>1, Sizes DEF IInv, TypeOK, Heads
        <3>3. i' <= SIZE
            BY Sizes DEF IInv, TypeOK
        <3> QED
            BY <3>1, <3>2, <3>3, Sizes DEF NextHead, CallNearer
    <2>2. CASE MallocSplit \/ MallocWhole \/ MallocFail \/ FreeUnknown \/ FreeTwice \/ MergeDone
        BY <2>2 DEF MallocSplit, MallocWhole, MallocFail, FreeUnknown, FreeTwice, MergeDone,
                    HandOut, Return, CallNearer
    <2>3. CASE FreeFound
        BY <2>3 DEF FreeFound, CallNearer
    <2> QED
        BY <2>1, <2>2, <2>3 DEF Next, Step, CallMalloc, CallFree, FreeNull
<1> QED
    BY <1>1, Inductive, PTL DEF Spec
=============================================================================
