--------------------------- MODULE MemgrindProofs ---------------------------
(***************************************************************************)
(* Proofs about the workloads of memgrind.c: that every assert holds and,  *)
(* in an arena that is large enough, that no malloc fails and no free is   *)
(* refused, for every number of calls and every coin.                      *)
(***************************************************************************)
EXTENDS Memgrind, MyMallocProofs, SequenceTheorems

(***************************************************************************)
(* The inductive invariant, beside the allocator's: what the array, the    *)
(* counter and the call in progress say of the blocks that are owned.      *)
(***************************************************************************)
\* The places of the array whose pointers have not been passed to free.
Live ==
    {k \in 1..Len(arr) :
        CASE work = "B" -> k > done
          [] work = "D" -> k <= CountD - done
          [] work = "E" -> k > done + 1 \/ (k = 1 /\ done <= Order)
          [] OTHER -> TRUE}
Held == {arr[k] : k \in Live} \ {NULL}

\* The block that is on its way to free, or from malloc to the array.
Pending ==
    IF pc = "search" THEN {arg}
    ELSE IF waiting /\ pc = "idle" THEN {ret} \ {NULL} ELSE {}

HeldInv ==
    /\ DOMAIN owned = Held \cup Pending /\ Held \cap Pending = {}
    /\ \A j, k \in Live : arr[j] = arr[k] /\ arr[j] # NULL => j = k

\* How far each workload is: A has one block at a time, C no more frees than mallocs, the
\* others fill the array before they free.
Called == IF waiting THEN 1 ELSE 0
Filled(n) ==
    /\ Len(arr) + Called <= n /\ done <= n
    /\ done > 0 => Len(arr) = n /\ ~waiting
Progress ==
    /\ work \in Works /\ waiting \in BOOLEAN /\ done \in Nat
    /\ arr \in Seq({NULL} \cup META..SIZE)
    /\ work = "A" => /\ Len(arr) + Called <= 1 /\ done <= CountA
                     /\ Len(arr) + Called = 1 => done < CountA
    /\ work = "B" => Filled(CountB)
    /\ work = "C" => /\ Len(arr) + Called <= done
                     /\ \E m \in 0..CountC : done + Len(arr) + Called = 2 * m
    /\ work = "D" => Filled(CountD)
    /\ work = "E" => Filled(Order + 1)

CallInv ==
    /\ waiting => pc \in {"idle", "malloc"}
    /\ pc = "malloc" => waiting /\ ret = NULL
    /\ ~isMemoryInitialized =>
          work = "A" /\ arr = <<>> /\ done = 0 /\ ~waiting /\ pc = "idle"

ClientInv == IInv /\ Progress /\ CallInv /\ HeldInv

-----------------------------------------------------------------------------
LEMMA Counts ==
    /\ CountA \in Nat /\ CountA > 0
    /\ CountB \in Nat /\ CountC \in Nat /\ CountD \in Nat /\ Order \in Nat
BY MemgrindAssumption

LEMMA ArrayTypes ==
    ASSUME ClientInv
    PROVE  /\ work \in Works /\ waiting \in BOOLEAN /\ done \in Nat
           /\ arr \in Seq({NULL} \cup META..SIZE)
           /\ Len(arr) \in Nat /\ Called \in {0, 1}
           /\ \A k \in 1..Len(arr) : arr[k] \in {NULL} \cup META..SIZE
           /\ Live \subseteq 1..Len(arr)
BY DEF ClientInv, Progress, Called, Live

LEMMA InitClient == MemgrindInit => ClientInv
<1> SUFFICES ASSUME MemgrindInit PROVE ClientInv
    OBVIOUS
<1>1. IInv
    BY InitIInv DEF MemgrindInit
<1>2. /\ work = "A" /\ arr = <<>> /\ waiting = FALSE /\ done = 0
      /\ pc = "idle" /\ owned = [p \in {} |-> 0] /\ Len(arr) = 0
    BY DEF MemgrindInit, Init
<1>3. Progress
    <2>1. Called = 0 /\ arr \in Seq({NULL} \cup META..SIZE) /\ work \in Works
        BY <1>2 DEF Called, Works
    <2>2. done + Len(arr) + Called = 2 * 0 /\ 0 \in 0..CountC
        BY <1>2, <2>1, Counts
    <2>3. Len(arr) + Called = 0
        BY <1>2, <2>1
    <2>4. \E m \in 0..CountC : done + Len(arr) + Called = 2 * m
        BY <2>2
    <2>5. done \in Nat /\ done <= CountA /\ done < CountA
        BY <1>2, Counts
    <2>6. waiting \in BOOLEAN
        BY <1>2, Zenon
    <2> QED
        BY <1>2, <2>1, <2>3, <2>4, <2>5, <2>6 DEF Progress
<1>4. Live = {} /\ Held = {} /\ Pending = {}
    BY <1>2 DEF Live, Held, Pending
<1> QED
    BY <1>1, <1>2, <1>3, <1>4 DEF ClientInv, CallInv, HeldInv

\* A malloc is called: nothing that is held changes.
LEMMA MallocCalled ==
    ASSUME ClientInv, NEW n \in Nat, Malloc(n), UNCHANGED <<work, arr>>,
           work = "C" \/ done' = done, Progress'
    PROVE  ClientInv'
<1>1. /\ pc = "idle" /\ pc' = "malloc" /\ ret' = NULL /\ owned' = owned
      /\ ~waiting /\ waiting' /\ isMemoryInitialized' /\ CallMalloc(n)
    BY DEF Malloc, CallMalloc
<1>2. IInv'
    BY <1>1, CallMallocIInv DEF ClientInv
<1>3. Live' = Live
    BY DEF Live
<1>4. Held' = Held /\ Pending' = Pending
    BY <1>1, <1>3 DEF Held, Pending
<1>5. HeldInv'
    BY <1>1, <1>3, <1>4 DEF HeldInv, ClientInv
<1> QED
    BY <1>1, <1>2, <1>5 DEF ClientInv, CallInv

\* A free is called: one block is on its way, and all others are held as before.
LEMMA FreeCalled ==
    ASSUME ClientInv, NEW k \in Live, Free(arr[k]),
           Live' = Live \ {k}, \A j \in Live' : arr'[j] = arr[j], Progress'
    PROVE  ClientInv'
<1> DEFINE p == arr[k]
<1>1. /\ ~waiting /\ waiting' = waiting /\ work' = work /\ pc = "idle"
      /\ IF p = NULL THEN FreeNull ELSE CallFree(p)
    BY Zenon DEF Free, FreeNull, CallFree
<1>2. k \in 1..Len(arr) /\ p \in {NULL} \cup META..SIZE /\ p \in Int
    BY ArrayTypes, Sizes DEF NULL
<1>3. /\ DOMAIN owned = Held /\ Pending = {}
      /\ \A j, l \in Live : arr[j] = arr[l] /\ arr[j] # NULL => j = l
    BY <1>1 DEF ClientInv, HeldInv, Pending
<1>4. isMemoryInitialized /\ arr # <<>>
    BY <1>2 DEF ClientInv, CallInv
<1>5. \A j, l \in Live' : arr'[j] = arr'[l] /\ arr'[j] # NULL => j = l
    BY <1>3
<1>6. CASE p = NULL
    <2>1. FreeNull
        BY <1>1, <1>6
    <2>2. IInv'
        BY <2>1, FreeNullIInv DEF ClientInv
    <2>3. /\ pc' = "idle" /\ owned' = owned /\ isMemoryInitialized'
        BY <1>1, <1>4, <2>1 DEF FreeNull, locals
    <2>4. Held' = Held
        BY <1>6 DEF Held
    <2>5. Pending' = {}
        BY <1>1, <2>3 DEF Pending
    <2>6. HeldInv'
        BY <1>3, <1>5, <2>3, <2>4, <2>5 DEF HeldInv
    <2> QED
        BY <1>1, <2>2, <2>3, <2>6 DEF ClientInv, CallInv
<1>7. CASE p # NULL
    <2>1. CallFree(p)
        BY <1>1, <1>7
    <2>2. IInv'
        BY <1>2, <2>1, CallFreeIInv DEF ClientInv
    <2>3. pc' = "search" /\ arg' = p /\ owned' = owned /\ isMemoryInitialized'
        BY <1>4, <2>1 DEF CallFree
    <2>4. Held' = Held \ {p} /\ p \in Held
        BY <1>3, <1>7 DEF Held
    <2>5. Pending' = {p}
        BY <2>3 DEF Pending
    <2>6. HeldInv'
        BY <1>3, <1>5, <2>3, <2>4, <2>5 DEF HeldInv
    <2> QED
        BY <1>1, <2>2, <2>3, <2>6 DEF ClientInv, CallInv
<1> QED
    BY <1>6, <1>7

\* Nothing is called and the heap stays as it is.
LEMMA HeapKept == IInv /\ UNCHANGED vars => IInv'
BY NextIInv

\* The pointer that malloc returned is held from here on.
LEMMA StoreStep == ClientInv /\ Store => ClientInv'
<1> SUFFICES ASSUME ClientInv, Store PROVE ClientInv'
    OBVIOUS
<1> DEFINE n == Len(arr)
<1>1. /\ waiting /\ pc = "idle" /\ ~waiting' /\ arr' = Append(arr, ret)
      /\ UNCHANGED <<vars, work, done>>
    BY DEF Store
<1>2. IInv' /\ pc' = "idle" /\ owned' = owned /\ ret' = ret /\ isMemoryInitialized
      /\ isMemoryInitialized'
    BY <1>1, HeapKept DEF ClientInv, CallInv, vars, locals
<1>3. ret \in {NULL} \cup META..SIZE
    <2>1. ret # NULL => ret \in DOMAIN owned
        BY <1>1 DEF ClientInv, HeldInv, Pending
    <2> QED
        BY <2>1 DEF ClientInv, IInv, TypeOK
<1>4. /\ arr' \in Seq({NULL} \cup META..SIZE) /\ Len(arr') = n + 1 /\ n \in Nat
      /\ \A k \in 1..n : arr'[k] = arr[k]
      /\ arr'[n + 1] = ret
    BY <1>1, <1>3, ArrayTypes
<1>5. Called = 1 /\ Called' = 0
    BY <1>1 DEF Called
<1>6. Progress'
    <2> HIDE DEF n
    <2>1. work' = work /\ done' = done /\ waiting' \in BOOLEAN
        BY <1>1, ArrayTypes DEF Store
    <2>2. Len(arr') + Called' = Len(arr) + Called
        BY <1>4, <1>5, ArrayTypes DEF n
    <2>3. \A m : Filled(m) => Filled(m)'
        BY <1>1, <2>1, <2>2 DEF Filled
    <2>4. /\ work = "A" => Len(arr) + Called <= 1 /\ done <= CountA
                           /\ (Len(arr) + Called = 1 => done < CountA)
          /\ work = "C" => Len(arr) + Called <= done
          /\ work = "B" => Filled(CountB)
          /\ work = "D" => Filled(CountD)
          /\ work = "E" => Filled(Order + 1)
        BY DEF ClientInv, Progress
    <2>5. (work = "C" => \E m \in 0..CountC : done + Len(arr) + Called = 2 * m)'
        <3>1. ASSUME work = "C"
              PROVE  \E m \in 0..CountC : done + Len(arr) + Called = 2 * m
            BY <3>1 DEF ClientInv, Progress
        <3>2. done + Len(arr) + Called = done' + Len(arr') + Called'
            BY <1>4, <1>5, <2>1, ArrayTypes DEF n
        <3> QED
            BY <2>1, <3>1, <3>2
    <2> QED
        BY <1>4, <2>1, <2>2, <2>3, <2>4, <2>5, ArrayTypes DEF Progress
<1>7. Live' = Live \cup {n + 1}
    <2>1. work \in {"B", "D", "E"} => done = 0
        BY <1>1, ArrayTypes DEF ClientInv, Progress, Filled
    <2>2. work = "D" => n + 1 <= CountD
        BY <1>5 DEF ClientInv, Progress, Filled
    <2> QED
        BY <1>1, <1>4, <2>1, <2>2, Counts DEF Live
<1>8. Held' = Held \cup ({ret} \ {NULL})
    BY <1>4, <1>7, ArrayTypes DEF Held
<1>9. Pending = {ret} \ {NULL} /\ Pending' = {}
    BY <1>1, <1>2 DEF Pending
<1>10. HeldInv'
    <2>1. \A j, k \in Live' : arr'[j] = arr'[k] /\ arr'[j] # NULL => j = k
        <3> SUFFICES ASSUME NEW j \in Live', NEW k \in Live', arr'[j] = arr'[k],
                            arr'[j] # NULL
                     PROVE  j = k
            OBVIOUS
        <3>1. \A l \in Live : l \in 1..n /\ arr'[l] = arr[l]
            BY <1>4, ArrayTypes
        <3>2. \A l \in Live : arr'[l] # NULL => arr'[l] # ret
            BY <1>9, <3>1 DEF ClientInv, HeldInv, Held
        <3> QED
            BY <1>4, <1>7, <3>1, <3>2 DEF ClientInv, HeldInv
    <2> QED
        BY <1>2, <1>8, <1>9, <2>1 DEF ClientInv, HeldInv
<1> QED
    BY <1>1, <1>2, <1>6, <1>10 DEF ClientInv, CallInv

\* At its assert a workload has given everything back.
LEMMA Released == ClientInv /\ AtAssert => DOMAIN owned = {} /\ isMemoryInitialized
<1> SUFFICES ASSUME ClientInv, AtAssert
             PROVE  DOMAIN owned = {} /\ isMemoryInitialized
    OBVIOUS
<1>1. pc = "idle" /\ ~waiting /\ done = Iterations /\ Called = 0
    BY DEF AtAssert, Called
<1>2. Live = {}
    <2>1. CASE work = "A"
        <3>1. /\ Len(arr) + Called <= 1 /\ done = CountA
              /\ Len(arr) + Called = 1 => done < CountA
            BY <1>1, <2>1 DEF ClientInv, Progress, Iterations
        <3>2. Len(arr) \in Nat
            BY ArrayTypes
        <3>3. Len(arr) = 0
            BY <1>1, <3>1, <3>2, Counts
        <3> QED
            BY <3>3, ArrayTypes
    <2>2. CASE work = "B"
        <3>1. done = CountB /\ Len(arr) <= CountB
            BY <1>1, <2>2, ArrayTypes DEF ClientInv, Progress, Filled, Iterations
        <3> QED
            BY <2>2, <3>1, ArrayTypes, Counts DEF Live
    <2>3. CASE work = "C"
        <3>1. done = 2 * CountC
            BY <1>1, <2>3 DEF Iterations
        <3>2. Len(arr) = 0
            BY <1>1, <2>3, <3>1, ArrayTypes, Counts DEF ClientInv, Progress
        <3> QED
            BY <3>2, ArrayTypes
    <2>4. CASE work = "D"
        <3>1. done = CountD
            BY <1>1, <2>4 DEF Iterations
        <3> QED
            BY <2>4, <3>1, ArrayTypes, Counts DEF Live
    <2>5. CASE work = "E"
        <3>1. done = Order + 1 /\ Len(arr) <= Order + 1
            BY <1>1, <2>5, ArrayTypes DEF ClientInv, Progress, Filled, Iterations
        <3> QED
            BY <2>5, <3>1, ArrayTypes, Counts DEF Live
    <2> QED
        BY <2>1, <2>2, <2>3, <2>4, <2>5, ArrayTypes DEF Works
<1>3. Held = {} /\ Pending = {}
    BY <1>1, <1>2 DEF Held, Pending
<1>4. done > 0 \/ work # "A"
    BY <1>1, Counts DEF Iterations
<1> QED
    BY <1>3, <1>4, ArrayTypes DEF ClientInv, HeldInv, CallInv

-----------------------------------------------------------------------------
\* main goes on to the next workload, which starts with an empty array.
LEMMA MainStep == ClientInv /\ main => ClientInv'
<1> SUFFICES ASSUME ClientInv, main PROVE ClientInv'
    OBVIOUS
<1>1. /\ AtAssert /\ pc = "idle" /\ ~waiting /\ waiting' = waiting
      /\ work' = NextWork[work] /\ arr' = <<>> /\ done' = 0 /\ UNCHANGED vars
    BY DEF main, AtAssert
<1>2. IInv' /\ pc' = "idle" /\ owned' = owned /\ isMemoryInitialized' = isMemoryInitialized
    BY <1>1, HeapKept DEF ClientInv, vars, locals
<1>3. DOMAIN owned = {} /\ isMemoryInitialized
    BY <1>1, Released
<1>4. work' \in Works /\ Len(arr') = 0 /\ Called' = 0
    BY <1>1, ArrayTypes DEF NextWork, Works, Called
<1>5. Progress'
    <2>1. arr' \in Seq({NULL} \cup META..SIZE) /\ waiting' = FALSE
        BY <1>1, ArrayTypes
    <2>2. done' + Len(arr') + Called' = 2 * 0 /\ 0 \in 0..CountC
        BY <1>1, <1>4, Counts
    <2>3. Len(arr') + Called' = 0
        BY <1>4
    <2>4. Filled(CountB)' /\ Filled(CountD)' /\ Filled(Order + 1)'
        BY <1>1, <2>3, Counts DEF Filled
    <2>5. \E m \in 0..CountC : done' + Len(arr') + Called' = 2 * m
        BY <2>2
    <2>6. done' \in Nat /\ done' <= CountA /\ done' < CountA
        BY <1>1, Counts
    <2>7. waiting' \in BOOLEAN
        BY <2>1, Zenon
    <2> QED
        BY <1>1, <1>4, <2>1, <2>3, <2>4, <2>5, <2>6, <2>7 DEF Progress
<1>6. Live' = {} /\ Held' = {} /\ Pending' = {}
    BY <1>1, <1>2, <1>4 DEF Live, Held, Pending
<1> QED
    BY <1>1, <1>2, <1>3, <1>5, <1>6 DEF ClientInv, CallInv, HeldInv

\* What the client relies on of a step of mymalloc or myfree: a block that malloc hands
\* out was free, and the pointer that is passed to free is taken.
LEMMA StepOwned ==
    ASSUME ClientInv, Step
    PROVE  /\ isMemoryInitialized' = isMemoryInitialized
           /\ \/ /\ pc = "malloc" /\ pc' = "malloc" /\ UNCHANGED <<arg, ret, owned, isError>>
              \/ /\ pc = "malloc" /\ pc' = "idle" /\ UNCHANGED <<ret, owned, isError>>
              \/ /\ pc = "malloc" /\ pc' = "idle" /\ ret' # NULL /\ isError' = isError
                 /\ DOMAIN owned' = DOMAIN owned \cup {ret'} /\ ret' \notin DOMAIN owned
              \/ /\ pc = "search" /\ pc' = "search" /\ UNCHANGED <<arg, ret, owned, isError>>
              \/ /\ pc = "search" /\ pc' = "merge" /\ UNCHANGED <<ret, isError>>
                 /\ DOMAIN owned' = DOMAIN owned \ {arg}
              \/ /\ pc = "merge" /\ pc' \in {"merge", "idle"}
                 /\ UNCHANGED <<ret, owned, isError>>
<1>0. IInv /\ (pc = "search" => arg \in DOMAIN owned)
    BY DEF ClientInv, HeldInv, Pending
<1>1. CASE MallocNext
    BY <1>1 DEF MallocNext
<1>2. CASE MallocSplit \/ MallocWhole
    <2>1. /\ pc = "malloc" /\ pc' = "idle" /\ ret' = i + META /\ isError' = isError
          /\ DOMAIN owned' = DOMAIN owned \cup {ret'}
          /\ isMemoryInitialized' = isMemoryInitialized /\ i < SIZE /\ meta[i].isFree
        BY <1>2 DEF MallocSplit, MallocWhole, HandOut, Return, Fits
    <2>2. TypeOK /\ HeapTiled /\ i \in Heads /\ i \in Nat /\ isMemoryInitialized
        BY <1>0, <2>1, Sizes DEF IInv, MallocInv, TypeOK
    <2>3. ret' # NULL /\ ret' - META = i
        BY <2>1, <2>2, Sizes DEF NULL
    <2>4. ret' \notin DOMAIN owned
        BY <1>0, <2>1, <2>2, <2>3 DEF IInv, OwnedIsAllocated
    <2> QED
        BY <2>1, <2>3, <2>4
<1>3. CASE MallocFail
    BY <1>3 DEF MallocFail, Return
<1>4. CASE SearchNext
    BY <1>4 DEF SearchNext
<1>5. CASE FreeUnknown \/ FreeTwice
    <2>1. pc = "search" /\ pc' # "search" /\ isError'
        BY <1>5 DEF FreeUnknown, FreeTwice, Return
    <2> QED
        BY <1>0, <2>1, RefusalStep DEF AnyNext
<1>6. CASE FreeFound
    <2>1. DOMAIN owned' = DOMAIN owned \ {arg}
        BY <1>6 DEF FreeFound
    <2> QED
        BY <1>6, <2>1 DEF FreeFound
<1>7. CASE MergeNext \/ MergeDone
    BY <1>7 DEF MergeNext, MergeDone, Return
<1> QED
    BY <1>1, <1>2, <1>3, <1>4, <1>5, <1>6, <1>7 DEF Step

\* A step of mymalloc or myfree.
LEMMA HeapStep == ClientInv /\ Step /\ UNCHANGED client => ClientInv'
<1> SUFFICES ASSUME ClientInv, Step, UNCHANGED client PROVE ClientInv'
    OBVIOUS
<1>1. IInv'
    BY NextIInv DEF ClientInv, AnyNext
<1>2. UNCHANGED <<work, arr, waiting, done>>
    BY DEF client
<1>3. Progress'
    BY <1>2 DEF ClientInv, Progress, Filled, Called
<1>4. Live' = Live /\ Held' = Held
    BY <1>2 DEF Live, Held
<1>5. /\ DOMAIN owned = Held \cup Pending /\ Held \cap Pending = {}
      /\ \A j, k \in Live : arr[j] = arr[k] /\ arr[j] # NULL => j = k
      /\ waiting => pc \in {"idle", "malloc"}
      /\ pc = "malloc" => waiting /\ ret = NULL
      /\ isMemoryInitialized \/ pc = "idle"
    BY DEF ClientInv, HeldInv, CallInv
<1>6. /\ DOMAIN owned' = Held' \cup Pending' /\ Held' \cap Pending' = {}
      /\ CallInv'
    <2>1. CASE pc = "malloc" /\ pc' = "malloc" /\ UNCHANGED <<arg, ret, owned>>
        <3>1. Pending' = {} /\ Pending = {}
            BY <2>1 DEF Pending
        <3> QED
            BY <1>2, <1>4, <1>5, <2>1, <3>1, StepOwned DEF CallInv
    <2>2. CASE pc = "malloc" /\ pc' = "idle" /\ UNCHANGED <<ret, owned>>
        <3>1. Pending' = {} /\ Pending = {}
            BY <1>2, <1>5, <2>2 DEF Pending
        <3> QED
            BY <1>2, <1>4, <1>5, <2>2, <3>1, StepOwned DEF CallInv
    <2>3. CASE /\ pc = "malloc" /\ pc' = "idle" /\ ret' # NULL
               /\ DOMAIN owned' = DOMAIN owned \cup {ret'} /\ ret' \notin DOMAIN owned
        <3>1. Pending' = {ret'} /\ Pending = {}
            BY <1>2, <1>5, <2>3 DEF Pending
        <3> QED
            BY <1>2, <1>4, <1>5, <2>3, <3>1, StepOwned DEF CallInv
    <2>4. CASE pc = "search" /\ pc' = "search" /\ UNCHANGED <<arg, ret, owned>>
        <3>1. Pending' = {arg} /\ Pending = {arg}
            BY <2>4 DEF Pending
        <3> QED
            BY <1>2, <1>4, <1>5, <2>4, <3>1, StepOwned DEF CallInv
    <2>5. CASE /\ pc = "search" /\ pc' = "merge"
               /\ DOMAIN owned' = DOMAIN owned \ {arg}
        <3>1. Pending' = {} /\ Pending = {arg}
            BY <2>5 DEF Pending
        <3> QED
            BY <1>2, <1>4, <1>5, <2>5, <3>1, StepOwned DEF CallInv
    <2>6. CASE pc = "merge" /\ pc' \in {"merge", "idle"} /\ UNCHANGED <<ret, owned>>
        <3>1. Pending' = {} /\ Pending = {}
            BY <1>2, <1>5, <2>6 DEF Pending
        <3> QED
            BY <1>2, <1>4, <1>5, <2>6, <3>1, StepOwned DEF CallInv
    <2> QED
        BY <2>1, <2>2, <2>3, <2>4, <2>5, <2>6, StepOwned
<1> QED
    BY <1>1, <1>2, <1>3, <1>4, <1>5, <1>6 DEF ClientInv, HeldInv

-----------------------------------------------------------------------------
\* What Progress says of the next state when a malloc or a free has been called.
LEMMA ProgressTypes ==
    ASSUME ClientInv, work' = work,
           arr' \in Seq({NULL} \cup META..SIZE), waiting' \in BOOLEAN, done' \in Nat,
           CASE work = "A" -> /\ Len(arr') + Called' <= 1 /\ done' <= CountA
                              /\ Len(arr') + Called' = 1 => done' < CountA
             [] work = "B" -> Filled(CountB)'
             [] work = "C" -> /\ Len(arr') + Called' <= done'
                              /\ \E m \in 0..CountC : done' + Len(arr') + Called' = 2 * m
             [] work = "D" -> Filled(CountD)'
             [] OTHER -> Filled(Order + 1)'
    PROVE  Progress'
<1>1. work' \in Works
    BY ArrayTypes
<1> QED
    BY <1>1 DEF Progress, Works

\* What a call does to the variables of the client.
LEMMA MallocIs ==
    ASSUME NEW n, Malloc(n)
    PROVE  pc = "idle" /\ ~waiting /\ waiting' = TRUE /\ Called = 0 /\ Called' = 1
BY DEF Malloc, CallMalloc, Called

LEMMA FreeIs ==
    ASSUME NEW p, Free(p)
    PROVE  /\ pc = "idle" /\ ~waiting /\ waiting' = waiting /\ work' = work
           /\ done' = done + 1 /\ Called = 0 /\ Called' = 0
<1>1. pc = "idle"
    BY Zenon DEF Free, FreeNull, CallFree
<1> QED
    BY <1>1 DEF Free, Called

LEMMA CaseAStep == ClientInv /\ caseA => ClientInv'
<1> SUFFICES ASSUME ClientInv, caseA PROVE ClientInv'
    OBVIOUS
<1>1. /\ work = "A" /\ done \in Nat /\ Len(arr) \in Nat
      /\ Len(arr) + Called <= 1 /\ (Len(arr) + Called = 1 => done < CountA)
    BY ArrayTypes DEF caseA, ClientInv, Progress
<1>2. CASE done < CountA /\ arr = <<>> /\ Malloc(1) /\ UNCHANGED <<work, arr, done>>
    <2>1. Called' = 1 /\ waiting' \in BOOLEAN /\ Len(arr') = 0
        BY <1>2, MallocIs
    <2>2. Progress'
        BY <1>1, <1>2, <2>1, ArrayTypes, ProgressTypes, Counts
    <2> QED
        BY <1>2, <2>2, MallocCalled
<1>3. CASE arr # <<>> /\ Free(arr[1]) /\ arr' = <<>>
    <2>1. /\ work' = work /\ done' = done + 1 /\ Called' = 0 /\ Called = 0
          /\ waiting' \in BOOLEAN
        BY <1>3, FreeIs, ArrayTypes
    <2>2. Len(arr) = 1 /\ done < CountA
        <3>1. Len(arr) # 0
            BY <1>3, ArrayTypes
        <3>2. Called = 0
            BY <2>1
        <3>3. \A n \in Nat : n + 0 <= 1 /\ n # 0 => n = 1 /\ n + 0 = 1
            OBVIOUS
        <3>4. Len(arr) + 0 <= 1 /\ (Len(arr) + 0 = 1 => done < CountA)
            BY <1>1, <3>2
        <3> QED
            BY <1>1, <3>1, <3>3, <3>4
    <2>3. Len(arr') = 0 /\ arr' \in Seq({NULL} \cup META..SIZE)
        BY <1>3
    <2>4. Progress'
        BY <1>1, <2>1, <2>2, <2>3, ProgressTypes, Counts
    <2>5. Live = {1} /\ Live' = {}
        BY <1>1, <2>1, <2>2, <2>3 DEF Live
    <2> QED
        BY <1>3, <2>4, <2>5, FreeCalled
<1> QED
    BY <1>2, <1>3 DEF caseA

\* A malloc of B, D or E: the array is not full.
LEMMA FillStep ==
    ASSUME ClientInv, work \in {"B", "D", "E"}, NEW n \in Nat, Malloc(n),
           UNCHANGED <<work, arr, done>>, Len(arr) < Depth(work)
    PROVE  ClientInv'
<1>1. /\ Called' = 1 /\ waiting' = TRUE /\ ~waiting /\ done \in Nat
      /\ Len(arr) \in Nat /\ Depth(work) \in Nat
    <2>1. Called' = 1 /\ waiting' = TRUE /\ ~waiting
        BY MallocIs
    <2>2. done \in Nat /\ Len(arr) \in Nat
        BY ArrayTypes
    <2>3. Depth(work) \in Nat
        BY Counts DEF Depth
    <2> QED
        BY <2>1, <2>2, <2>3
<1>2. Filled(Depth(work))
    BY DEF ClientInv, Progress, Depth
<1>3. Filled(Depth(work))'
    BY <1>1, <1>2 DEF Filled, Depth
<1>4. Progress'
    <2>1. arr' \in Seq({NULL} \cup META..SIZE) /\ done' \in Nat
        BY ArrayTypes
    <2>2. waiting' \in BOOLEAN
        BY <1>1, Zenon
    <2> QED
        BY <1>3, <2>1, <2>2, ProgressTypes DEF Depth
<1> QED
    BY <1>4, MallocCalled

\* A free of B, D or E: the array is full, and one more place of it is given back.
LEMMA DrainStep ==
    ASSUME ClientInv, work \in {"B", "D", "E"}, NEW k \in Live, Free(arr[k]),
           UNCHANGED arr, Len(arr) = Depth(work), done < Depth(work), Live' = Live \ {k}
    PROVE  ClientInv'
<1>1. /\ Called' = 0 /\ waiting' = waiting /\ ~waiting /\ done' = done + 1 /\ done \in Nat
      /\ work' = work /\ Len(arr) \in Nat /\ Depth(work) \in Nat
    BY FreeIs, ArrayTypes, Counts DEF Depth
<1>2. Filled(Depth(work))'
    BY <1>1 DEF Filled, Depth
<1>3. Progress'
    <2>1. arr' \in Seq({NULL} \cup META..SIZE) /\ done' \in Nat /\ waiting' \in BOOLEAN
        BY <1>1, ArrayTypes
    <2> QED
        BY <1>1, <1>2, <2>1, ProgressTypes DEF Depth
<1> QED
    BY <1>3, FreeCalled

LEMMA CaseBStep == ClientInv /\ caseB => ClientInv'
<1> SUFFICES ASSUME ClientInv, caseB PROVE ClientInv'
    OBVIOUS
<1>1. work = "B" /\ Depth(work) = CountB /\ done \in Nat
    BY ArrayTypes DEF caseB, Depth
<1>2. CASE Len(arr) < CountB /\ Malloc(1) /\ UNCHANGED <<work, arr, done>>
    BY <1>1, <1>2, FillStep
<1>3. CASE /\ Len(arr) = CountB /\ done < CountB
           /\ Free(arr[done + 1]) /\ UNCHANGED arr
    <2>1. done' = done + 1 /\ work' = work
        BY <1>3, FreeIs
    <2>2. done + 1 \in Live
        BY <1>1, <1>3, Counts DEF Live
    <2>3. Live' = Live \ {done + 1}
        BY <1>1, <1>3, <2>1, Counts DEF Live
    <2> QED
        BY <1>1, <1>3, <2>2, <2>3, DrainStep
<1> QED
    BY <1>2, <1>3 DEF caseB

LEMMA CaseDStep == ClientInv /\ caseD => ClientInv'
<1> SUFFICES ASSUME ClientInv, caseD PROVE ClientInv'
    OBVIOUS
<1>1. work = "D" /\ Depth(work) = CountD /\ done \in Nat
    BY ArrayTypes DEF caseD, Depth
<1>2. CASE Len(arr) < CountD /\ Malloc(1) /\ UNCHANGED <<work, arr, done>>
    BY <1>1, <1>2, FillStep
<1>3. CASE /\ Len(arr) = CountD /\ done < CountD
           /\ Free(arr[CountD - done]) /\ UNCHANGED arr
    <2>1. done' = done + 1 /\ work' = work
        BY <1>3, FreeIs
    <2>2. CountD - done \in Live
        BY <1>1, <1>3, Counts DEF Live
    <2>3. Live' = Live \ {CountD - done}
        BY <1>1, <1>3, <2>1, Counts DEF Live
    <2> QED
        BY <1>1, <1>3, <2>2, <2>3, DrainStep
<1> QED
    BY <1>2, <1>3 DEF caseD

LEMMA CaseEStep == ClientInv /\ caseE => ClientInv'
<1> SUFFICES ASSUME ClientInv, caseE PROVE ClientInv'
    OBVIOUS
<1>1. work = "E" /\ Depth(work) = Order + 1 /\ done \in Nat /\ Len(arr) \in Nat
    BY ArrayTypes DEF caseE, Depth
<1>2. CASE arr = <<>> /\ Malloc(PTR * Order) /\ UNCHANGED <<work, arr, done>>
    BY <1>1, <1>2, FillStep, Counts DEF PTR
<1>3. CASE /\ Len(arr) \in 1..Order /\ Malloc(INT * Order)
           /\ UNCHANGED <<work, arr, done>>
    BY <1>1, <1>3, FillStep, Counts DEF INT
<1>4. CASE /\ Len(arr) = Order + 1 /\ done < Order
           /\ Free(arr[done + 2]) /\ UNCHANGED arr
    <2>1. done' = done + 1 /\ work' = work
        BY <1>4, FreeIs
    <2>2. done + 2 \in Live
        BY <1>1, <1>4, Counts DEF Live
    <2>3. Live' = Live \ {done + 2}
        BY <1>1, <1>4, <2>1, Counts DEF Live
    <2> QED
        BY <1>1, <1>4, <2>2, <2>3, DrainStep, Counts
<1>5. CASE Len(arr) = Order + 1 /\ done = Order /\ Free(arr[1]) /\ UNCHANGED arr
    <2>1. done' = done + 1 /\ work' = work
        BY <1>5, FreeIs
    <2>2. 1 \in Live
        BY <1>1, <1>5, Counts DEF Live
    <2>3. Live' = Live \ {1}
        BY <1>1, <1>5, <2>1, Counts DEF Live
    <2> QED
        BY <1>1, <1>5, <2>2, <2>3, DrainStep, Counts
<1> QED
    BY <1>2, <1>3, <1>4, <1>5 DEF caseE

\* The array without its last pointer.
LEMMA FrontIs ==
    ASSUME NEW S, NEW s \in Seq(S), s # <<>>
    PROVE  /\ Len(s) \in Nat /\ Len(s) > 0 /\ Last(s) = s[Len(s)]
           /\ Front(s) \in Seq(S) /\ Len(Front(s)) = Len(s) - 1
           /\ \A k \in 1..Len(s) - 1 : Front(s)[k] = s[k]
<1> DEFINE n == Len(s)
<1>1. n \in Nat /\ n > 0 /\ Last(s) = s[n] /\ Front(s) = SubSeq(s, 1, n - 1)
    BY DEF Last, Front
<1>2. \A k \in 1..(n - 1) : s[k] \in S
    BY <1>1
<1>3. /\ Front(s) \in Seq(S)
      /\ Len(Front(s)) = IF 1 <= n - 1 THEN n - 1 - 1 + 1 ELSE 0
      /\ \A k \in 1..(n - 1 - 1 + 1) : Front(s)[k] = s[1 + k - 1]
    BY <1>1, <1>2, SubSeqProperties
<1>4. n - 1 - 1 + 1 = n - 1 /\ (~(1 <= n - 1) => n - 1 = 0)
    <2>1. \A m \in Nat : m - 1 - 1 + 1 = m - 1 /\ (m > 0 /\ ~(1 <= m - 1) => m - 1 = 0)
        OBVIOUS
    <2> QED
        BY <1>1, <2>1
<1>5. \A k \in 1..(n - 1) : 1 + k - 1 = k
    BY <1>1
<1> QED
    BY <1>1, <1>3, <1>4, <1>5

LEMMA CaseCStep == ClientInv /\ caseC => ClientInv'
<1> SUFFICES ASSUME ClientInv, caseC PROVE ClientInv'
    OBVIOUS
<1>1. /\ work = "C" /\ done \in Nat /\ Len(arr) \in Nat /\ Len(arr) + Called <= done
      /\ \E m \in 0..CountC : done + Len(arr) + Called = 2 * m
    BY ArrayTypes DEF caseC, ClientInv, Progress
<1>2. PICK m \in 0..CountC : done + Len(arr) + Called = 2 * m
    BY <1>1
<1>3. CASE /\ MallocsOfC < CountC /\ Malloc(1) /\ done' = done + 1
           /\ UNCHANGED <<work, arr>>
    <2>1. Called = 0 /\ Called' = 1 /\ waiting' \in BOOLEAN
        BY <1>3, MallocIs
    <2>2. m < CountC
        <3>1. done + Len(arr) = 2 * m /\ (2 * m) \div 2 = m
            BY <1>1, <1>2, <2>1, Counts
        <3> QED
            BY <1>3, <3>1 DEF MallocsOfC
    <2>3. done' + Len(arr') + Called' = 2 * (m + 1) /\ m + 1 \in 0..CountC
        BY <1>1, <1>2, <1>3, <2>1, <2>2, Counts
    <2>4. Len(arr') + Called' <= done' /\ done' \in Nat
        BY <1>1, <1>3, <2>1
    <2>5. Progress'
        BY <1>1, <1>3, <2>1, <2>3, <2>4, ArrayTypes, ProgressTypes
    <2> QED
        BY <1>1, <1>3, <2>5, MallocCalled
<1>4. CASE arr # <<>> /\ Free(Last(arr)) /\ arr' = Front(arr)
    <2> DEFINE n == Len(arr)
    <2>1. /\ work' = work /\ done' = done + 1 /\ Called = 0 /\ Called' = 0
          /\ waiting' \in BOOLEAN
        BY <1>4, FreeIs, ArrayTypes
    <2>2. n > 0 /\ Last(arr) = arr[n]
        BY <1>4, ArrayTypes, FrontIs
    <2>3. /\ arr' \in Seq({NULL} \cup META..SIZE) /\ Len(arr') = n - 1
          /\ \A k \in 1..n-1 : arr'[k] = arr[k]
        BY <1>4, ArrayTypes, FrontIs
    <2>4. Progress'
        <3>1. Len(arr') + Called' <= done' /\ done' \in Nat
            BY <1>1, <2>1, <2>3
        <3>2. done' + Len(arr') + Called' = 2 * m
            <4>1. \A a, b \in Nat : (a + 1) + (b - 1) + 0 = a + b + 0
                OBVIOUS
            <4>2. done + n + 0 = 2 * m
                BY <1>2, <2>1
            <4> QED
                BY <1>1, <2>1, <2>3, <4>1, <4>2
        <3> QED
            BY <1>1, <2>1, <2>3, <3>1, <3>2, ProgressTypes
    <2>5. Live = 1..n /\ Live' = 1..n-1
        BY <1>1, <2>1, <2>3 DEF Live
    <2>6. n \in Live /\ Live' = Live \ {n} /\ \A j \in Live' : arr'[j] = arr[j]
        BY <1>1, <2>2, <2>3, <2>5
    <2> QED
        BY <1>4, <2>2, <2>4, <2>6, FreeCalled
<1> QED
    BY <1>3, <1>4 DEF caseC

LEMMA ClientStep == ClientInv /\ [MemgrindNext]_allVars => ClientInv'
<1> SUFFICES ASSUME ClientInv, [MemgrindNext]_allVars PROVE ClientInv'
    OBVIOUS
<1>1. CASE UNCHANGED allVars
    <2>1. UNCHANGED <<work, arr, waiting, done>> /\ UNCHANGED vars
        BY <1>1 DEF allVars, client
    <2>2. IInv' /\ UNCHANGED <<pc, arg, ret, owned, isMemoryInitialized>>
        BY <2>1, HeapKept DEF ClientInv, vars, locals
    <2> QED
        BY <2>1, <2>2 DEF ClientInv, Progress, Filled, Called, CallInv, HeldInv, Held, Live,
                          Pending
<1> QED
    BY <1>1, CaseAStep, CaseBStep, CaseCStep, CaseDStep, CaseEStep, StoreStep, MainStep,
       HeapStep DEF MemgrindNext, Client

-----------------------------------------------------------------------------
(***************************************************************************)
(* The theorems that hold in any arena.                                    *)
(***************************************************************************)
\* The workloads know which blocks they own, at every step of every call.
THEOREM ClientInductive == MemgrindSpec => []ClientInv
BY InitClient, ClientStep, PTL DEF MemgrindSpec

\* The arrays hold pointers into the arena, and no workload does more than it should.
THEOREM ClientTypes == MemgrindSpec => []ClientTypeOK
<1>1. ClientInv => ClientTypeOK
    <2> SUFFICES ASSUME ClientInv PROVE ClientTypeOK
        OBVIOUS
    <2>1. done \in 0..Iterations
        <3>1. CASE work = "A"
            BY <3>1, ArrayTypes, Counts DEF Iterations, ClientInv, Progress
        <3>2. CASE work = "B"
            BY <3>2, ArrayTypes, Counts DEF Iterations, ClientInv, Progress, Filled
        <3>3. CASE work = "C"
            <4>1. PICK m \in 0..CountC : done + Len(arr) + Called = 2 * m
                BY <3>3 DEF ClientInv, Progress
            <4> QED
                BY <3>3, <4>1, ArrayTypes, Counts DEF Iterations
        <3>4. CASE work = "D"
            BY <3>4, ArrayTypes, Counts DEF Iterations, ClientInv, Progress, Filled
        <3>5. CASE work = "E"
            BY <3>5, ArrayTypes, Counts DEF Iterations, ClientInv, Progress, Filled
        <3> QED
            BY <3>1, <3>2, <3>3, <3>4, <3>5, ArrayTypes DEF Works
    <2> QED
        BY <2>1, ArrayTypes DEF ClientTypeOK
<1> QED
    BY <1>1, ClientInductive, PTL

\* Whatever the order of the releases and the coin, at its assert every workload leaves
\* one free block.
THEOREM AssertsHold == MemgrindSpec => []AssertHolds
<1>1. ClientInv => AssertHolds
    BY Released, EmptyIsClean DEF ClientInv, AssertHolds, AtAssert, CleanWhenEmpty
<1> QED
    BY <1>1, ClientInductive, PTL

-----------------------------------------------------------------------------
(***************************************************************************)
(* An arena that is large enough.  While a workload fills its array, or    *)
(* takes back the last pointer as C does, its blocks lie one behind the    *)
(* other from the start of the arena, and one free block follows them.     *)
(***************************************************************************)
Filling == work \in {"A", "C"} \/ done = 0

\* The block at pointer p is the workload's k-th, without padding unless it is the last
\* that there can be.
Placed(k, p) ==
    /\ p = Place(work, k) + META
    /\ k < Depth(work) => meta[Place(work, k)].len = Size(work, k)

StackInv ==
    /\ pc = "malloc" => arg = Size(work, Len(arr) + 1)
    /\ Filling => \A k \in 1..Len(arr) : Placed(k, arr[k])
    /\ waiting /\ pc = "idle" => Placed(Len(arr) + 1, ret)
NoNull == ~isError /\ \A k \in 1..Len(arr) : arr[k] # NULL

RoomInv == ClientInv /\ StackInv /\ NoNull

-----------------------------------------------------------------------------
\* Each block begins where the one before it ends.
LEMMA PlaceNext ==
    ASSUME NEW w \in Works, NEW k \in Nat \ {0}
    PROVE  /\ Size(w, k) \in Nat /\ Place(w, k) \in Nat
           /\ Place(w, k + 1) = Place(w, k) + META + Size(w, k)
<1> DEFINE S == META + Size(w, 2)
<1>1. Size(w, 1) \in Nat /\ Size(w, 2) \in Nat /\ Size(w, k) \in Nat
    BY Counts DEF Size, INT, PTR
<1>2. S \in Nat
    BY <1>1, Sizes
<1>3. CASE k = 1
    <2>1. Place(w, k) = 0 /\ Place(w, k + 1) = META + Size(w, 1) + 0 * S
        BY <1>3 DEF Place
    <2> QED
        BY <1>1, <1>2, <1>3, <2>1, Sizes
<1>4. CASE k # 1
    <2>1. /\ Place(w, k) = META + Size(w, 1) + (k - 2) * S
          /\ Place(w, k + 1) = META + Size(w, 1) + (k - 1) * S
        BY <1>4 DEF Place
    <2>2. Size(w, k) = Size(w, 2)
        BY <1>4 DEF Size
    <2>3. (k - 2) * S \in Nat /\ (k - 1) * S = (k - 2) * S + S
        <3> HIDE DEF S
        <3>1. PICK m \in Nat : k = m + 2
            BY <1>4
        <3>2. k - 2 = m /\ k - 1 = m + 1
            BY <3>1
        <3>3. m * S \in Nat /\ (m + 1) * S = m * S + S
            BY <1>2
        <3> QED
            BY <3>2, <3>3
    <2> HIDE DEF S
    <2>4. S = META + Size(w, k)
        BY <2>2 DEF S
    <2> QED
        BY <1>1, <1>2, <2>1, <2>3, <2>4, Sizes
<1> QED
    BY <1>3, <1>4

LEMMA PlaceGrows ==
    ASSUME NEW w \in Works, NEW j \in Nat \ {0}, NEW k \in Nat \ {0}, j < k
    PROVE  Place(w, j) < Place(w, k)
<1> DEFINE S == META + Size(w, 2)
<1>1. Size(w, 1) \in Nat /\ S \in Nat /\ S > 0
    BY Sizes, Counts DEF Size, INT, PTR
<1>2. k # 1 /\ Place(w, k) = META + Size(w, 1) + (k - 2) * S
    BY DEF Place
<1> HIDE DEF S
<1>3. CASE j = 1
    <2>1. (k - 2) * S \in Nat
        <3>1. k - 2 \in Nat
            BY <1>2
        <3> QED
            BY <1>1, <3>1
    <2>2. Place(w, j) = 0
        BY <1>3 DEF Place
    <2> QED
        BY <1>1, <1>2, <2>1, <2>2, Sizes
<1>4. CASE j # 1
    <2>1. Place(w, j) = META + Size(w, 1) + (j - 2) * S
        BY <1>4 DEF Place, S
    <2>2. (j - 2) * S < (k - 2) * S /\ (j - 2) * S \in Nat /\ (k - 2) * S \in Nat
        <3>1. PICK m \in Nat, d \in Nat : j - 2 = m /\ k - 2 = m + d + 1
            <4>1. j - 2 \in Nat /\ k - j - 1 \in Nat /\ k - 2 = (j - 2) + (k - j - 1) + 1
                BY <1>4
            <4> QED
                BY <4>1
        <3>2. m * S \in Nat /\ d * S \in Nat /\ (m + d + 1) * S = m * S + d * S + S
            BY <1>1
        <3> QED
            BY <1>1, <3>1, <3>2
    <2> QED
        BY <1>1, <1>2, <2>1, <2>2, Sizes
<1> QED
    BY <1>3, <1>4

\* While a workload fills its array every place of it holds a block; whoever waits for
\* malloc is filling it.
LEMMA AllLive == ClientInv /\ Filling => Live = 1..Len(arr)
<1> SUFFICES ASSUME ClientInv, Filling PROVE Live = 1..Len(arr)
    OBVIOUS
<1>1. work = "D" => Len(arr) <= CountD
    BY ArrayTypes, Counts DEF ClientInv, Progress, Filled
<1> QED
    BY <1>1, ArrayTypes, Counts DEF Filling, Live, Works

LEMMA Waits == ClientInv /\ waiting => Filling /\ Len(arr) < Depth(work) /\ Depth(work) \in Nat
<1> SUFFICES ASSUME ClientInv, waiting
             PROVE  Filling /\ Len(arr) < Depth(work) /\ Depth(work) \in Nat
    OBVIOUS
<1>1. Called = 1 /\ Len(arr) \in Nat /\ done \in Nat /\ work \in Works
    BY ArrayTypes DEF Called
<1>2. CASE work = "A"
    BY <1>1, <1>2 DEF ClientInv, Progress, Depth, Filling
<1>3. CASE work = "C"
    <2>1. PICK m \in 0..CountC : done + Len(arr) + Called = 2 * m
        BY <1>3 DEF ClientInv, Progress
    <2>2. Len(arr) + Called <= done
        BY <1>3 DEF ClientInv, Progress
    <2> QED
        BY <1>1, <1>3, <2>1, <2>2, Counts DEF Depth, Filling
<1>4. CASE work \in {"B", "D", "E"}
    <2>1. Filled(Depth(work)) /\ Depth(work) \in Nat
        BY <1>4, Counts DEF ClientInv, Progress, Depth
    <2> QED
        BY <1>1, <2>1 DEF Filled, Filling
<1> QED
    BY <1>1, <1>2, <1>3, <1>4 DEF Works

\* A pointer that is held belongs to an allocated block.
LEMMA HeldBlock ==
    ASSUME ClientInv, NEW k \in Live, arr[k] # NULL
    PROVE  /\ arr[k] \in DOMAIN owned /\ isMemoryInitialized
           /\ arr[k] - META \in Heads /\ ~meta[arr[k] - META].isFree
<1>1. arr[k] \in DOMAIN owned
    BY DEF ClientInv, HeldInv, Held
<1> QED
    BY <1>1 DEF ClientInv, IInv, OwnedIsAllocated, Heads

\* While malloc looks for a block there is one free block, behind all the others, and the
\* request fits.
LEMMA OneFree ==
    ASSUME LargeEnough, RoomInv, pc = "malloc",
           NEW n, n = Len(arr), NEW t, t = Place(work, n + 1)
    PROVE  /\ n \in Nat /\ n < Depth(work) /\ Depth(work) \in Nat /\ arg = Size(work, n + 1)
           /\ t \in Heads /\ meta[t].isFree /\ NextHead(t) = SIZE
           /\ \A j \in Heads : meta[j].isFree => j = t
           /\ arg \in Nat /\ t + META + arg <= SIZE
           /\ n + 1 < Depth(work) => t + META + arg + META + MIN_BLOCK <= SIZE
<1> DEFINE P(k) == Place(work, k)
<1>1. /\ ClientInv /\ IInv /\ TypeOK /\ HeapTiled /\ work \in Works /\ n \in Nat
      /\ waiting /\ n < Depth(work) /\ Depth(work) \in Nat /\ Filling
      /\ arg = Size(work, n + 1) /\ isMemoryInitialized
    <2>1. ClientInv /\ waiting
        BY DEF RoomInv, ClientInv, CallInv
    <2>2. IInv /\ TypeOK /\ HeapTiled /\ isMemoryInitialized
        BY <2>1 DEF ClientInv, IInv, MallocInv
    <2>3. arg = Size(work, n + 1)
        BY DEF RoomInv, StackInv
    <2> QED
        BY <2>1, <2>2, <2>3, Waits, ArrayTypes
<1>2. \A k \in 1..n :
          /\ arr[k] = P(k) + META /\ meta[P(k)].len = Size(work, k) /\ k \in Live
          /\ arr[k] # NULL
    <2>1. Live = 1..n
        BY <1>1, AllLive
    <2>2. \A k \in 1..n : k < Depth(work)
        BY <1>1
    <2> QED
        BY <1>1, <2>1, <2>2 DEF RoomInv, StackInv, NoNull, Placed
<1>3. \A k \in 1..n + 1 : /\ P(k) \in Nat /\ Size(work, k) \in Nat
                          /\ P(k + 1) = P(k) + META + Size(work, k)
    BY <1>1, PlaceNext
<1>4. \A j, k \in 1..n + 1 : j < k => P(j) < P(k)
    BY <1>1, PlaceGrows
<1>5. P(1) = 0 /\ P(n + 1) = t
    BY DEF Place
<1> HIDE DEF P
<1>6. \A k \in 1..n : P(k) \in Heads /\ ~meta[P(k)].isFree /\ NextHead(P(k)) = P(k + 1)
    <2> TAKE k \in 1..n
    <2>0. P(k) \in Nat
        BY <1>1, <1>3
    <2>1. arr[k] - META = P(k) /\ k \in Live
        BY <1>2, <2>0, Sizes
    <2>2. P(k) \in Heads /\ ~meta[P(k)].isFree
        BY <1>1, <1>2, <2>1, HeldBlock
    <2> QED
        BY <1>1, <1>2, <1>3, <2>2, HeadFacts
<1>7. \A j \in Heads : ~meta[j].isFree => \E k \in 1..n : j = P(k)
    <2> SUFFICES ASSUME NEW j \in Heads, ~meta[j].isFree PROVE \E k \in 1..n : j = P(k)
        OBVIOUS
    <2>1. j + META \in DOMAIN owned /\ j \in Nat
        BY <1>1, HeadFacts DEF IInv, OwnedIsAllocated, Heads
    <2>2. DOMAIN owned = Held /\ Live = 1..n
        BY <1>1, AllLive DEF ClientInv, HeldInv, Pending
    <2>3. PICK k \in 1..n : j + META = arr[k]
        BY <2>1, <2>2 DEF Held
    <2>4. P(k) \in Nat /\ j + META = P(k) + META
        BY <1>1, <1>2, <1>3, <2>3
    <2> QED
        BY <2>1, <2>4, Sizes
<1>8. /\ t \in Nat /\ arg \in Nat /\ t + META + arg <= SIZE /\ t < SIZE
      /\ n + 1 < Depth(work) => t + META + arg + META + MIN_BLOCK <= SIZE
    <2>1. /\ Place(work, n + 2) <= SIZE
          /\ n + 1 < Depth(work) => Place(work, n + 2) + META + MIN_BLOCK <= SIZE
        <3>1. n + 1 \in 1..Depth(work) /\ n + 1 + 1 = n + 2
            BY <1>1
        <3> QED
            BY <1>1, <3>1 DEF LargeEnough
    <2>2. t \in Nat /\ arg \in Nat /\ Place(work, n + 2) = t + META + arg
        <3>1. n + 1 \in Nat \ {0} /\ n + 1 + 1 = n + 2
            BY <1>1
        <3> QED
            BY <1>1, <3>1, PlaceNext
    <2> QED
        BY <2>1, <2>2, Sizes
<1>9. t \in Heads
    <2>1. CASE n = 0
        BY <1>1, <1>5, <2>1 DEF HeapTiled, Heads
    <2>2. CASE n # 0
        <3>1. P(n) \in Heads /\ NextHead(P(n)) = t
            BY <1>1, <1>5, <1>6, <2>2
        <3> QED
            BY <1>1, <1>8, <3>1, HeadFacts, Sizes
    <2> QED
        BY <2>1, <2>2
<1>10. \A k \in 1..n : P(k) < t
    BY <1>1, <1>4, <1>5
<1>11. meta[t].isFree
    BY <1>3, <1>7, <1>8, <1>9, <1>10
<1>12. NextHead(t) = SIZE
    <2>1. NextHead(t) \in Heads \cup {SIZE} /\ NextHead(t) \in Nat /\ NextHead(t) > t
        BY <1>1, <1>9, HeadFacts, Sizes
    <2>2. ASSUME NextHead(t) \in Heads PROVE FALSE
        <3>1. NextHead(t) < SIZE
            BY <1>1, <2>2, HeadFacts, Sizes
        <3>2. ~meta[NextHead(t)].isFree
            BY <1>1, <1>9, <1>11, <3>1 DEF IInv, FreeApart
        <3>3. PICK k \in 1..n : NextHead(t) = P(k)
            BY <1>7, <2>2, <3>2
        <3> QED
            BY <1>3, <1>8, <1>10, <2>1, <3>3
    <2> QED
        BY <2>1, <2>2
<1>13. \A j \in Heads : meta[j].isFree => j = t
    <2> SUFFICES ASSUME NEW j \in Heads, meta[j].isFree PROVE j = t
        OBVIOUS
    <2>1. NextHead(j) \in Heads \cup {SIZE} /\ NextHead(j) \in Nat /\ NextHead(j) > 0
        BY <1>1, HeadFacts, Sizes
    <2>2. CASE NextHead(j) = SIZE
        BY <1>1, <1>9, <1>12, <2>2, OneBefore
    <2>3. CASE NextHead(j) \in Heads
        <3>1. NextHead(j) < SIZE
            <4>1. NextHead(j) \in 0..SIZE-1
                BY <1>1, <2>3, HeadFacts
            <4> QED
                BY <4>1, Sizes
        <3>2. ~meta[NextHead(j)].isFree
            BY <1>1, <3>1 DEF IInv, FreeApart
        <3>3. PICK k \in 1..n : NextHead(j) = P(k)
            BY <1>7, <2>3, <3>2
        <3>4. k # 1
            BY <1>5, <2>1, <3>3
        <3>5. k - 1 \in 1..n /\ k - 1 + 1 = k
            BY <1>1, <3>4
        <3>6. P(k - 1) \in Heads /\ ~meta[P(k - 1)].isFree /\ NextHead(P(k - 1)) = P(k)
            BY <1>6, <3>5
        <3> QED
            BY <1>1, <3>3, <3>6, OneBefore
    <2> QED
        BY <2>1, <2>2, <2>3
<1> QED
    BY <1>1, <1>8, <1>9, <1>11, <1>12, <1>13

\* So malloc does not fail, and hands out the place that is next.
LEMMA NoFail == ASSUME LargeEnough, RoomInv, MallocFail PROVE FALSE
<1>1. PICK n, t : n = Len(arr) /\ t = Place(work, n + 1)
    OBVIOUS
<1>2. pc = "malloc" /\ i >= SIZE
    BY DEF MallocFail
<1>3. /\ t \in Heads /\ NextHead(t) = SIZE /\ meta[t].isFree
      /\ arg \in Nat /\ t + META + arg <= SIZE
    BY <1>1, <1>2, OneFree
<1>4. IInv /\ TypeOK /\ HeapTiled
    BY DEF RoomInv, ClientInv, IInv
<1>5. i = SIZE /\ t \in 0..SIZE-1
    BY <1>2, <1>3, <1>4, HeadFacts, Sizes DEF TypeOK
<1>6. PICK j \in Heads : ~meta[j].isFree /\ Overlaps(t, arg, j)
    BY <1>2, <1>3, <1>4, <1>5 DEF IInv, MallocInv
<1>7. j \in Nat /\ j < SIZE /\ j # t /\ t < NextHead(j) /\ t \in Nat
    BY <1>3, <1>4, <1>5, <1>6, HeadFacts, Sizes DEF Overlaps
<1>8. CASE j < t
    BY <1>3, <1>4, <1>7, <1>8, HeadFacts, Sizes DEF HeapTiled, Heads
<1>9. CASE t < j
    BY <1>3, <1>4, <1>7, <1>9, HeadFacts, Sizes DEF HeapTiled, Heads
<1> QED
    BY <1>7, <1>8, <1>9

LEMMA ServeStep ==
    ASSUME LargeEnough, RoomInv, MallocSplit \/ MallocWhole, UNCHANGED client
    PROVE  Placed(Len(arr) + 1, ret)'
<1>1. PICK n, t : n = Len(arr) /\ t = Place(work, n + 1)
    OBVIOUS
<1>2. pc = "malloc" /\ i < SIZE /\ meta[i].isFree /\ ret' = i + META
    BY DEF MallocSplit, MallocWhole, Fits, HandOut
<1>3. /\ n \in Nat /\ arg = Size(work, n + 1) /\ t \in Heads
      /\ NextHead(t) = SIZE /\ arg \in Nat
      /\ \A j \in Heads : meta[j].isFree => j = t
      /\ n + 1 < Depth(work) => t + META + arg + META + MIN_BLOCK <= SIZE
    BY <1>1, <1>2, OneFree
<1>4. TypeOK /\ HeapTiled /\ i \in Heads
    BY <1>2, Sizes DEF RoomInv, ClientInv, IInv, MallocInv, TypeOK
<1>5. i = t /\ t \in Nat /\ meta[t].len \in Nat /\ t + META + meta[t].len = SIZE
    BY <1>2, <1>3, <1>4, HeadFacts
<1>6. n + 1 < Depth(work) => meta'[t].len = Size(work, n + 1)
    <2>1. CASE MallocSplit
        BY <1>3, <1>5, <2>1 DEF MallocSplit, Heads
    <2>2. CASE MallocWhole
        <3>1. ~(meta[t].len >= arg + META + MIN_BLOCK)
            BY <1>5, <2>2 DEF MallocWhole, Splits
        <3> QED
            BY <1>3, <1>5, <3>1, Sizes
    <2> QED
        BY <2>1, <2>2
<1>7. work' = work /\ Len(arr') + 1 = n + 1
    BY <1>1 DEF client
<1> QED
    BY <1>1, <1>2, <1>5, <1>6, <1>7 DEF Placed

-----------------------------------------------------------------------------
(***************************************************************************)
(* The invariant holds in a large arena.                                   *)
(***************************************************************************)
LEMMA InitRoom == MemgrindInit => RoomInv
<1> SUFFICES ASSUME MemgrindInit PROVE RoomInv
    OBVIOUS
<1>1. pc = "idle" /\ waiting = FALSE /\ arr = <<>> /\ isError = FALSE /\ Len(arr) = 0
    BY DEF MemgrindInit, Init
<1> QED
    BY <1>1, InitClient DEF RoomInv, StackInv, NoNull

\* A malloc of the size that is next.
LEMMA MallocRoom ==
    ASSUME RoomInv, NEW n \in Nat, Malloc(n), UNCHANGED <<work, arr>>,
           n = Size(work, Len(arr) + 1), Filling
    PROVE  StackInv' /\ NoNull'
<1>1. /\ pc' = "malloc" /\ arg' = n /\ isError' = isError
      /\ isMemoryInitialized => meta' = meta
    BY DEF Malloc, CallMalloc
<1>2. arr # <<>> => meta' = meta
    BY <1>1 DEF RoomInv, ClientInv, CallInv
<1>3. \A k \in 1..Len(arr) : Placed(k, arr[k])
    BY DEF RoomInv, StackInv
<1>4. \A k \in 1..Len(arr') : Placed(k, arr[k])'
    <2>1. CASE arr = <<>>
        BY <2>1
    <2>2. CASE arr # <<>>
        BY <1>2, <1>3, <2>2 DEF Placed
    <2> QED
        BY <2>1, <2>2
<1> QED
    BY <1>1, <1>4 DEF StackInv, RoomInv, NoNull

\* A free: the pointer is none that must be refused.
LEMMA FreeRoom ==
    ASSUME RoomInv, NEW k \in 1..Len(arr), Free(arr[k]),
           Len(arr') \in Nat, Len(arr') <= Len(arr), \A j \in 1..Len(arr') : arr'[j] = arr[j],
           Filling' => Filling
    PROVE  StackInv' /\ NoNull'
<1>1. arr[k] # NULL /\ Len(arr) \in Nat
    BY ArrayTypes DEF RoomInv, NoNull
<1>2. CallFree(arr[k]) /\ work' = work /\ ~waiting /\ waiting' = waiting
    BY <1>1 DEF Free
<1>3. pc' = "search" /\ ~isError' /\ meta' = meta
    BY <1>2 DEF CallFree
<1>4. \A j \in 1..Len(arr') : j \in 1..Len(arr)
    BY <1>1
<1>5. Filling' => \A j \in 1..Len(arr') : Placed(j, arr[j])'
    BY <1>2, <1>3, <1>4 DEF RoomInv, StackInv, Placed
<1>6. \A j \in 1..Len(arr') : arr'[j] # NULL
    BY <1>4 DEF RoomInv, NoNull
<1> QED
    BY <1>3, <1>5, <1>6 DEF StackInv, NoNull

LEMMA StoreRoom == RoomInv /\ Store => StackInv' /\ NoNull'
<1> SUFFICES ASSUME RoomInv, Store PROVE StackInv' /\ NoNull'
    OBVIOUS
<1> DEFINE n == Len(arr)
<1>1. /\ waiting /\ pc = "idle" /\ ~waiting' /\ arr' = Append(arr, ret) /\ pc' = "idle"
      /\ work' = work /\ done' = done /\ meta' = meta /\ isError' = isError /\ ret' = ret
    BY DEF Store, vars, locals
<1>2. ClientInv /\ work \in Works /\ n \in Nat /\ arr \in Seq({NULL} \cup META..SIZE)
    BY ArrayTypes DEF RoomInv
<1>3. Filling /\ Placed(n + 1, ret)
    BY <1>1, <1>2, Waits DEF RoomInv, StackInv
<1>4. \A k \in 1..n : Placed(k, arr[k]) /\ arr[k] # NULL
    BY <1>3 DEF RoomInv, StackInv, NoNull
<1>5. ret # NULL
    <2>1. n + 1 \in Nat \ {0}
        BY <1>2
    <2>2. Place(work, n + 1) \in Nat
        BY <1>2, <2>1, PlaceNext
    <2> QED
        BY <1>3, <2>2, Sizes DEF Placed, NULL
<1>6. Len(arr') = n + 1 /\ arr'[n + 1] = ret /\ \A k \in 1..n : arr'[k] = arr[k]
    BY <1>1, <1>2
<1>7. \A k \in 1..n + 1 : k \in 1..n \/ k = n + 1
    BY <1>2
<1>8. \A k \in 1..Len(arr') : Placed(k, arr[k])'
    BY <1>1, <1>3, <1>4, <1>6, <1>7 DEF Placed
<1>9. \A k \in 1..Len(arr') : arr'[k] # NULL
    BY <1>4, <1>5, <1>6, <1>7
<1> QED
    BY <1>1, <1>8, <1>9 DEF StackInv, RoomInv, NoNull

LEMMA MainRoom == RoomInv /\ main => StackInv' /\ NoNull'
<1> SUFFICES ASSUME RoomInv, main PROVE StackInv' /\ NoNull'
    OBVIOUS
<1>1. /\ pc' = "idle" /\ ~waiting' /\ arr' = <<>> /\ isError' = isError /\ Len(arr') = 0
    BY DEF main, AtAssert, vars, locals
<1> QED
    BY <1>1 DEF StackInv, RoomInv, NoNull

\* A step of mymalloc or myfree leaves the blocks that are held where they are.
LEMMA StepRoom ==
    ASSUME LargeEnough, RoomInv, Step, UNCHANGED client
    PROVE  StackInv' /\ NoNull'
<1>1. UNCHANGED <<work, arr, waiting, done>> /\ ClientInv /\ ClientInv' /\ IInv
    BY HeapStep DEF client, RoomInv, ClientInv
<1>2. isError' = isError
    BY <1>1, StepOwned
<1>3. NoNull'
    BY <1>1, <1>2 DEF RoomInv, NoNull
<1>4. ASSUME Filling' PROVE \A k \in 1..Len(arr') : Placed(k, arr[k])'
    <2>1. Filling /\ \A k \in 1..Len(arr) : Placed(k, arr[k]) /\ arr[k] # NULL
        BY <1>1, <1>4 DEF Filling, RoomInv, StackInv, NoNull
    <2>2. Live = 1..Len(arr) /\ Live' = Live
        BY <1>1, <2>1, AllLive DEF Live
    <2>3. \A k \in Live : arr[k] \in DOMAIN owned /\ arr[k] \in DOMAIN owned'
        BY <1>1, <2>1, <2>2 DEF ClientInv, HeldInv, Held
    <2>4. \A k \in Live : meta'[arr[k] - META] = meta[arr[k] - META]
        BY <1>1, <2>3, InUseStep DEF AnyNext
    <2>5. \A k \in Live : arr[k] - META = Place(work, k)
        <3> TAKE k \in Live
        <3>1. Place(work, k) \in Nat
            BY <1>1, <2>2, ArrayTypes, PlaceNext
        <3> QED
            BY <2>1, <2>2, <3>1, Sizes DEF Placed
    <2> QED
        BY <1>1, <2>1, <2>2, <2>4, <2>5 DEF Placed
<1>5. (pc = "malloc" => arg = Size(work, Len(arr) + 1))'
    <2>1. pc' = "malloc" => pc = "malloc" /\ arg' = arg
        BY <1>1, StepOwned
    <2> QED
        BY <1>1, <2>1 DEF RoomInv, StackInv
<1>6. ASSUME waiting', pc' = "idle" PROVE Placed(Len(arr) + 1, ret)'
    <2>1. pc \in {"idle", "malloc"}
        BY <1>1, <1>6 DEF ClientInv, CallInv
    <2>2. MallocSplit \/ MallocWhole
        BY <1>6, <2>1, NoFail
           DEF Step, MallocNext, SearchNext, FreeUnknown, FreeTwice, FreeFound, MergeNext,
               MergeDone
    <2> QED
        BY <2>2, ServeStep
<1> QED
    BY <1>3, <1>4, <1>5, <1>6 DEF StackInv

LEMMA RoomStep == ASSUME LargeEnough PROVE RoomInv /\ [MemgrindNext]_allVars => RoomInv'
<1> SUFFICES ASSUME RoomInv, [MemgrindNext]_allVars PROVE RoomInv'
    OBVIOUS
<1>1. /\ ClientInv /\ ClientInv' /\ work \in Works /\ done \in Nat /\ Len(arr) \in Nat
      /\ arr \in Seq({NULL} \cup META..SIZE)
    BY ClientStep, ArrayTypes DEF RoomInv
<1> SUFFICES StackInv' /\ NoNull'
    BY <1>1 DEF RoomInv
<1>2. CASE caseA
    <2>1. CASE arr = <<>> /\ Malloc(1) /\ UNCHANGED <<work, arr, done>>
        BY <1>2, <2>1, MallocRoom DEF caseA, Filling, Size
    <2>2. CASE arr # <<>> /\ Free(arr[1]) /\ arr' = <<>>
        <3>1. 1 \in 1..Len(arr) /\ Len(arr') = 0 /\ Filling
            BY <1>1, <1>2, <2>2 DEF caseA, Filling
        <3> QED
            BY <1>1, <2>2, <3>1, FreeRoom
    <2> QED
        BY <1>2, <2>1, <2>2 DEF caseA
<1>3. ASSUME NEW n \in Nat, Malloc(n), UNCHANGED <<work, arr, done>>, Filled(Depth(work)),
             Len(arr) < Depth(work), n = Size(work, Len(arr) + 1)
      PROVE  StackInv' /\ NoNull'
    <2>1. done = 0
        BY <1>1, <1>3 DEF Filled
    <2> QED
        BY <1>3, <2>1, MallocRoom DEF Filling
<1>4. ASSUME work \in {"B", "D", "E"}, NEW k \in 1..Len(arr), Free(arr[k]), UNCHANGED arr
      PROVE  StackInv' /\ NoNull'
    <2>1. ~Filling'
        BY <1>1, <1>4, FreeIs DEF Filling
    <2> QED
        BY <1>1, <1>4, <2>1, FreeRoom
<1>5. CASE caseB
    <2>1. work = "B" /\ Filled(Depth(work)) /\ Depth(work) = CountB
        BY <1>1, <1>5 DEF caseB, ClientInv, Progress, Depth
    <2>2. CASE Len(arr) < CountB /\ Malloc(1) /\ UNCHANGED <<work, arr, done>>
        BY <1>3, <2>1, <2>2 DEF Size
    <2>3. CASE Len(arr) = CountB /\ done < CountB /\ Free(arr[done + 1]) /\ UNCHANGED arr
        <3>1. done + 1 \in 1..Len(arr)
            BY <1>1, <2>3
        <3> QED
            BY <1>4, <2>1, <2>3, <3>1
    <2> QED
        BY <1>5, <2>2, <2>3 DEF caseB
<1>6. CASE caseD
    <2>1. work = "D" /\ Filled(Depth(work)) /\ Depth(work) = CountD
        BY <1>1, <1>6 DEF caseD, ClientInv, Progress, Depth
    <2>2. CASE Len(arr) < CountD /\ Malloc(1) /\ UNCHANGED <<work, arr, done>>
        BY <1>3, <2>1, <2>2 DEF Size
    <2>3. CASE /\ Len(arr) = CountD /\ done < CountD
               /\ Free(arr[CountD - done]) /\ UNCHANGED arr
        <3>1. CountD - done \in 1..Len(arr)
            BY <1>1, <2>3
        <3> QED
            BY <1>4, <2>1, <2>3, <3>1
    <2> QED
        BY <1>6, <2>2, <2>3 DEF caseD
<1>7. CASE caseE
    <2>1. work = "E" /\ Filled(Depth(work)) /\ Depth(work) = Order + 1
        BY <1>1, <1>7 DEF caseE, ClientInv, Progress, Depth
    <2>2. CASE arr = <<>> /\ Malloc(PTR * Order) /\ UNCHANGED <<work, arr, done>>
        <3>1. /\ PTR * Order \in Nat /\ Len(arr) < Depth(work)
              /\ PTR * Order = Size(work, Len(arr) + 1)
            BY <2>1, <2>2, Counts DEF Size, PTR
        <3> QED
            BY <1>3, <2>1, <2>2, <3>1
    <2>3. CASE /\ Len(arr) \in 1..Order /\ Malloc(INT * Order)
               /\ UNCHANGED <<work, arr, done>>
        <3>1. /\ INT * Order \in Nat /\ Len(arr) < Depth(work)
              /\ INT * Order = Size(work, Len(arr) + 1)
            BY <1>1, <2>1, <2>3, Counts DEF Size, INT
        <3> QED
            BY <1>3, <2>1, <2>3, <3>1
    <2>4. CASE /\ Len(arr) = Order + 1 /\ done < Order
               /\ Free(arr[done + 2]) /\ UNCHANGED arr
        <3>1. done + 2 \in 1..Len(arr)
            BY <1>1, <2>4, Counts
        <3> QED
            BY <1>4, <2>1, <2>4, <3>1
    <2>5. CASE Len(arr) = Order + 1 /\ done = Order /\ Free(arr[1]) /\ UNCHANGED arr
        <3>1. 1 \in 1..Len(arr)
            BY <1>1, <2>5, Counts
        <3> QED
            BY <1>4, <2>1, <2>5, <3>1
    <2> QED
        BY <1>7, <2>2, <2>3, <2>4, <2>5 DEF caseE
<1>8. CASE caseC
    <2>1. work = "C" /\ Filling
        BY <1>8 DEF caseC, Filling
    <2>2. CASE Malloc(1) /\ UNCHANGED <<work, arr>>
        BY <2>1, <2>2, MallocRoom DEF Size
    <2>3. CASE arr # <<>> /\ Free(Last(arr)) /\ arr' = Front(arr)
        <3> DEFINE n == Len(arr)
        <3>1. n \in 1..n /\ Last(arr) = arr[n]
            BY <1>1, <2>3 DEF Last
        <3>2. /\ Len(arr') \in Nat /\ Len(arr') <= n
              /\ \A j \in 1..Len(arr') : arr'[j] = arr[j]
            BY <1>1, <2>3, <3>1, FrontIs
        <3> QED
            BY <2>1, <2>3, <3>1, <3>2, FreeRoom
    <2> QED
        BY <1>8, <2>2, <2>3 DEF caseC
<1>9. CASE UNCHANGED allVars
    <2>1. /\ UNCHANGED <<work, arr, waiting, done>>
          /\ UNCHANGED <<meta, pc, arg, ret, isError>>
        BY <1>9 DEF allVars, client, vars, locals
    <2> QED
        BY <2>1 DEF RoomInv, StackInv, NoNull, Placed, Filling
<1> QED
    BY <1>2, <1>5, <1>6, <1>7, <1>8, <1>9, StoreRoom, MainRoom, StepRoom
       DEF MemgrindNext, Client

\* In a large arena the blocks of every workload lie where they are expected.
THEOREM RoomInductive == ASSUME LargeEnough PROVE MemgrindSpec => []RoomInv
BY InitRoom, RoomStep, PTL DEF MemgrindSpec

\* In a large arena no malloc of a workload fails.
THEOREM NoSaturation == ASSUME LargeEnough PROVE MemgrindSpec => []NeverSaturated
<1>1. RoomInv => NeverSaturated
    <2> SUFFICES ASSUME RoomInv, waiting, pc = "idle" PROVE ret # NULL
        BY DEF NeverSaturated
    <2>1. Place(work, Len(arr) + 1) \in Nat /\ Placed(Len(arr) + 1, ret)
        BY ArrayTypes, PlaceNext DEF RoomInv, StackInv
    <2> QED
        BY <2>1, Sizes DEF Placed, NULL
<1> QED
    BY <1>1, RoomInductive, PTL

\* In a large arena no free of a workload is refused.
THEOREM NoRefusal == ASSUME LargeEnough PROVE MemgrindSpec => []NeverRefused
<1>1. RoomInv => NeverRefused
    BY DEF RoomInv, NoNull, NeverRefused
<1> QED
    BY <1>1, RoomInductive, PTL
=============================================================================
