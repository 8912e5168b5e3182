------------------------------ MODULE Memgrind ------------------------------
(***************************************************************************)
(* The workloads of Asst1/memgrind.c, as the client of mymalloc.c: each    *)
(* ends with assert(isMemCorrectlyConfigured()), and main runs them in     *)
(* turn over one arena, again and again.                                   *)
(***************************************************************************)
EXTENDS MyMalloc, Sequences, SequencesExt

CONSTANTS
    CountA, CountB, CountC, CountD,  \* 120, 120, 120 and 300 mallocs of one byte
    Order                            \* 30: rows of the matrix of workload E

\* The first workload makes a call.
ASSUME MemgrindAssumption ==
    /\ CountA \in Nat \ {0}
    /\ CountB \in Nat /\ CountC \in Nat /\ CountD \in Nat /\ Order \in Nat

VARIABLES
    work,         \* the workload that runs
    arr,          \* its array of pointers
    waiting,      \* a malloc has been called and its result not yet stored
    done          \* iterations of its loop: releases, or for C every call

client == <<work, arr, waiting, done>>
allVars == <<vars, client>>

INT == 4    \* sizeof(int)
PTR == 8    \* sizeof(int*)

MemgrindInit ==
    /\ Init
    /\ work = "A" /\ arr = <<>> /\ waiting = FALSE /\ done = 0

Malloc(n) ==
    /\ ~waiting /\ CallMalloc(n)
    /\ waiting' = TRUE

Store ==
    /\ waiting /\ pc = "idle"
    /\ arr' = Append(arr, ret)
    /\ waiting' = FALSE
    /\ UNCHANGED <<vars, work, done>>

Free(p) ==
    /\ ~waiting
    /\ IF p = NULL THEN FreeNull ELSE CallFree(p)
    /\ done' = done + 1
    /\ UNCHANGED <<work, waiting>>

\* Variant: one iteration too many.
LongCaseA ==
    /\ work = "A"
    /\ \/ done <= CountA /\ arr = <<>> /\ Malloc(1) /\ UNCHANGED <<work, arr, done>>
       \/ arr # <<>> /\ Free(arr[1]) /\ arr' = <<>>

caseA ==
    /\ work = "A"
    /\ \/ done < CountA /\ arr = <<>> /\ Malloc(1) /\ UNCHANGED <<work, arr, done>>
       \/ arr # <<>> /\ Free(arr[1]) /\ arr' = <<>>

\* Every pointer is released in the order it was obtained.
caseB ==
    /\ work = "B"
    /\ \/ Len(arr) < CountB /\ Malloc(1) /\ UNCHANGED <<work, arr, done>>
       \/ /\ Len(arr) = CountB /\ done < CountB
          /\ Free(arr[done + 1]) /\ UNCHANGED arr

\* A coin picks malloc or free; an impossible pick is drawn again.
MallocsOfC == (done + Len(arr)) \div 2    \* calls are mallocs and frees

\* Variant: the first pointer is released where the last one is dropped.
FirstCaseC ==
    /\ work = "C" /\ done < 2 * CountC
    /\ \/ MallocsOfC < CountC /\ Malloc(1) /\ done' = done + 1 /\ UNCHANGED <<work, arr>>
       \/ arr # <<>> /\ Free(arr[1]) /\ arr' = Front(arr)

caseC ==
    /\ work = "C" /\ done < 2 * CountC
    /\ \/ MallocsOfC < CountC /\ Malloc(1) /\ done' = done + 1 /\ UNCHANGED <<work, arr>>
       \/ arr # <<>> /\ Free(Last(arr)) /\ arr' = Front(arr)

\* As B, from the last pointer back to the first.
caseD ==
    /\ work = "D"
    /\ \/ Len(arr) < CountD /\ Malloc(1) /\ UNCHANGED <<work, arr, done>>
       \/ /\ Len(arr) = CountD /\ done < CountD
          /\ Free(arr[CountD - done]) /\ UNCHANGED arr

\* Variant: one row more than there are places.
LongCaseE ==
    /\ work = "E"
    /\ \/ arr = <<>> /\ Malloc(PTR * Order) /\ UNCHANGED <<work, arr, done>>
       \/ Len(arr) \in 1..Order + 1 /\ Malloc(INT * Order) /\ UNCHANGED <<work, arr, done>>
       \/ /\ Len(arr) = Order + 2 /\ done < Order
          /\ Free(arr[done + 2]) /\ UNCHANGED arr
       \/ Len(arr) = Order + 2 /\ done = Order /\ Free(arr[1]) /\ UNCHANGED arr

\* An array of row pointers, then the rows; the rows are released, then the array.
caseE ==
    /\ work = "E"
    /\ \/ arr = <<>> /\ Malloc(PTR * Order) /\ UNCHANGED <<work, arr, done>>
       \/ Len(arr) \in 1..Order /\ Malloc(INT * Order) /\ UNCHANGED <<work, arr, done>>
       \/ /\ Len(arr) = Order + 1 /\ done < Order
          /\ Free(arr[done + 2]) /\ UNCHANGED arr
       \/ Len(arr) = Order + 1 /\ done = Order /\ Free(arr[1]) /\ UNCHANGED arr

Works == {"A", "B", "C", "D", "E"}

Iterations ==
    CASE work = "A" -> CountA [] work = "B" -> CountB [] work = "C" -> 2 * CountC
      [] work = "D" -> CountD [] work = "E" -> Order + 1

\* The workload has run to its assert.
AtAssert == pc = "idle" /\ ~waiting /\ done = Iterations

\* Variant: D is left out of the loop.
ShortNextWork == [A |-> "B", B |-> "C", C |-> "E", D |-> "E", E |-> "A"]

NextWork == [A |-> "B", B |-> "C", C |-> "D", D |-> "E", E |-> "A"]

\* main: on to the next workload.
main ==
    /\ AtAssert
    /\ work' = NextWork[work]
    /\ arr' = <<>> /\ done' = 0
    /\ UNCHANGED <<vars, waiting>>

Client == caseA \/ caseB \/ caseC \/ caseD \/ caseE \/ Store \/ main

MemgrindNext == Client \/ (Step /\ UNCHANGED client)

\* A single thread that runs; the coin of C comes up right again and again.
MemgrindSpec == MemgrindInit /\ [][MemgrindNext]_allVars /\ WF_allVars(MemgrindNext)

-----------------------------------------------------------------------------
\* The arrays hold pointers, one more for each call that was stored.
ClientTypeOK ==
    /\ work \in Works
    /\ \A k \in 1..Len(arr) : arr[k] \in {NULL} \cup META..SIZE
    /\ waiting \in BOOLEAN
    /\ done \in 0..Iterations

\* Each workload's assert: whatever the order of the releases and the coin of C,
\* the arena is one free block at the end.
AssertHolds == AtAssert => isMemCorrectlyConfigured

\* The arena is never too small for a workload: E's matrix is the largest that
\* fits, and nothing an earlier workload left behind is in its way.
NeverSaturated == waiting /\ pc = "idle" => ret # NULL

\* What the arena has to hold for that: the k-th block that a workload has at once is of
\* Size(w, k) bytes and its header is at Place(w, k), and one that is not the last has to
\* leave room for a header and MIN_BLOCK bytes, or it would keep more than it asked for.
Depth(w) ==
    CASE w = "A" -> 1 [] w = "B" -> CountB [] w = "C" -> CountC
      [] w = "D" -> CountD [] w = "E" -> Order + 1
Size(w, k) == IF w # "E" THEN 1 ELSE IF k = 1 THEN PTR * Order ELSE INT * Order
Place(w, k) ==
    IF k = 1 THEN 0 ELSE META + Size(w, 1) + (k - 2) * (META + Size(w, 2))
LargeEnough ==
    \A w \in Works : \A k \in 1..Depth(w) :
        /\ Place(w, k + 1) <= SIZE
        /\ k < Depth(w) => Place(w, k + 1) + META + MIN_BLOCK <= SIZE

\* No workload passes free a pointer that it must refuse.
NeverRefused == ~isError

\* Every workload gets its turn over and over.
AllWorkloadsRun == \A w \in Works : []<>(work = w /\ AtAssert)
=============================================================================
