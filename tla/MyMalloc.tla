------------------------------ MODULE MyMalloc ------------------------------
(***************************************************************************)
(* mymalloc() and myfree() of Asst1/mymalloc.c.                            *)
(*                                                                         *)
(* The arena myblock is described by the metadata headers in it: meta maps *)
(* the offset of a header to its len and isFree.  A header that a free     *)
(* absorbs into its neighbour leaves DOMAIN meta; the program leaves its   *)
(* bytes where they are, and HeapTiled with CursorOnHeader says that no    *)
(* walk over the arena ever reads them again.                              *)
(*                                                                         *)
(* Every iteration of a loop over the headers is a step, so that what each *)
(* loop knows halfway is part of the state.  Pointers are offsets into     *)
(* myblock; an integer outside 0..SIZE stands for any other address.       *)
(***************************************************************************)
EXTENDS Integers

CONSTANTS
    SIZE,       \* bytes of the arena
    META,       \* sizeof(struct metaData)
    MIN_BLOCK,  \* least payload worth a header of its own
    Requests,   \* sizes the client asks for
    Pointers    \* addresses the client passes to free

\* 4096 bytes are 512 headers of 8; the requests are sizes, never negative.
ASSUME HeapAssumption ==
    /\ META \in Nat \ {0}
    /\ MIN_BLOCK \in Nat
    /\ SIZE \in Nat
    /\ \E n \in 1..SIZE : SIZE = n * META
    /\ Requests \subseteq Nat
    /\ Pointers \subseteq Int

NULL == -1      \* no offset of myblock

VARIABLES
    meta,                 \* the headers of the arena, by offset
    isMemoryInitialized,
    isError,              \* set by myfree when it refuses its argument
    pc,                   \* which loop the call in progress is in
    arg,                  \* the call's argument: size of mymalloc, ref of myfree
    i, freeBlock, containsPointer,   \* locals of the call
    ret,                  \* what the last mymalloc returned
    owned                 \* the client's pointers: what it asked for at each

locals == <<pc, arg, i, freeBlock, containsPointer>>
vars == <<meta, isMemoryInitialized, isError, locals, ret, owned>>

(***************************************************************************)
(* The memory.                                                             *)
(***************************************************************************)
\* A static array is zeroed: every META bytes read as an allocated, empty block.
ZeroHeaders ==
    [j \in {k \in 0..SIZE-1 : \E n \in 0..SIZE : k = n * META} |->
        [len |-> 0, isFree |-> FALSE]]

\* Variant: the header's own bytes are counted as payload.
WideFreeBlock == [j \in {0} |-> [len |-> SIZE, isFree |-> TRUE]]

OneFreeBlock == [j \in {0} |-> [len |-> SIZE - META, isFree |-> TRUE]]

\* `i += sizeof(struct metaData) + currentMeta->len`
NextHead(j) == j + META + meta[j].len

\* Variants of the two tests that the properties tell from the code's: a block in
\* use is taken for free, an exact fit is passed over, no room is kept for the header.
UsedFits(j, n) == meta[j].len >= n
StrictFits(j, n) == meta[j].isFree /\ meta[j].len > n
TightSplits(j, n) == meta[j].len >= n

\* The block at j can serve a request of n bytes.
Fits(j, n) == meta[j].isFree /\ meta[j].len >= n

\* What is left of it can be a block of its own.
Splits(j, n) == meta[j].len >= n + META + MIN_BLOCK

\* Only the header at 0 is looked at.
isMemCorrectlyConfigured ==
    0 \in DOMAIN meta /\ meta[0] = [len |-> SIZE - META, isFree |-> TRUE]

Init ==
    /\ meta = ZeroHeaders
    /\ isMemoryInitialized = FALSE
    /\ isError = FALSE
    /\ pc = "idle" /\ arg = 0
    /\ i = 0 /\ freeBlock = 0 /\ containsPointer = -1
    /\ ret = NULL
    /\ owned = [p \in {} |-> 0]

Return ==
    /\ pc' = "idle" /\ arg' = 0
    /\ i' = 0 /\ freeBlock' = 0 /\ containsPointer' = -1

(***************************************************************************)
(* mymalloc(size): first fit, from the start of the arena.                 *)
(***************************************************************************)
CallMalloc(n) ==
    /\ pc = "idle"
    /\ pc' = "malloc" /\ arg' = n /\ i' = 0
    /\ meta' = IF isMemoryInitialized THEN meta ELSE OneFreeBlock
    /\ isMemoryInitialized' = TRUE
    /\ ret' = NULL
    /\ UNCHANGED <<isError, freeBlock, containsPointer, owned>>

MallocNext ==
    /\ pc = "malloc" /\ i < SIZE
    /\ ~Fits(i, arg)
    /\ i' = NextHead(i)
    /\ UNCHANGED <<meta, isMemoryInitialized, isError, pc, arg, freeBlock,
                   containsPointer, ret, owned>>

\* The client gets the payload of the block at i.
HandOut ==
    /\ ret' = i + META
    /\ owned' = [p \in DOMAIN owned \cup {i + META} |->
                    IF p = i + META THEN arg ELSE owned[p]]
    /\ Return
    /\ UNCHANGED <<isMemoryInitialized, isError>>

MallocSplit ==
    /\ pc = "malloc" /\ i < SIZE
    /\ Fits(i, arg) /\ Splits(i, arg)
    /\ meta' = [j \in DOMAIN meta \cup {i + META + arg} |->
                    IF j = i THEN [len |-> arg, isFree |-> FALSE]
                    ELSE IF j = i + META + arg
                         THEN [len |-> meta[i].len - arg - META, isFree |-> TRUE]
                         ELSE meta[j]]
    /\ HandOut

MallocWhole ==
    /\ pc = "malloc" /\ i < SIZE
    /\ Fits(i, arg) /\ ~Splits(i, arg)
    /\ meta' = [meta EXCEPT ![i] = [len |-> meta[i].len, isFree |-> FALSE]]
    /\ HandOut

MallocFail ==
    /\ pc = "malloc" /\ i >= SIZE
    /\ Return
    /\ UNCHANGED <<meta, isMemoryInitialized, isError, ret, owned>>

(***************************************************************************)
(* myfree(ref): find the block, mark it, join it to its free neighbours.   *)
(***************************************************************************)
\* myblock is static to mymalloc.c: an address inside it can only be reached
\* from a pointer that mymalloc returned.
CanHold(r) == isMemoryInitialized \/ r \notin 0..SIZE

FreeNull ==
    /\ pc = "idle"
    /\ isError' = TRUE
    /\ ret' = NULL
    /\ UNCHANGED <<meta, isMemoryInitialized, locals, owned>>

\* Variant: the flag of an earlier refusal is not reset.
StickyCallFree(r) ==
    /\ pc = "idle"
    /\ r # NULL /\ CanHold(r)
    /\ pc' = "search" /\ arg' = r
    /\ i' = 0 /\ freeBlock' = 0 /\ containsPointer' = -1
    /\ ret' = NULL
    /\ UNCHANGED <<meta, isMemoryInitialized, isError, owned>>

CallFree(r) ==
    /\ pc = "idle"
    /\ r # NULL /\ CanHold(r)
    /\ pc' = "search" /\ arg' = r
    /\ i' = 0 /\ freeBlock' = 0 /\ containsPointer' = -1
    /\ isError' = FALSE
    /\ ret' = NULL
    /\ UNCHANGED <<meta, isMemoryInitialized, owned>>

\* Variant: an allocated block on the way does not reset freeBlock.
StaleSearchNext ==
    /\ pc = "search" /\ i < SIZE
    /\ i + META # arg
    /\ freeBlock' = IF meta[i].isFree /\ freeBlock = -1 THEN i ELSE freeBlock
    /\ i' = NextHead(i)
    /\ UNCHANGED <<meta, isMemoryInitialized, isError, pc, arg,
                   containsPointer, ret, owned>>

\* freeBlock is the first of the free blocks that end where the cursor is.
SearchNext ==
    /\ pc = "search" /\ i < SIZE
    /\ i + META # arg
    /\ freeBlock' = IF meta[i].isFree /\ freeBlock = -1 THEN i
                    ELSE IF ~meta[i].isFree THEN -1 ELSE freeBlock
    /\ i' = NextHead(i)
    /\ UNCHANGED <<meta, isMemoryInitialized, isError, pc, arg,
                   containsPointer, ret, owned>>

FreeUnknown ==
    /\ pc = "search" /\ i >= SIZE
    /\ isError' = TRUE
    /\ Return
    /\ UNCHANGED <<meta, isMemoryInitialized, ret, owned>>

FreeTwice ==
    /\ pc = "search" /\ i < SIZE
    /\ i + META = arg /\ meta[i].isFree
    /\ isError' = TRUE
    /\ Return
    /\ UNCHANGED <<meta, isMemoryInitialized, ret, owned>>

\* The do-while's body runs once before its condition is tested.
FreeFound ==
    /\ pc = "search" /\ i < SIZE
    /\ i + META = arg /\ ~meta[i].isFree
    /\ meta' = [meta EXCEPT ![i].isFree = TRUE]
    /\ containsPointer' = i
    /\ i' = NextHead(i)
    /\ pc' = "merge"
    /\ owned' = [p \in DOMAIN owned \ {arg} |-> owned[p]]
    /\ UNCHANGED <<isMemoryInitialized, isError, arg, freeBlock, ret>>

\* Variant: the walk over the free neighbours does not advance.
StuckMergeNext ==
    /\ pc = "merge"
    /\ i < SIZE /\ meta[i].isFree
    /\ UNCHANGED vars

MergeNext ==
    /\ pc = "merge"
    /\ i < SIZE /\ meta[i].isFree
    /\ i' = NextHead(i)
    /\ UNCHANGED <<meta, isMemoryInitialized, isError, pc, arg, freeBlock,
                   containsPointer, ret, owned>>

\* Variant: the free block on the left is not joined.
RightMergeBase == containsPointer

MergeBase == IF freeBlock # -1 THEN freeBlock ELSE containsPointer

\* The base block takes the room up to i; the headers in between are gone.
MergeDone ==
    /\ pc = "merge"
    /\ i < SIZE => ~meta[i].isFree
    /\ meta' = [j \in DOMAIN meta \ {k \in DOMAIN meta : MergeBase < k /\ k < i} |->
                    IF j = MergeBase
                    THEN [len |-> i - (MergeBase + META), isFree |-> meta[j].isFree]
                    ELSE meta[j]]
    /\ Return
    /\ UNCHANGED <<isMemoryInitialized, isError, ret, owned>>

(***************************************************************************)
(* The specification: a client that makes any call, one at a time.         *)
(***************************************************************************)
Step ==
    \/ MallocNext \/ MallocSplit \/ MallocWhole \/ MallocFail
    \/ SearchNext \/ FreeUnknown \/ FreeTwice \/ FreeFound
    \/ MergeNext \/ MergeDone

Next ==
    \/ \E n \in Requests : CallMalloc(n)
    \/ FreeNull
    \/ \E r \in Pointers : CallFree(r)
    \/ Step

\* A call that has begun is executed; the client need not make any.
Spec == Init /\ [][Next]_vars /\ WF_vars(Step)

-----------------------------------------------------------------------------
(***************************************************************************)
(* Properties.                                                             *)
(***************************************************************************)
TypeOK ==
    /\ DOMAIN meta \subseteq 0..SIZE-1
    /\ meta \in [DOMAIN meta -> [len : 0..SIZE, isFree : BOOLEAN]]
    /\ isMemoryInitialized \in BOOLEAN
    /\ isError \in BOOLEAN
    /\ pc \in {"idle", "malloc", "search", "merge"}
    /\ arg \in Int
    /\ i \in 0..SIZE
    /\ freeBlock \in -1..SIZE-1
    /\ containsPointer \in -1..SIZE-1
    /\ ret \in Int
    /\ DOMAIN owned \subseteq META..SIZE
    /\ owned \in [DOMAIN owned -> Nat]

\* From header to header by len the arena is covered without gap or overlap,
\* and the last block ends at SIZE: what every loop of mymalloc.c relies on.
HeapTiled ==
    /\ 0 \in DOMAIN meta
    /\ \A j \in DOMAIN meta : NextHead(j) \in DOMAIN meta \cup {SIZE}
    /\ \A j, k \in DOMAIN meta : j < k => NextHead(j) <= k

\* The cursor of a loop is on a header of the tiling whenever the loop reads one:
\* no stale header and no payload byte is ever taken for metadata.
CursorOnHeader == i < SIZE => i \in DOMAIN meta

\* Between calls no two neighbours are free: one free joined both sides.
Coalesced ==
    pc \in {"idle", "malloc", "search"} =>
        \A j \in DOMAIN meta :
            meta[j].isFree /\ NextHead(j) < SIZE => ~meta[NextHead(j)].isFree

\* The client's pointers are exactly the allocated blocks; each has at least the
\* bytes that were asked for and less than a split block's worth of padding.
OwnedIsAllocated ==
    IF isMemoryInitialized
    THEN /\ \A p \in DOMAIN owned :
              /\ p - META \in DOMAIN meta
              /\ ~meta[p - META].isFree
              /\ meta[p - META].len - owned[p] \in 0..(META + MIN_BLOCK - 1)
         /\ \A j \in DOMAIN meta : ~meta[j].isFree => j + META \in DOMAIN owned
    ELSE DOMAIN owned = {}

\* Whatever was allocated and in whatever order it was freed, the arena ends as it
\* began: what the workloads of memgrind.c assert.
CleanWhenEmpty ==
    isMemoryInitialized /\ pc = "idle" /\ DOMAIN owned = {}
        => isMemCorrectlyConfigured /\ DOMAIN meta = {0}

\* No header and payload of n bytes would fit beside the allocated blocks.
Overlaps(a, n, j) == j < a + META + n /\ a < NextHead(j)
NoRoom(n) ==
    \A a \in 0..SIZE : a + META + n <= SIZE =>
        \E j \in DOMAIN meta : ~meta[j].isFree /\ Overlaps(a, n, j)

\* mymalloc returns NULL only when no contiguous room is left anywhere.
OutOfMemoryIsReal == [][MallocFail => NoRoom(arg)]_vars

\* A block in use keeps its place and its length until its owner frees it.
InUseUnmoved ==
    [][\A p \in DOMAIN owned \cap DOMAIN owned' :
          meta'[p - META] = meta[p - META]]_vars

\* A free is refused exactly when the client does not own the pointer.
RefusedIffNotOwned ==
    [][pc = "search" /\ pc' # "search" => (isError' <=> arg \notin DOMAIN owned)]_vars

-----------------------------------------------------------------------------
(***************************************************************************)
(* The inductive invariant: what each loop knows halfway.                  *)
(***************************************************************************)
Heads == DOMAIN meta

\* No free block ends where the block at k begins.
NoFreeBefore(k) == \A j \in Heads : NextHead(j) = k => ~meta[j].isFree

\* The block at b is free and ends where the block at k begins.
FreeBefore(b, k) == b \in Heads /\ meta[b].isFree /\ NextHead(b) = k

\* Free neighbours exist only while myfree is joining one of the two.
FreeApart ==
    \A j \in Heads :
        meta[j].isFree /\ NextHead(j) < SIZE /\ meta[NextHead(j)].isFree
            => pc = "merge" /\ containsPointer \in {j, NextHead(j)}

\* Nothing the first-fit walk has passed has room for the request.
MallocInv ==
    pc = "malloc" =>
        /\ isMemoryInitialized
        /\ arg \in Nat
        /\ i \in Heads \cup {SIZE}
        /\ \A a \in 0..i-1 : a + META + arg <= SIZE =>
              \E j \in Heads : ~meta[j].isFree /\ Overlaps(a, arg, j)

\* The search has not passed its block and knows the free block behind it.
SearchInv ==
    pc = "search" =>
        /\ ~isError
        /\ CanHold(arg)
        /\ i \in Heads \cup {SIZE}
        /\ \A j \in Heads : j < i => j + META # arg
        /\ \/ i = 0 /\ freeBlock = 0
           \/ freeBlock = -1 /\ NoFreeBefore(i)
           \/ FreeBefore(freeBlock, i)

\* The join spans the freed block, at most one free block before it and the
\* free block after it once the walk has passed that.
MergeInv ==
    pc = "merge" =>
        /\ isMemoryInitialized
        /\ i \in Heads \cup {SIZE}
        /\ containsPointer \in Heads /\ meta[containsPointer].isFree
        /\ \/ freeBlock \in {-1, containsPointer} /\ NoFreeBefore(containsPointer)
           \/ FreeBefore(freeBlock, containsPointer)
        /\ LET n == NextHead(containsPointer)
           IN  \/ i = n
               \/ n \in Heads /\ meta[n].isFree /\ i = NextHead(n)

\* Before the first mymalloc the zeroed arena has no free block.
ZeroInv == ~isMemoryInitialized => \A j \in Heads : ~meta[j].isFree

IInv ==
    /\ TypeOK /\ HeapTiled /\ OwnedIsAllocated
    /\ FreeApart /\ MallocInv /\ SearchInv /\ MergeInv /\ ZeroInv
    /\ pc = "idle" => i = 0

-----------------------------------------------------------------------------
\* Every call returns: the walks make progress.
CallsReturn == pc # "idle" ~> pc = "idle"

(***************************************************************************)
(* What the client sees is a heap of extents: a malloc takes effect when it *)
(* returns, a free when its block is found; the join that follows does not  *)
(* show.                                                                    *)
(***************************************************************************)
heapOp == CASE pc = "malloc" -> "malloc" [] pc = "search" -> "free" [] OTHER -> "none"
heapArg == IF pc \in {"malloc", "search"} THEN arg ELSE 0

Heap == INSTANCE HeapSpec WITH op <- heapOp, arg <- heapArg

\* mymalloc.c implements the heap its callers are promised.
ImplementsHeap == Heap!Spec
=============================================================================
