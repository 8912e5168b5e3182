------------------------------ MODULE HeapSpec ------------------------------
(***************************************************************************)
(* What malloc and free promise a client, with nothing said of headers,    *)
(* walks or first fit.  The client's pointers own disjoint extents of the  *)
(* arena; malloc answers NULL only when there is no room, and free takes   *)
(* back what is owned and refuses the rest.                                *)
(***************************************************************************)
EXTENDS Integers

CONSTANTS SIZE, META, MIN_BLOCK, Requests, Pointers

NULL == -1

VARIABLES
    owned,      \* pointer -> bytes asked for
    op, arg,    \* the call in progress, or "none"
    ret,        \* answer of the last malloc
    isError     \* answer of the last free

vars == <<owned, op, arg, ret, isError>>

\* The request at p and its header stay clear of every other extent.
Clear(p, n) ==
    /\ p - META >= 0 /\ p + n <= SIZE
    /\ \A q \in DOMAIN owned : p + n <= q - META \/ q + owned[q] <= p - META

\* There is room even when every block is as padded as a block can be.
MaxPadding == META + MIN_BLOCK - 1
Room(n) ==
    \E p \in META..SIZE :
        /\ p + n <= SIZE
        /\ \A q \in DOMAIN owned :
              p + n <= q - META \/ q + owned[q] + MaxPadding <= p - META

Init ==
    /\ owned = [p \in {} |-> 0]
    /\ op = "none" /\ arg = 0
    /\ ret = NULL /\ isError = FALSE

CallMalloc(n) ==
    /\ op = "none"
    /\ op' = "malloc" /\ arg' = n /\ ret' = NULL
    /\ UNCHANGED <<owned, isError>>

MallocOk ==
    /\ op = "malloc"
    /\ \E p \in META..SIZE :
          /\ Clear(p, arg)
          /\ ret' = p
          /\ owned' = [q \in DOMAIN owned \cup {p} |-> IF q = p THEN arg ELSE owned[q]]
    /\ op' = "none" /\ arg' = 0
    /\ UNCHANGED isError

MallocNull ==
    /\ op = "malloc"
    /\ ~Room(arg)
    /\ op' = "none" /\ arg' = 0
    /\ UNCHANGED <<owned, ret, isError>>

FreeNull ==
    /\ op = "none"
    /\ isError' = TRUE /\ ret' = NULL
    /\ UNCHANGED <<owned, op, arg>>

CallFree(r) ==
    /\ op = "none"
    /\ op' = "free" /\ arg' = r
    /\ isError' = FALSE /\ ret' = NULL
    /\ UNCHANGED owned

FreeOk ==
    /\ op = "free" /\ arg \in DOMAIN owned
    /\ owned' = [q \in DOMAIN owned \ {arg} |-> owned[q]]
    /\ op' = "none" /\ arg' = 0
    /\ UNCHANGED <<ret, isError>>

FreeRefused ==
    /\ op = "free" /\ arg \notin DOMAIN owned
    /\ isError' = TRUE
    /\ op' = "none" /\ arg' = 0
    /\ UNCHANGED <<owned, ret>>

Answer == MallocOk \/ MallocNull \/ FreeOk \/ FreeRefused

Next ==
    \/ \E n \in Requests : CallMalloc(n)
    \/ FreeNull
    \/ \E r \in Pointers : CallFree(r)
    \/ Answer

Spec == Init /\ [][Next]_vars /\ WF_vars(Answer)
=============================================================================
