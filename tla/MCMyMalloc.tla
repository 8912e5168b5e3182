----------------------------- MODULE MCMyMalloc -----------------------------
(* A 12-byte arena with 2-byte headers and a least payload of 2. *)
EXTENDS MyMalloc

MCRequests == {0, 1, 2, 3, 6}
MCPointers == (0..SIZE) \cup {SIZE + 5}
=============================================================================
