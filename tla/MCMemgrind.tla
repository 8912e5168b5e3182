----------------------------- MODULE MCMemgrind -----------------------------
(* The arena of mymalloc.h, 4096 bytes with 8-byte headers. *)
EXTENDS Memgrind

NoCalls == {}

\* It is large enough for the workloads.
ASSUME Enough == LargeEnough
=============================================================================
