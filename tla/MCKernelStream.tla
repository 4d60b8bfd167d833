--------------------------- MODULE MCKernelStream ---------------------------
(* Three callers: one that has finished and two that compete for the flag. *)
EXTENDS KernelStream

CONSTANTS c1, c2, c3

=============================================================================
