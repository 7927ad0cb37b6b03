------------------------------ MODULE MCMmLife ------------------------------
(* MmLife on small instances. *)
EXTENDS MmLife, TLC

CONSTANTS a, b, c

TaskSymmetry == Permutations(First)

=============================================================================
