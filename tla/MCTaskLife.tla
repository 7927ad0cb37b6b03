----------------------------- MODULE MCTaskLife -----------------------------
(* TaskLife on small instances. *)
EXTENDS TaskLife, TLC

CONSTANTS s1

=============================================================================
