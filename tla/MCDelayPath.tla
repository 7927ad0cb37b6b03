---------------------------- MODULE MCDelayPath ----------------------------
(* DelayPath on small instances. *)
EXTENDS DelayPath, TLC

CONSTANTS c1

MCTerminals == <<"terminal0", "terminal1">>

=============================================================================
