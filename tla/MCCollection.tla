---------------------------- MODULE MCCollection ----------------------------
(* Collection on small instances. *)
EXTENDS Collection

TwoHosts == <<"TERMINAL0", "TERMINAL1">>

=============================================================================
