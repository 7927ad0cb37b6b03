-------------------------- MODULE MCDeadProcessList --------------------------
(* Instances of DeadProcessList for TLC: addresses are model values. *)
EXTENDS DeadProcessList, TLC

NodeSymmetry == Permutations(Nodes)

=============================================================================
