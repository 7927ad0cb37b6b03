------------------------------ MODULE MCHubTbi ------------------------------
(* HubTbi on small instances.  CPUs are interchangeable.                    *)
EXTENDS HubTbiLedger, TLC

CPUSymmetry == Permutations(CPUs)

=============================================================================
