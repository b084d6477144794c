------------------------- MODULE MCLeaseCoordinator -------------------------
(* Small instances of the lease coordinator for TLC.                       *)
EXTENDS LeaseCoordinator, TLC

Symmetry == Permutations(Leases) \cup Permutations(Bindings)
=============================================================================
