---------------------------- MODULE MCDelegation ----------------------------
(* Small instances of delegation for TLC.                                  *)
EXTENDS Delegation, TLC

CONSTANTS root, a, b, d, ra, rb, rd

\* child_run_id is one to one.
MCRunOf == (a :> ra) @@ (b :> rb) @@ (d :> rd)

\* Callers are only compared for equality.
Symmetry == Permutations(Callers)
=============================================================================
