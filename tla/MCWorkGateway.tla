--------------------------- MODULE MCWorkGateway ---------------------------
(* Small instances of the Work Gateway for TLC.                            *)
EXTENDS WorkGateway, TLC

CONSTANTS w1, w2, r1, r2, t1, t2, e1, e2

\* Ids are only compared for equality.
Symmetry == Permutations(Works) \cup Permutations(Runs)
            \cup Permutations(Tickets) \cup Permutations(Effects)

\* Bound: behind a row that no reader accepts, where the journal stays as it is,
\* memory goes on with Runs and approvals and not with effects.
EffectsBehindBrokenRow == err # "none" => live.effect = replay.effect
=============================================================================
