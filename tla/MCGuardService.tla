--------------------------- MODULE MCGuardService ---------------------------
(* Small instances of the approval service for TLC.                        *)
EXTENDS GuardService

CONSTANTS t1, t2, h1, h2, a1, a2
=============================================================================
