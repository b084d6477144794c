---------------------------- MODULE MCScheduler ----------------------------
(* Small instances of the trigger plane for TLC.                           *)
EXTENDS Scheduler

CONSTANTS j1, k1, timer
=============================================================================
