---------------------------- MODULE MCAcpSession ----------------------------
(* Small instances of an agent's session for TLC.                          *)
EXTENDS AcpSession

CONSTANTS p1, s1
=============================================================================
