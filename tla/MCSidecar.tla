----------------------------- MODULE MCSidecar -----------------------------
(* Small instances of the sidecar and its host for TLC.                    *)
EXTENDS Sidecar
=============================================================================
