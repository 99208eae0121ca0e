----------------------------- MODULE MCSyncGate -----------------------------
(***************************************************************************)
(* The gate for TLC.  The run checks liveness, so threads are not taken    *)
(* for symmetric.                                                          *)
(***************************************************************************)
EXTENDS SyncGate
=============================================================================
