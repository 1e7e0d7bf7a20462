----------------------------- MODULE MCPidAlloc -----------------------------
(***************************************************************************)
(* Module PidAlloc on small instances, for TLC.                            *)
(***************************************************************************)
EXTENDS PidAlloc
=============================================================================
