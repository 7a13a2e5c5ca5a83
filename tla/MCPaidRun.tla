---------------------------- MODULE MCPaidRun ----------------------------
(* PaidRun for TLC. *)
EXTENDS PaidRun
=============================================================================
