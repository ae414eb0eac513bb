--------------------------- MODULE MCOpsExecution ---------------------------
(***************************************************************************)
(* Small instances of OpsExecution for TLC.                                *)
(***************************************************************************)
EXTENDS OpsExecution

=============================================================================
