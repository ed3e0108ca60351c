----------------------------- MODULE MCVdmBackups -----------------------------
(* A small instance of VdmBackups for TLC.                                 *)
EXTENDS VdmBackups, TLC

=============================================================================
