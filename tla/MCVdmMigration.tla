---------------------------- MODULE MCVdmMigration ----------------------------
(* Small instances of VdmMigration for TLC.                                *)
EXTENDS VdmMigration, TLC

Symmetry == Permutations(Workflow) \cup Permutations(Node)
=============================================================================
