---------------------------- MODULE MCSharedMounts ---------------------------
(* Small instances of SharedMounts for TLC.                                *)
EXTENDS SharedMounts
=============================================================================
