------------------------------ MODULE MCPbsJobs ------------------------------
(* Small instances of PbsJobs for TLC.                                     *)
EXTENDS PbsJobs

CONSTANTS n1, g1, g2

OneHome == [g \in {g1, g2} |-> n1]
=============================================================================
