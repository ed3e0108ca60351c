------------------------------ MODULE MCVdmTasks ------------------------------
(* Small instances of VdmTasks for TLC.                                    *)
EXTENDS VdmTasks, TLC

(* Tasks, requests and resources are interchangeable in safety runs.       *)
Symmetry == Permutations(Task) \cup Permutations(Resource) \cup Permutations(Node)
=============================================================================
