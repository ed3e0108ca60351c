------------------------------- MODULE MCVmDisks ------------------------------
(* A disk of two blocks, which are alike, as are the calls. *)
EXTENDS VmDisks, TLC
Symmetry == Permutations(Blocks) \union Permutations(Calls)
===============================================================================
