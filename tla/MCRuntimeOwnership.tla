------------------------- MODULE MCRuntimeOwnership -------------------------
(* Three runs of runtime processes, two of which may contend while a third *)
(* has crashed or is closing.                                              *)
EXTENDS RuntimeOwnership, TLC

Symmetry == Permutations(Processes)
=============================================================================
