--------------------------- MODULE MCJobLifecycle ---------------------------
(* JobLifecycle for TLC: the nodes are symmetric (the loops are not: the     *)
(* specification chooses the next free one).                               *)
EXTENDS JobLifecycle, TLC

Symmetry == Permutations(Node)
=============================================================================
