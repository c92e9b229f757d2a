--------------------------- MODULE MCRecordCache ---------------------------
(* RecordCache for TLC. *)
EXTENDS RecordCache, TLC

Symmetry == Permutations(Proc)
=============================================================================
