--------------------------- MODULE MCDesignerLock ---------------------------
(* DesignerLock for TLC. *)
EXTENDS DesignerLock, TLC
=============================================================================
