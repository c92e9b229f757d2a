-------------------------- MODULE MCRepositoryClaim --------------------------
(* RepositoryClaim for TLC. *)
EXTENDS RepositoryClaim, TLC
=============================================================================
