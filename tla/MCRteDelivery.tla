--------------------------- MODULE MCRteDelivery ---------------------------
(* RteDelivery for TLC: the app nodes are symmetric, the sockets are not.  *)
EXTENDS RteDelivery, TLC

NodeSymmetry == Permutations(AppNode)
=============================================================================
