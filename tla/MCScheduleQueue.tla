-------------------------- MODULE MCScheduleQueue --------------------------
(* Small instances of ScheduleQueue                                        *)
EXTENDS ScheduleQueue, TLC

Symmetry == Permutations(Node)
=============================================================================
