SPECIFICATION Spec
CONSTANTS
  n1 = n1
  n2 = n2
  r1 = r1
  NoNode = NoNode
  Node = {n1, n2, r1}
  Rte = r1
  MaxConn = 2
  MaxOutput = 1
  Window = 2
  Exits = {"success"}
  EventSets = {{"abort", "slow"}, {"drop"}, {"store"}, {"restart"}, {"replace"}, {"crash"}, {"busy"}, {"unfit"}, {"tired"}, {"away"}}
SYMMETRY NodeSymmetry
CHECK_DEADLOCK FALSE
INVARIANTS OneProcess AckedIsStored OutputWhole CancelMarkTrue
