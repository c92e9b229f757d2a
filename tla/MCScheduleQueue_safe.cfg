CONSTANTS
  n1 = n1
  n2 = n2
  NoNode = NoNode
  s1 = s1
  s2 = s2
  Node = {n1, n2}
  Schedule = {s1}
  OneTime = {s1}
  ByHand = {s1}
  MaxQueue = 3
  FaultKinds = {"crash", "lapse", "slow", "connection", "statement"}
  MaxFaults = 1
SPECIFICATION Spec
SYMMETRY Symmetry
INVARIANT ClaimedOnce
INVARIANT OneTimeOnce
