CONSTANTS
  n1 = n1
  n2 = n2
  NoNode = NoNode
  s1 = s1
  s2 = s2
  Node = {n1, n2}
  Schedule = {s1, s2}
  OneTime = {s1}
  ByHand = {}
  MaxQueue = 3
  FaultKinds = {"crash", "slow"}
  MaxFaults = 1
SPECIFICATION FairSpec
PROPERTY QueueMoves
PROPERTY OneTimeRuns
INVARIANT QueueOrder
