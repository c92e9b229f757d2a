CONSTANTS
  n1 = n1
  n2 = n2
  NoNode = NoNode
  j1 = j1
  l1 = l1
  l2 = l2
  l3 = l3
  Node = {n1, n2}
  Job = {j1}
  Loop = {l1, l2, l3}
  Gated = {}
  Legacy = {}
  Ageing = {j1}
  FaultKinds = {"crash"}
  MaxFaults = 2
SPECIFICATION Spec
SYMMETRY Symmetry
INVARIANT OneFollower
INVARIANT LostJobsResumable
PROPERTY FollowedNotAbandoned
