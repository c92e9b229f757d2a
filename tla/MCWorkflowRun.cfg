SPECIFICATION FairSpec
CONSTANTS
  Node = {n1, n2}
  NoNode = NoNode
  Home = n1
  Worker = n2
  Id = {1, 2, 3}
  None = None
  Graph <- MCGraph
  FaultKinds = {"crash", "lapse", "day", "statement", "slow"}
  MaxFaults = 1
INVARIANTS TruthfulWorkflow AbortReachesNodes
PROPERTIES ComesToRest WorkflowKept
CHECK_DEADLOCK FALSE
