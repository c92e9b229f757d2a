SPECIFICATION FairSpec
CONSTANTS
  Node = {n1, n2}
  NoNode = NoNode
  Last = 2
  Form <- MCForm
  FaultKinds = {"crash", "lapse", "day", "statement", "aborter"}
  MaxFaults = 1
INVARIANTS OneStepAtATime TruthfulParent AbortReachesStep
PROPERTIES FailureStops AbortStops MultistepKept
CHECK_DEADLOCK FALSE
