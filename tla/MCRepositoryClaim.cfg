SPECIFICATION FairSpec
CONSTANTS
  Node = {w, a}
  Worker = w
  NoNode = NoNode
  Repo = {r1, r2}
  Git = {r2}
  Op = {o1, o2}
  Legacy = {r2}
  FaultKinds = {"crash", "lapse", "hang", "statement"}
  MaxFaults = 1
INVARIANTS Alone
PROPERTIES TakenLate NotWedged
