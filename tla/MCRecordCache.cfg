SPECIFICATION Spec
CONSTANTS
  Proc = {p1, p2}
  Nothing = Nothing
  MaxChanges = 3
  MaxRestores = 1
  FaultKinds = {"bump", "poll", "restore", "restart"}
  MaxFaults = 1
SYMMETRY Symmetry
INVARIANTS ServesTheRow
