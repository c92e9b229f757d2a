SPECIFICATION FairSpec
CONSTANTS
  Proc = {p1, p2}
  Session = {s1, s2, s3, s4, s5}
  NoSession = NoSession
  FaultKinds = {"crash", "host", "cut", "failover", "lapse"}
  MaxFaults = 1
INVARIANTS TwoBelieversAreSick
PROPERTIES LiveWorkerKept WorkerComesBack LoserStops
