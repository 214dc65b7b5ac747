CONSTANTS
  p1 = p1
  p2 = p2
  NoProc = NoProc
  NoHead = NoHead
  Procs = {p1, p2}
  MaxLines = 3
  MaxFaults = 2
  Faults = {"kill", "torn", "io"}
SPECIFICATION FairSpec
INVARIANTS ChainNeverForks MarksWithinLog
PROPERTIES AckMeansLoadable ImplementsDurableLog OperationReturns
CHECK_DEADLOCK FALSE
