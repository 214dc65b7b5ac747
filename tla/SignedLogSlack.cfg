CONSTANTS
  p1 = p1
  p2 = p2
  NoProc = NoProc
  NoHead = NoHead
  Procs = {p1, p2}
  MaxLines = 3
  MaxFaults = 2
  Faults = {"kill"}
SPECIFICATION Spec
INVARIANTS SlackNeverAccumulates
CHECK_DEADLOCK FALSE
