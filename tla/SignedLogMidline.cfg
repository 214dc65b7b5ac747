CONSTANTS
  p1 = p1
  p2 = p2
  NoProc = NoProc
  NoHead = NoHead
  Procs = {p1, p2}
  MaxLines = 3
  MaxFaults = 1
  Faults = {"kill_midline"}
SPECIFICATION Spec
PROPERTIES AckMeansLoadable
CHECK_DEADLOCK FALSE
