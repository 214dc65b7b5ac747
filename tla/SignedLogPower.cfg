CONSTANTS
  p1 = p1
  p2 = p2
  NoProc = NoProc
  NoHead = NoHead
  Procs = {p1, p2}
  MaxLines = 3
  MaxFaults = 2
  Faults = {"kill", "kill_midline", "torn", "io", "power"}
SPECIFICATION Spec
INVARIANTS SlackCoversOneFault AckedNeverLost
SYMMETRY InstanceSymmetry
CHECK_DEADLOCK FALSE
