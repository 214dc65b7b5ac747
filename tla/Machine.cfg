SPECIFICATION MachineSpec
CONSTANTS
  h1 = h1
  h2 = h2
  Hooks = {h1, h2}
  Paths = {"project", "user"}
  Governed = "project"
  Actions = {"write", "read"}
  Effectful = {"write"}
  Broken = Broken
  Over = Over
  First <- MCFirst
  Edits <- MCEdits
  Changes <- MCChanges
  MaxEdits = 1
  MaxRequests = 3
  Documents <- MCDocuments
  Original <- MCOriginal
  MaxInstalls = 2
  MaxChanges = 1
INVARIANTS
  OwnWorldGoverns
  StoppedHolds
  CoverageKept
  DocumentKept
  DoctorTruthful
PROPERTY RestorePutsBack
SYMMETRY Symmetric
CHECK_DEADLOCK FALSE
