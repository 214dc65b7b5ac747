SPECIFICATION Spec
CONSTANTS
  h1 = h1
  h2 = h2
  Hooks = {h1, h2}
  Calls <- AllCalls
  Limit = 2
  NoFile = NoFile
  Damaged = Damaged
  NoCall = NoCall
  MaxCalls = 4
  MaxFaults = 2
SYMMETRY AlikeHooks
INVARIANTS FloorAfterIngest BudgetBinds
CHECK_DEADLOCK FALSE
