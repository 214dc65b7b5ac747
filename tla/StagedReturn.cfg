SPECIFICATION FairSpec
CONSTANTS
  Committers = {c1, c2}
  Artifacts <- Successive
  Keys = {k1, k2}
  EffectIds = {s1, s2}
  s1 = s1
  s2 = s2
  k1 = k1
  k2 = k2
  t1 = t1
  Ids = {t1}
  Bindings <- TwoWorlds
  NoBinding = NoBinding
  NoProc = NoProc
  None = None
  MaxTime = 1
  MaxEpoch = 1
  MaxAttempts = 1
  MaxFaults = 1
INVARIANTS
  AppliedUnderConsent
  ReceiptsTruthful
PROPERTIES
  CommitReturns
CHECK_DEADLOCK FALSE
