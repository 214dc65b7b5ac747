SPECIFICATION Spec
CONSTANTS
  Committers = {c1, c2}
  Artifacts <- Contested
  Keys = {k1, k2}
  EffectIds = {s1, s2}
  s1 = s1
  s2 = s2
  k1 = k1
  k2 = k2
  t1 = t1
  Ids = {t1}
  Bindings <- OneWorld
  NoBinding = NoBinding
  NoProc = NoProc
  None = None
  MaxTime = 1
  MaxEpoch = 0
  MaxAttempts = 1
  MaxFaults = 1
SYMMETRY AlikeCommitters
INVARIANTS
  TypeOK
  AtMostOnceApplied
  AppliedUnderConsent
  AttemptsDistinct
  KeyOwnedByStaged
PROPERTIES
  ImplementsReservedEffect
CHECK_DEADLOCK FALSE
