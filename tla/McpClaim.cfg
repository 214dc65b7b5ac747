CONSTANTS
  g1 = g1
  g2 = g2
  i1 = i1
  i2 = i2
  Gateways = {g1, g2}
  Ids = {i1, i2}
  NoId = NoId
  NoBinding = NoBinding
  Bindings <- OneEffect
  Ttl = 1
  MaxTime = 1
  MaxCrashes = 1
SPECIFICATION FairSpec
INVARIANTS TypeOK OnceForwarded ExecutedMeansReplied CautionGiven
PROPERTIES ImplementsSingleUse CallAnswered
CHECK_DEADLOCK FALSE
