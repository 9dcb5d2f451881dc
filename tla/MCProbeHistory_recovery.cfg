SPECIFICATION HFairSpec
CONSTANTS
  s1 = s1
  s2 = s2
  s3 = s3
  Slots <- Slots2
  Limit = 2
  Outcomes <- CleanOutcomes
  OpenThreshold = 2
  HalfOpenMax = 1
  ErrorScale = 100
  ErrorCap = 100
PROPERTIES RecoveryTraffic ProbesAreDecided
