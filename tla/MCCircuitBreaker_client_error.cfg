SPECIFICATION FairSpec
CONSTANTS
  s1 = s1
  s2 = s2
  s3 = s3
  Slots <- Slots2
  Limit = 2
  Outcomes <- OutcomesWith4xx
  OpenThreshold = 2
  HalfOpenMax = 1
  ErrorScale = 100
  ErrorCap = 100
PROPERTY ProbesAreDecided
