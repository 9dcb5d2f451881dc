SPECIFICATION HSpec
CONSTANTS
  s1 = s1
  s2 = s2
  s3 = s3
  Slots <- Slots3
  Limit = 2
  Outcomes <- AllOutcomes
  OpenThreshold = 2
  HalfOpenMax = 1
  ErrorScale = 100
  ErrorCap = 60
INVARIANTS TypeOK CircuitConsistent CountWithinLimit PhaseProbesCounted
PROPERTIES CircuitFollowsDiagram NothingSentDuringCooldown
