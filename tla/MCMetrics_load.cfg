SPECIFICATION MSpec
CONSTANTS
  r1 = r1
  r2 = r2
  r3 = r3
  r4 = r4
  b1 = b1
  b2 = b2
  Requests <- Requests3
  Backends <- Backends2
  HardLimit <- TwoAndOne
  Drained <- NoBackends
  Streaming <- JustR1
  Large <- JustR1
  MaxAttempts = 2
  FallbackEnabled = TRUE
  FallbackKey = TRUE
  Outcomes <- SafeOutcomes
  Fallback = Fallback
  NoTarget = NoTarget
  QueueMax = 1
  BatchSize = 1
  OpenThreshold = 1
  HalfOpenMax = 1
  ErrorScale = 100
  ErrorCap = 60
INVARIANTS
  TypeOK
  TargetHeld
  CircuitsConsistent
  CountWithinLimit
  NoPhantomLoad
  AttemptsAccounted
  RejectionsAccounted
  RetriesCounted
  OverrunAccounted
PROPERTIES
  RetryGoesElsewhere
  EachBackendIsABreaker
