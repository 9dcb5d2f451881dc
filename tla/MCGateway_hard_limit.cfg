SPECIFICATION Spec
CONSTANTS
  r1 = r1
  r2 = r2
  r3 = r3
  r4 = r4
  b1 = b1
  b2 = b2
  Requests <- Requests4
  Backends <- Backends1
  HardLimit <- TwoEach
  Drained <- NoBackends
  Streaming <- NoRequests
  Large <- NoRequests
  MaxAttempts = 2
  FallbackEnabled = FALSE
  FallbackKey = TRUE
  Outcomes <- FailingOutcomes
  Fallback = Fallback
  NoTarget = NoTarget
  QueueMax = 4
  BatchSize = 2
  OpenThreshold = 5
  HalfOpenMax = 1
  ErrorScale = 100
  ErrorCap = 60
INVARIANT
  LoadWithinHardLimit
