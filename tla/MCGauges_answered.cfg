SPECIFICATION GFairSpec
CONSTANTS
  r1 = r1
  r2 = r2
  r3 = r3
  r4 = r4
  b1 = b1
  b2 = b2
  Requests <- Requests2
  Backends <- Backends2
  HardLimit <- OneEach
  Drained <- NoBackends
  Streaming <- JustR1
  Large <- JustR1
  MaxAttempts = 2
  FallbackEnabled = TRUE
  FallbackKey = TRUE
  Outcomes <- AllOutcomes
  Fallback = Fallback
  NoTarget = NoTarget
  QueueMax = 1
  BatchSize = 1
  OpenThreshold = 1
  HalfOpenMax = 1
  ErrorScale = 1
  ErrorCap = 1
INVARIANTS
  QueueShown
  PhantomsAreLeaks
PROPERTIES
  GaugesCatchUp
  EveryRequestAnswered
  HandlersAdvance
  ImplementsLifecycle
