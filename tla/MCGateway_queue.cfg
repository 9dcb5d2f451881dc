SPECIFICATION Spec
CONSTANTS
  r1 = r1
  r2 = r2
  r3 = r3
  r4 = r4
  b1 = b1
  b2 = b2
  Requests <- Requests4
  Backends <- Backends2
  HardLimit <- TwoEach
  Drained <- JustB2
  Streaming <- JustR1
  Large <- JustR1
  MaxAttempts = 1
  FallbackEnabled = TRUE
  FallbackKey = FALSE
  Outcomes <- SafeOutcomes
  Fallback = Fallback
  NoTarget = NoTarget
  QueueMax = 3
  BatchSize = 2
  OpenThreshold = 1
  HalfOpenMax = 1
  ErrorScale = 1
  ErrorCap = 1
INVARIANTS
  QueueBounded
  ExactlyOnePlace
  EveryDispatchCounted
  LoadWithinHardLimit
  DrainedUnused
PROPERTIES
  OrderKept
  OvertakenOnlyByProbe
  NoLateDispatch
