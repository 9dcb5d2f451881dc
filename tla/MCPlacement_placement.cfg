SPECIFICATION Spec
CONSTANTS
  s1 = s1
  s2 = s2
  b1 = b1
  b2 = b2
  Order <- TwoBackends
  SoftLimit <- OneEach
  HardLimit <- TwoAndOne
  MaxAttempts = 2
  Slots <- Slots2
  Bodies <- MixedBodies
  Samples <- FastAndSlow
  TtftCap = 1
  Steady = 1
  WindowMax = 2
  LeakMax = 1
  NoJob = NoJob
  Nowhere = Nowhere
  NoCap = NoCap
  InfCap = InfCap
  NoList = NoList
  OddList = OddList
  NoText = NoText
  InflightWeight = 16
  TtftWeight = 600
  E2eWeight = 400
  ErrorWeight = 200
  HotWeight = 4000
  HotTarget = 55
  OverloadWeight = 30
  OpenThreshold = 1
  HalfOpenMax = 1
  ErrorScale = 5
  ErrorCap = 1
SYMMETRY SlotSymmetry
INVARIANT TypeOK
PROPERTIES NeverToTheWorse NoMonopoly ExclusionIsForGood
CHECK_DEADLOCK FALSE
