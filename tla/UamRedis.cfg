SPECIFICATION FairSpec
CONSTANTS
  c1 = c1
  c2 = c2
  Calls = {c1, c2}
  WindowSecs = 2
  MinSamples = 5
  ConsecutiveFailOpen = 3
  ConsecutiveTimeoutOpen = 2
  ErrorRateOpen = 50
  TimeoutRateOpen = 40
  ErrorRateRecovery = 10
  OpenCooldown = 1
  CooldownJitter = 1
  HalfOpenProbes = 2
  RecoverySuccesses = 2
  MaxInflight = 1
  HalfOpenMax = 2
  OperationTimeout = 1
  HistBands = 2
  P99Open = 2
  P99Recovery = 1
  Settlements <- SomeSettlements
  MaxPerTick = 1
  MaxLate = 1
INVARIANTS
  TypeOK
  InflightExact
PROPERTIES
  ImplementsBreaker
  ClosesOverQuietWindow
  HalfOpenEnds
  
