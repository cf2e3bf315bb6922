SPECIFICATION EdgeSpec
CONSTANTS
  u1 = u1
  u2 = u2
  r1 = r1
  r2 = r2
  w1 = w1
  w2 = w2
  Global = Global
  NoUpstream = NoUpstream
  Callers = {r1, r2}
  Workers = {w1}
  WorkerOf <- SameWorker
  Upstreams = {u1, u2}
  Names <- BothNames
  Canary = {u2}
  FailureThreshold = 2
  ResetTimeout = 1
  MaxConcurrency = 1
  MaxFaults = 4
  UnhealthyAfter = 2
  HealthyAfter = 2
INVARIANTS
  EdgeTypeOK
  
