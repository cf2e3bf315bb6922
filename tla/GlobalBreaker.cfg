SPECIFICATION EdgeFairSpec
CONSTANTS
  u1 = u1
  u2 = u2
  r1 = r1
  r2 = r2
  w1 = w1
  w2 = w2
  Global = Global
  NoUpstream = NoUpstream
  Callers = {r1, r2}
  Workers = {w1, w2}
  WorkerOf <- TwoWorkers
  Upstreams = {u1}
  Names <- OneName
  Canary = {}
  FailureThreshold = 2
  ResetTimeout = 0
  MaxConcurrency = 1
  MaxFaults = 2
  UnhealthyAfter = 1
  HealthyAfter = 1
PROPERTY
  GlobalRecovers
