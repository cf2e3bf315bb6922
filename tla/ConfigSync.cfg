CONSTANTS
  Configs = {v0, v1}
  Snapshots = {v0, v1}
  Seed = v0
  NoSnapshot = none
  Requests = {q1, q2}
  Edges = {e1}
  Agents = {e1}
  HistoryLimit = 2
  RingCap = 1
  ChannelCap = 1
  MaxMutations = 2
  MaxCrashes = 1
  MaxDbFaults = 1
  MaxBreaks = 1
  MaxNetFaults = 0
  MaxRestarts = 1
  MaxFaults = 1
SPECIFICATION Spec
SYMMETRY RequestSymmetry
INVARIANTS
  TypeOK
  HistoryUsable
  
  EdgeNeverAhead
  NoMissedRevision
PROPERTIES
  FileRevisionMonotone
