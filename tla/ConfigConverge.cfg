CONSTANTS
  Configs = {v0}
  Snapshots = {v0}
  Seed = v0
  NoSnapshot = none
  Requests = {q1, q2}
  Edges = {e1}
  Agents = {e1}
  HistoryLimit = 2
  RingCap = 1
  ChannelCap = 1
  MaxMutations = 2
  MaxCrashes = 0
  MaxDbFaults = 0
  MaxBreaks = 1
  MaxNetFaults = 1
  MaxRestarts = 0
  MaxFaults = 1
SPECIFICATION FairSpec
PROPERTIES
  RevisionConverges
