CONSTANTS
  Configs = {v0, v1}
  Snapshots = {v0, v1}
  Seed = v0
  NoSnapshot = none
  Requests = {q1}
  Edges = {e1}
  Agents = {e1}
  HistoryLimit = 2
  RingCap = 1
  ChannelCap = 1
  MaxMutations = 1
  MaxCrashes = 0
  MaxDbFaults = 0
  MaxBreaks = 1
  MaxNetFaults = 1
  MaxRestarts = 0
  MaxFaults = 0
SPECIFICATION FairSpec
PROPERTIES
  SnapshotConverges
