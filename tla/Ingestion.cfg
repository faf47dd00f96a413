SPECIFICATION LiveSpec
CONSTANTS
  f = f
  g = g
  text = text
  k1 = k1
  k2 = k2
  k3 = k3
  NumPaths = 2
  Contents = {f, g}
  SymbolsOf <- MCSymbols
  Keys = {k1, k2}
  Requests <- BoundOnly
  Clients = {1}
  InitialTrees <- EmptyOrFull
  Workers = {1, 2}
  Reliable = {1}
  BatchSize = 2
  MaxEdits = 1
  MaxFence = 2
  NoFile = NoFile
  None = None
INVARIANTS
  IndexFollowsJobs
PROPERTIES
  JobsAdvance
  JobsFinish
CHECK_DEADLOCK FALSE
