SPECIFICATION ValidationSpec
CONSTANTS
  f = f
  g = g
  k1 = k1
  NumPaths = 1
  Contents = {f, g}
  SymbolsOf <- MCSymbols
  Keys = {"r1", k1}
  Requests <- HandoffRequests
  Clients = {1}
  InitialTrees <- AppliedOrEdited
  Workers = {1}
  Reliable = {1}
  BatchSize = 1
  MaxEdits = 1
  MaxFence = 1
  Runs = {"r1"}
  ValidationRequests <- Caused
  Callers = {1, 2}
  Steady = {1}
  Expected <- MCExpected
  AppliedFence = 0
  NoFile = NoFile
  None = None
INVARIANT
  PendingResumable
CHECK_DEADLOCK FALSE
