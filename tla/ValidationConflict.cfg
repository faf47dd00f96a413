SPECIFICATION ValidationLiveSpec
CONSTANTS
  f = f
  g = g
  k1 = k1
  NumPaths = 1
  Contents = {f, g}
  SymbolsOf <- MCSymbols
  Keys = {"r1", "r2"}
  Requests <- HandoffRequests
  Clients = {}
  InitialTrees <- Applied
  Workers = {1}
  Reliable = {1}
  BatchSize = 1
  MaxEdits = 0
  MaxFence = 1
  Runs = {"r1", "r2"}
  ValidationRequests <- Untasked
  Callers = {1, 2}
  Steady = {1}
  Expected <- MCExpected
  AppliedFence = 0
  NoFile = NoFile
  None = None
PROPERTY
  EquivalentHandoffSettles
CHECK_DEADLOCK FALSE
