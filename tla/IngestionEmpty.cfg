SPECIFICATION Spec
CONSTANTS
  f = f
  g = g
  text = text
  k1 = k1
  k2 = k2
  k3 = k3
  NumPaths = 2
  Contents = {f, g}
  SymbolsOf <- MCSymbols
  Keys = {k1, k2}
  Requests <- FreeOnly
  Clients = {1}
  InitialTrees <- Empty
  Workers = {1, 2}
  Reliable = {1}
  BatchSize = 2
  MaxEdits = 0
  MaxFence = 2
  NoFile = NoFile
  None = None
PROPERTY FinishedByHolder
CHECK_DEADLOCK FALSE
