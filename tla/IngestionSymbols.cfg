SPECIFICATION Spec
CONSTANTS
  f = f
  g = g
  text = text
  k1 = k1
  k2 = k2
  k3 = k3
  NumPaths = 2
  Contents = {f, text}
  SymbolsOf <- MCSymbolsAndText
  Keys = {k1, k2}
  Requests <- FreeOnly
  Clients = {1}
  InitialTrees <- Full
  Workers = {1}
  Reliable = {1}
  BatchSize = 2
  MaxEdits = 1
  MaxFence = 2
  NoFile = NoFile
  None = None
INVARIANT NoStaleSymbols
CHECK_DEADLOCK FALSE
