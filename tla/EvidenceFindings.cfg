SPECIFICATION EvidenceSpec
CONSTANTS
  v = v
  w = w
  x = x
  y = y
  z = z
  a1 = a1
  a2 = a2
  Contents = {x, y, z}
  Labels = {"a", "b"}
  Inputs <- NoInputs
  Items <- NoItems
  Batch = 1
  Named = {}
  MaxTime = 0
  MaxDamage = 0
  Records <- Twins
  Adders = {a1, a2}
  Wanted <- Successor
  Requests <- MCRequests
  None = None
INVARIANTS
  DuplicateEdgeReturned
  ResolvedIsCurrent
  ResolvedIsUnique
CHECK_DEADLOCK FALSE
