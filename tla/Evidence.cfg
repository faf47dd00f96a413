SPECIFICATION EvidenceLiveSpec
CONSTANTS
  v = v
  w = w
  x = x
  y = y
  z = z
  a1 = a1
  a2 = a2
  Contents = {x, y, z}
  Labels = {"a", "b"}
  Inputs <- MCInputs
  Items <- MCItems
  Batch = 1
  Named = {1}
  MaxTime = 1
  MaxDamage = 1
  Records <- MCRecords
  Adders = {a1, a2}
  Wanted <- MCWanted
  Requests <- MCRequests
  None = None
INVARIANTS
  ReferencedKept
  LineageHolds
PROPERTIES
  DeletionIsEarned
  SweepsFinish
CHECK_DEADLOCK FALSE
