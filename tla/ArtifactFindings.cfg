SPECIFICATION LiveSpec
CONSTANTS
  x = x
  y = y
  z = z
  Contents = {x, y, z}
  Labels = {"a", "run1", "run2"}
  Inputs <- Mixed
  Items <- NoItems
  Batch = 1
  Named = {1}
  MaxTime = 1
  MaxDamage = 1
  None = None
INVARIANTS
  NeverLost
  DuplicateAccepted
PROPERTIES
  RetainedUntilDeadline
  DeletedInTime
  CorruptionBlocksDeletion
  CorruptionHoldsUpNothing
CHECK_DEADLOCK FALSE
