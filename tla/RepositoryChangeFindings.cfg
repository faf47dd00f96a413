SPECIFICATION Spec
CONSTANTS
  a = a
  b = b
  Paths = {a, b}
  Proposals = {p1}
  Approvals = {a1, a2}
  Applications = {k1, k2}
  Drives = {d1, d2}
  Packets <- EveryType
  ModesAllowed = {"required", "automatic", "denied"}
  Edits <- Foreign
  MaxEdits = 1
  MaxFence = 1
  MaxCrashes = 1
  NoFile = NoFile
  None = None
INVARIANTS
  ConflictedLeavesNothing
  ExecutedIsApplied
PROPERTIES
  ExpiredAdmitsNothing
CHECK_DEADLOCK FALSE
