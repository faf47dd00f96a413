SPECIFICATION Spec
CONSTANTS
  write = write
  deploy = deploy
  granted = granted
  Callers = {c1, c2}
  Keys = {write}
  ModeOf <- Mode
  HashOf <- Hash
  NoKey = NoKey
INVARIANTS
  ApprovedRunsOnce
