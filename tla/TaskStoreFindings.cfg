SPECIFICATION Spec
CONSTANTS
  s1 = s1
  s2 = s2
  Tasks = {1}
  Sessions = {s1, s2}
  Keys = {}
  AttemptLimits = {2, 3}
  Capable <- MCCapable
  SlowWorkers = {s1, s2}
  Reliable = {}
  LegacyTasks = {1}
  NoSession = NoSession
  NoKey = NoKey
  System = System
SYMMETRY Symmetry
INVARIANT TerminalFreesSessions
PROPERTY LiveLeaseNotDeadLettered
