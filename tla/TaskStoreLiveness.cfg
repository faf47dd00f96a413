SPECIFICATION LiveSpec
CONSTANTS
  s1 = s1
  s2 = s2
  Tasks = {1, 2}
  Sessions = {s1, s2}
  Keys = {}
  AttemptLimits = {2}
  Capable <- MCSpecialised
  SlowWorkers = {}
  Reliable = {s1}
  LegacyTasks = {}
  NoSession = NoSession
  NoKey = NoKey
  System = System
PROPERTY TasksSettle
