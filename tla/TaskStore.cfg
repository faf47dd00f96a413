SPECIFICATION Spec
CONSTANTS
  s1 = s1
  s2 = s2
  Tasks = {1, 2}
  Sessions = {s1, s2}
  Keys = {k1}
  AttemptLimits = {2}
  Capable <- MCCapable
  SlowWorkers = {s1, s2}
  Reliable = {}
  LegacyTasks = {1}
  NoSession = NoSession
  NoKey = NoKey
  System = System
CONSTRAINT KeysAlone
SYMMETRY Symmetry
INVARIANTS
  TypeOK
  OwnershipAgrees
  AttemptsBudget
  ClaimedAfterDependencies
  TablesAgree
PROPERTIES
  WorkerMutationsFenced
  TerminalForever
  LeaseContract
