SPECIFICATION Spec
CONSTANTS
  r1 = r1
  r2 = r2
  r3 = r3
  o1 = o1
  o2 = o2
  c1 = c1
  c2 = c2
  Tasks = {t1, t2}
  Consumers = {c1, c2}
  Runners = {r1, r2, r3}
  ConsumerOf <- SecondConsumer
  OwnerOf <- ThirdOwner
  Owners = {o1, o2}
  NoOwner = NoOwner
  BatchSize = 1
  MaxSequence = 3
  MaxFence = 3
  Pollers = {r1, r2, r3}
CONSTRAINT Bounds
SYMMETRY Symmetry
INVARIANTS
  ViewIsReplay
PROPERTIES
  DeliveredOnce
  RebuildComplete
  LeaseContract
