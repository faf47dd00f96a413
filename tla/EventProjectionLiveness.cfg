SPECIFICATION LiveSpec
CONSTANTS
  r1 = r1
  r2 = r2
  r3 = r3
  o1 = o1
  o2 = o2
  c1 = c1
  c2 = c2
  Tasks = {t1}
  Consumers = {c1}
  Runners = {r1, r2}
  ConsumerOf <- OneConsumer
  OwnerOf <- TwoOwners
  Owners = {o1, o2}
  NoOwner = NoOwner
  BatchSize = 1
  MaxSequence = 2
  MaxFence = 2
  Pollers = {r2}
PROPERTY CatchesUp
