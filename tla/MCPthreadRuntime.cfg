CONSTANTS
  MaxThreads = 3
  Mutexes = {m1, m2}
  Conds = {c1}
  Barriers = {b1}
  BarrierCounts = {0, 2, 3}
  NoObject = NoObject
SPECIFICATION Spec
INVARIANTS TypeOK QueueExact RegisteredWhereBlocked NeverBroken
PROPERTIES ImplementsPthreads
