CONSTANTS
  MaxThreads = 3
  Mutexes = {m1}
  Conds = {c1}
  Barriers = {b1}
  BarrierCounts = {2}
  NoObject = NoObject
  Fuel = 3
SPECIFICATION FuelSpec
PROPERTY DeadlockReported
