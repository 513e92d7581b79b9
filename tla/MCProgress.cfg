CONSTANTS
  MaxThreads = 3
  Mutexes = {m1, m2}
  Conds = {c1}
  Barriers = {b1}
  BarrierCounts = {2}
  NoObject = NoObject
  Fuel = 3
SPECIFICATION FuelSpec
PROPERTY RunEnds
