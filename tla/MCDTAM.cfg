CONSTANTS
  w1 = w1
  x = x
  Reads = {r1, r2}
  Writes = {w1, w2}
  Vars = {x, y}
  NumThreads = 2
  Clocks <- SmallClocks
SPECIFICATION MCSpec
INVARIANTS
  DTAMTypeOK
  ParallelExact
  HybridExact
  HybridBetween
