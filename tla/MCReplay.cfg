SPECIFICATION Spec
CONSTANTS
  NULL = NULL
  LastThreadId = 3
  ClockSize = 4
  MaxCalls <- FewCalls
  NONE = NONE
  t1 = t1
  t2 = t2
  x = x
  y = y
INVARIANTS
  ClocksExact
  RecordedSatisfies
  
  BranchesCollected
  AddressesUnpadded
  SlicesSound
SYMMETRY Symmetry
CHECK_DEADLOCK FALSE
