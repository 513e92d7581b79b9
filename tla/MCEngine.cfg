SPECIFICATION Spec
CONSTANT NULL = NULL
INVARIANTS
  ExpressionsRight
  
CHECK_DEADLOCK FALSE
