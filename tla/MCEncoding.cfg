SPECIFICATION Spec
CONSTANT NULL = NULL
INVARIANTS
  
  SolutionsRun
  RunsAreSolutions
  
  
CONSTRAINT Started
CHECK_DEADLOCK FALSE
