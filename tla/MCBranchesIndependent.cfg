SPECIFICATION Spec
CONSTANT NULL = NULL
INVARIANT BranchesIndependent
CHECK_DEADLOCK FALSE
