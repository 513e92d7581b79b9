CONSTANTS
  Abstracts = {a1, a2}
  Variants = {v1, v2}
  NumBranches = 2
  NULL = NULL
SPECIFICATION LoopSpec
INVARIANT
  OnlyThisExecutionGivenUp
