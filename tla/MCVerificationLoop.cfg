CONSTANTS
  Abstracts = {a1, a2}
  Variants = {v1, v2}
  NumBranches = 2
  NULL = NULL
SPECIFICATION FairLoopSpec
INVARIANTS
  LoopTypeOK
  SameExecution
  NoPrefixLost
  AnalysedOnce
  BugReplayedNext
PROPERTY
  SearchEnds
