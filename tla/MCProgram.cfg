CONSTANTS
  NULL = NULL
  MaxFds = 5
  Size = 2
  MaxFailures = 1
  SaveAllWrites = FALSE
  FileModes <- AllModes
  Paths = {"A", "c"}
  OpenFlags <- TestFlags
  Perms <- TestPerms
  CallFds <- TestFds
  Buffers <- TestBuffers
  SeekOffsets <- TestOffsets
  MaxCount = 2
  MaxCalls = 5
SPECIFICATION Spec
INVARIANTS ReadsBack   PathsRight ComputesRight
PROPERTIES  UnlinkedNotReopened
CHECK_DEADLOCK FALSE
