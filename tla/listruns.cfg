SPECIFICATION Spec
CONSTANTS
  Logdir <- MCLogdir
  Dirs <- MCDirs
  Scenarios <- MCListRuns
  CapacityOf <- MCCapacityOf
  FloatBits = 2
  IntBits = 4
  BatchSize = 2
  MaxChanges = 2
INVARIANTS
  ListRunsAnswers
\* a server does nothing more when it has panicked or all calls are answered
CHECK_DEADLOCK FALSE
