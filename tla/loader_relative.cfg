SPECIFICATION Spec
CONSTANTS
  Logdir <- MCRelativeLogdir
  Dirs <- MCRelativeDirs
  MaxChanges = 3
INVARIANTS
  AllRunsFound
\* a closed loader, and one whose discovery has failed, does nothing more
CHECK_DEADLOCK FALSE
