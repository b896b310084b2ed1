SPECIFICATION Spec
CONSTANTS
  Logdir <- MCLogdir
  Dirs <- MCDirs
  MaxChanges = 3
PROPERTIES
  ReloadReturns
\* a loader whose discovery has failed does nothing more
CHECK_DEADLOCK FALSE
