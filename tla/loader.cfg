SPECIFICATION Spec
CONSTANTS
  Logdir <- MCLogdir
  Dirs <- MCDirs
  MaxChanges = 3
INVARIANTS
  TypeOK
  MapsAgree
  ReloadComplete
  AllRunsFound
PROPERTIES
  ReadersUsedInTurn
  ReloadEnds
  ServesTheDisk
  ImplementsRunMap
\* a closed loader, and one whose discovery has failed, does nothing more
CHECK_DEADLOCK FALSE
