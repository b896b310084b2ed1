SPECIFICATION FairSpec
CONSTANTS
  Files <- MCFiles
  Contents <- MCFatalContents
  MayFail = FALSE
  ChanBuf = 0
  FSMayFail = FALSE
  MaxReloads = 2
PROPERTIES
  ReloadReturns
\* a reader that has been closed does nothing more
CHECK_DEADLOCK FALSE
