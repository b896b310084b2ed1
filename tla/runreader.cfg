SPECIFICATION FairSpec
CONSTANTS
  Files <- MCFiles
  Contents <- MCContents
  MayFail = TRUE
  ChanBuf = 1
  FSMayFail = TRUE
  MaxReloads = 2
INVARIANTS
  TypeOK
  Relayed
  ReadToEOF
  FirstMetadata
  FileOpenWhileRead
PROPERTIES
  OneFileInOrder
  ImplementsRunSource
  ReloadReturnsUnlessFatal
  ClosedReadersEnd
\* a reader that has been closed does nothing more
CHECK_DEADLOCK FALSE
