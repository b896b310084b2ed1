SPECIFICATION Spec
CONSTANTS
  Contents <- MCContents
  HeaderLength = 2
  FooterLength = 2
  UintSize = 16
  IntSize = 4
  MayFail = TRUE
  MaxRecords = 3
INVARIANTS
  TypeOK
  Framed
PROPERTIES
  ImplementsEventStream
  EveryRecordDelivered
\* a dead reader does nothing more
CHECK_DEADLOCK FALSE
