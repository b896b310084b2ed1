SPECIFICATION Spec
CONSTANTS
  Clients = {h1, h2}
  Tags = {"a", "b", "unseen"}
  Streams <- MCStreams
  CapacityOf <- MCCapacityOf
INVARIANTS
  TypeOK
  ListedTagHasData
  AgreesWithReader
  SeriesFollowStream
  HistogramsWhole
PROPERTIES
  ImplementsTagStore
