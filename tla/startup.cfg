CONSTANTS
  HashLength = 2
  SizeRange = 256
  AddrSize = 1
  PortSize = 2
  MaxChunks = 2
  NULL = NULL
  Symbol <- SomeSymbols
  Torrents <- SomeTorrents
  Replies <- SomeReplies
  Readings <- SomeReadings
  Tails <- SomeTails
SPECIFICATION FairSpec
INVARIANTS
  TypeOK
  FieldsAreRight
  CutFileRefused
  PeersAreRight
  OneChunkIsRead
PROPERTIES
  StartupEnds
