CONSTANTS
  HashLength = 2
  SizeRange = 256
  AddrSize = 1
  PortSize = 2
  MaxChunks = 1
  NULL = NULL
  Symbol <- SomeSymbols
  Torrents <- Trackerless
  Replies <- SomeReplies
  Readings <- SomeReadings
  Tails <- SomeTails
SPECIFICATION Spec
INVARIANT TrueMeansFilled
