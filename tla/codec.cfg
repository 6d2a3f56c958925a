CONSTANTS
  ByteRange = 8
  IntBytes = 2
  Numbers <- SomeNumbers
  Lengths <- SomeLengths
  MaxMessages = 2
  pstr <- TwoBytes
  Hashes <- SomeHashes
  ReservedLen = 1
  NULL = NULL
  FAILED = FAILED
SPECIFICATION Spec
INVARIANTS
  TypeOK
  MessagesArrive
  BlocksAreTold
  DecodedMessageIsRight
  DecodedHandshakeIsRight
CHECK_DEADLOCK FALSE
