CONSTANTS
  NumPieces = 2
  PieceLength = 4
  FileLength = 8
  BlockSize = 2
  MaxFails = 8
  MaxFaults = 1
  MaxChatter = 0
  Bitfields = {{0, 1}}
  Tearing = FALSE
  NULL = NULL
SPECIFICATION FairSpec
PROPERTY Completes
