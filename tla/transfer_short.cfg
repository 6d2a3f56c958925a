CONSTANTS
  NumPieces = 2
  PieceLength = 4
  FileLength = 7
  BlockSize = 2
  MaxFails = 4
  MaxFaults = 0
  MaxChatter = 0
  Bitfields = {{0, 1}}
  Tearing = FALSE
  NULL = NULL
SPECIFICATION Spec
INVARIANT RequestsLieInFile
