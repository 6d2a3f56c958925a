CONSTANTS
  NumPieces = 2
  PieceLength = 4
  FileLength = 8
  BlockSize = 2
  MaxFails = 4
  MaxFaults = 2
  MaxChatter = 1
  Bitfields = {{0, 1}, {0}}
  Tearing = TRUE
  NULL = NULL
SPECIFICATION FairSpec
INVARIANT TypeOK
INVARIANT StoredBlocksAreRight
INVARIANT AlignedAfterBlock
INVARIANT LoopMeansSession
INVARIANT Strengthening
PROPERTY ThreadLeaves
PROPERTY PromptPeerCompletes
PROPERTY ImplementsDownload
