CONSTANTS
  NumPieces = 3
  NumPeers = 2
  MaxFails = 2
  Unreliable <- Peer
  Announced <- HalvesBitfield
  NULL = NULL
SPECIFICATION FairSpec
INVARIANTS
  TypeOK
  ExclusivePieces
  NoPieceLost
  DoneMeansDownloaded
  StoredFromAnnouncer
  NoUseAfterFree
  PoolAccessInBounds
  Strengthening
PROPERTIES
  StoredOnce
  Terminates
  ReliablePeersComplete
  ImplementsDownload
