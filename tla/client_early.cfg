CONSTANTS
  NumPieces = 2
  NumPeers = 2
  MaxFails = 2
  Unreliable <- Peer
  Announced <- AnyBitfield
  NULL = NULL
SPECIFICATION Spec
INVARIANT IncompleteOnlyAfterMaxFails
