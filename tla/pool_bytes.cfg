CONSTANTS
  t1 = t1
  t2 = t2
  NumPieces = 9
  Thread <- TwoThreads
  NULL = NULL
SPECIFICATION Spec
INVARIANT TypeOK
INVARIANT MutualExclusion
INVARIANT LoopState
PROPERTY Linearizable
