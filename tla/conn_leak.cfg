CONSTANTS
  BufSize = 2
  MaxCalls = 3
  MaxUnits = 3
SPECIFICATION Spec
INVARIANT AbortedIsClosed
