CONSTANTS
  BufSize = 2
  MaxCalls = 3
  MaxUnits = 3
SPECIFICATION FairSpec
INVARIANT TypeOK
INVARIANT HelperInsideCall
INVARIANT PositiveIsExact
INVARIANT Strengthening
PROPERTY CallsReturn
