SPECIFICATION Spec
CONSTANTS
  r1 = r1
  r2 = r2
  h = h
  Attempts <- MCAttempts
  RunAttempts <- MCRun
  Amounts = {1, 2}
  Periods <- MCPeriods
  Cap = 3
  RunCap = 2
  MaxCharge = 4
  OldCap = 2
  Kinds <- MCKinds
  Old = h
  Bound <- MCBound
  Costs = {1, 3}
  Wide <- MCWide
  MaxSeq = 3
  MaxFaults = 1
  MaxCrashes = 1
INVARIANT SentIsDurable
