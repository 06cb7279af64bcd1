SPECIFICATION Spec
CONSTANTS
  N = 2
  MaxInFlight = 2
  MaxRerun = 1
  Bound = 1
  Charges <- MCCharges
  Results <- MCResults
  Given <- MCGiven
  MaxStarts = 2
  MaxCrashes = 1
  MaxFaults = 1
  Attempts <- MCAttempts
  RunAttempts <- MCAttempts
  Amounts = {1}
  Periods <- MCPeriods
  Cap = 4
  RunCap = 2
  MaxCharge = 5
  MaxSeq = 27
INVARIANTS OnceUnderOneId CompletedKept ReportHonest
