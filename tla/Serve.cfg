SPECIFICATION Spec
CONSTANTS
  c1 = c1
  c2 = c2
  k1 = k1
  i1 = i1
  i2 = i2
  Calls <- MCCalls
  Cancels <- MCCancels
  Ids <- MCIds
  MaxRetained = 2
  MaxBytes = 3
  RESERVED = 2
SYMMETRY MCSymmetry
INVARIANTS WindowBounded OneRunPerId ExitHonest NoLostWake
