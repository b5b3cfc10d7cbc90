SPECIFICATION Spec
CONSTANTS
  s1 = s1
  s2 = s2
  s3 = s3
  w = w
  Calls = {s1, s2, s3, w}
  ReadOnly = {s1, s2, s3}
  Owing = {w}
  Checking = {}
  Signature <- MCSignature
  ToolOf <- MCToolOf
  MaxSteps = 2
  Hold = 1
  RepeatLimit = 1
  GrantTTL = 0
  LeaseTTL = 1
  MaxDuration = 2
  MaxNow = 2
INVARIANTS
  BudgetIsKept
PROPERTIES
  AdmittedHoldsSlot
  TurnEnds
CHECK_DEADLOCK FALSE
