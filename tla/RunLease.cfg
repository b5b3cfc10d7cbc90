SPECIFICATION LeaseSpec
CONSTANTS
  d1 = d1
  d2 = d2
  d3 = d3
  d4 = d4
  p1 = p1
  p2 = p2
  p3 = p3
  Drivers = {d1, d2, d3, d4}
  Processes = {p1, p2, p3}
  HostOf <- MCHostOf
  Term = 2
  MaxNow = 5
  MaxClaims = 5
INVARIANTS
  OneDriverWithinTerm
PROPERTIES
  ReleasedByHolder
CHECK_DEADLOCK FALSE
