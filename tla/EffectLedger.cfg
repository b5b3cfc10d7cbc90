SPECIFICATION Spec
CONSTANTS
  a1 = a1
  a2 = a2
  a3 = a3
  p1 = p1
  k1 = k1
  k2 = k2
  create = create
  overwrite = overwrite
  Attempts = {a1, a2, a3}
  Keys = {k1, k2}
  Calls = {create, overwrite}
  Presents <- MCPresents
  NoCall = NoCall
  Processes = {p1}
  HostOf <- MCHostOf
  MaxFaults = 1
INVARIANTS
  AtMostOnce
  AnswerIsTrue
  StatusIsTrue
PROPERTIES
  ImplementsAtMostOnce
SYMMETRY MCSymmetry
