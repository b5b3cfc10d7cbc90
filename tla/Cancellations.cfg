SPECIFICATION CancelFairSpec
CONSTANTS
  fresh = fresh
  again = again
  c = c
  r1 = r1
  r2 = r2
  Turns = {fresh, again}
  Ids = {c, r1, r2}
  Correlation <- MCCorrelation
  RunId <- MCRunId
  Resumptions = {again}
  NoId = NoId
  MaxRemembered = 2
  NoTurn = NoTurn
INVARIANTS
  StopIsNotLost
  EitherIdReaches
PROPERTIES
  StoppedTurnEnds
CHECK_DEADLOCK FALSE
