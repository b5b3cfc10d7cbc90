SPECIFICATION FairSpec
CONSTANTS
  there = there
  again = again
  closing = closing
  source = source
  target = target
  Moves = {there, again}
  Closings = {closing}
  Startup = startup
  Models = {source, target}
  Source = source
  Target <- MCTarget
  Loads = {there, again}
  HandsOver = {there}
  None = None
  MaxGoing = 2
  MaxEdits = 1
  MaxCrashes = 1
  MaxBadWrites = 1
INVARIANTS
  RecordTellsBinding
  MovesLeaveAModel
PROPERTIES
  SweptAtStart
CHECK_DEADLOCK FALSE
