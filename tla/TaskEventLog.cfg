SPECIFICATION Spec
CONSTANTS
  w1 = w1
  w2 = w2
  w3 = w3
  p1 = p1
  p2 = p2
  Writers = {w1, w2, w3}
  Processes = {p1, p2}
  HostOf <- MCHostOf
  FreshTypes <- MCFreshTypes
  KeyedEvents <- MCKeyedEvents
  EffectKeys = {"key"}
  MaxEvents = 4
INVARIANTS
  HistoryIsSound
  ViewsAgree
PROPERTIES
  SnapshotNeverBackwards
CHECK_DEADLOCK FALSE
