SPECIFICATION ApprovalFairSpec
CONSTANTS
  a = a
  b = b
  r1 = r1
  t1 = t1
  p1 = p1
  write = write
  Calls = {a, b}
  Runs = {r1}
  RunOf <- MCRunOf
  Earlier <- MCEarlier
  Threads = {t1}
  Thread <- MCThread
  Tools = {write}
  Tool <- MCTool
  People = {p1}
  Pending = Pending
  Nothing = Nothing
  MaxDeaths = 1
INVARIANTS
  AnswersAreHonoured
  RecordsAgree
PROPERTIES
  WaitEnds
CHECK_DEADLOCK FALSE
