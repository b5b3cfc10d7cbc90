SPECIFICATION ServersFairSpec
CONSTANTS
  chat = chat
  ocr = ocr
  turn = turn
  worker = worker
  worker2 = worker2
  ServedModels = {chat, ocr}
  Callers = {worker, worker2, turn}
  Wants <- MCWants
  Looks = {worker, worker2, turn}
  Workers = {worker, worker2}
  Size <- MCSize
  Room = 3
  Headroom = 1
  Slots = 2
  MaxServers = 4
  MaxDeaths = 1
INVARIANTS
  ServersAreAccountedFor
PROPERTIES
  EveryCallEnds
  CardHoldersTakeTurns
CHECK_DEADLOCK FALSE
