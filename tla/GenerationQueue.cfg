SPECIFICATION QueueFairSpec
CONSTANTS
  Requests <- MCRequests
  Streamed <- MCStreamed
  Chats <- MCChats
  Chunks = 2
  MaxTokens = 3
  MaxSwaps = 2
INVARIANTS
  QueueTypeOK
  StopsAsAsked
  ReaderGetsAFinalChunk
PROPERTIES
  EveryReaderIsAnswered
CHECK_DEADLOCK FALSE
