CONSTANTS
  Payloads <- MCPayloads
  Chunk = 2
  SendCap = 2
SPECIFICATION FairSpec
\* A client that has sent all it had, or has left, leaves the server waiting.
CHECK_DEADLOCK FALSE
INVARIANTS TypeOK NoStrandedInput EchoAccounted EchoInOrder
PROPERTIES EchoArrives
