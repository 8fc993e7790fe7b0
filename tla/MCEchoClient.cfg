CONSTANTS
  Payloads <- MCPayloads
  Chunk = 2
  SendCap = 2
SPECIFICATION Spec
\* A client that waits for its user, or for an answer to nothing, may stop.
CHECK_DEADLOCK FALSE
INVARIANTS TypeOK
PROPERTIES EveryReadReturns DepartureNoticed
