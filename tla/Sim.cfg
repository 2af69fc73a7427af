SPECIFICATION FairSpec
CONSTANTS
  MsgLen = 7
  SessionLen = 3
  Patterns = {{5, 6}, {7}, {4, 5, 6}}
  Chunk = 7
  Requests = 2
  TcpLen = 2
  ClientMsgs = 2
INVARIANTS TypeOK Framed StreamFramed
PROPERTIES Heeded
\* The client has nothing more to say.
CHECK_DEADLOCK FALSE
