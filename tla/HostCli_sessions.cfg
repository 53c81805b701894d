CONSTANTS
  CommandLines <- MCCommandLines
  h1 = h1
  h2 = h2
  Hosts = {h1, h2}
  Retries = 2
  Backlog = 2
  MaxMsgs = 2
  MaxStalls = 1
  NoConn = none
SPECIFICATION Spec
INVARIANTS HearsInOrder RepliesMatchCalls
PROPERTIES SessionsEnd Delivered
CHECK_DEADLOCK FALSE
