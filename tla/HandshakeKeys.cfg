SPECIFICATION Spec
CONSTANTS
  a = a
  b = b
  Nodes <- MCNodes
  AddrRank <- MCAddrRank
  SockRank <- MCSockRank
  MaxAttempts = 1
  MaxStarts = 1
  MaxFailures = 0
INVARIANT KeysAgree
CHECK_DEADLOCK FALSE
