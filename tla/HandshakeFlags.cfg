SPECIFICATION Spec
CONSTANTS
  a = a
  b = b
  Nodes <- MCNodes
  AddrRank <- MCAddrRank
  SockRank <- MCSockRank
  MaxAttempts = 1
  MaxStarts = 1
  MaxFailures = 1
INVARIANT FlagsCleared
CHECK_DEADLOCK FALSE
