SPECIFICATION FairSpec
CONSTANTS
  a = a
  b = b
  Nodes <- MCNodes
  Conns <- MCConns
  Ends <- MCEnds
  EventSlots = 1
  MaxRequests = 2
  MaxFaults = 2
INVARIANTS
  TypeOK
  AnswersOwn
PROPERTY EveryRequestEnds
CHECK_DEADLOCK FALSE
