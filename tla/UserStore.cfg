SPECIFICATION FairSpec
CONSTANTS
  p1 = p1
  p2 = p2
  Procs <- MCProcs
  Names <- MCNames
  MaxCalls = 3
  MaxFaults = 1
INVARIANTS
  TypeOK
  MessagesKept
  ReadWasShown
  CacheCurrent
  AvatarKept
PROPERTY EveryCallEnds
CHECK_DEADLOCK FALSE
