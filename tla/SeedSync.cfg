SPECIFICATION FairSpec
CONSTANTS
  a = a
  b = b
  c = c
  Nodes <- MCNodes
  Addrs <- MCAddrs
  Portless = {"port0"}
  Loopback = {"local"}
  Start <- MCStart
  Targets <- FanTargets
  Callers = {a}
  MaxRounds = 3
  StableRounds = 2
  Attempts = 2
  MaxFaults = 1
INVARIANTS
  TypeOK
  ConvergedExchanged
  LoopbackContained
  PortlessContained
PROPERTY EveryCycleEnds
CHECK_DEADLOCK FALSE
