SPECIFICATION Spec
CONSTANTS
  a = a
  b = b
  c = c
  Nodes <- Pair
  AddrRank <- PairRank
  Multi = {a, b}
  Boot <- PairBoot
  CliDials <- PairCli
INVARIANTS
  TypeOK
  SeedIdsTruthful
CHECK_DEADLOCK FALSE
