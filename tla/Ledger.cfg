SPECIFICATION Spec
CONSTANTS
  p = p
  q = q
  x = x
  y = y
  Tasks <- MCTasks
  Accounts <- MCAccounts
  Amounts = {1, 2}
  Networks = {"main", "test"}
  Bodies = {"b"}
  Days = {0}
  Limit = 4
  TickLimit = 2
  Opening <- MCOpening
  MaxCalls = 3
INVARIANTS
  TypeOK
  SerialInTransactions
  TicksCounted
PROPERTY RefinesAtomic
CHECK_DEADLOCK FALSE
