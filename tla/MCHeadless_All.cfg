CONSTANTS
  a = a
  b = b
  x = x
  Runs = {a, b, x}
  TreeOf <- MCTreeOf
  Governed = {a, x}
  Interactive = {x}
  Hasty = {x}
  Width = 1
  TreeCap = 1
  RunsCap = 1
  Accounts = 2
  MaxEvents = 1
SPECIFICATION LiveSpec
INVARIANTS SpawnsBounded AgedFirst
PROPERTIES ExhaustionKept EverySpawnEnds
CHECK_DEADLOCK FALSE
