CONSTANTS
  a = a
  b = b
  x = x
  Runs = {a, b, x}
  SuiteOf <- MCSuiteOf
  Exclusive = {x}
  Brief = {b}
  MaxSlots = 2
  MaxEvents = 1
SPECIFICATION LiveSpec
 
PROPERTIES OldestServed EveryWaiterServed
CHECK_DEADLOCK FALSE
