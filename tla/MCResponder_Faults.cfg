CONSTANTS
  m = m
  t = t
  w = w
  main = main
  sib = sib
  Tick = tick
  Manual = manual
  Notes = {m, t}
  Senders = {main, sib}
  Main = main
  From <- MCFrom
  Kind <- MCOrders
  PerFire = 1
  MaxReplies = 1
  DailyCap = 1
  MaxTriage = 1
  MaxWork = 1
  DeferMax = 2
  MaxIncidents = 1
SPECIFICATION ReplySpec
INVARIANTS AnsweredOnce CapHolds
CHECK_DEADLOCK FALSE
