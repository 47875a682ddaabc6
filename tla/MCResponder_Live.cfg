CONSTANTS
  m = m
  t = t
  w = w
  main = main
  sib = sib
  Tick = tick
  Manual = manual
  Notes = {m, t, w}
  Senders = {main, sib}
  Main = main
  From <- MCFrom
  Kind <- MCKind
  PerFire = 1
  MaxReplies = 1
  DailyCap = 1
  MaxTriage = 1
  MaxWork = 1
  DeferMax = 2
  MaxIncidents = 0
SPECIFICATION ReplyLiveSpec
PROPERTIES EveryNoteSettled
CHECK_DEADLOCK FALSE
