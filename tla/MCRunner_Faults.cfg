SPECIFICATION Spec
CONSTANTS
  hang = hang
  plain = plain
  Jobs = {hang, plain}
  JobOrder <- Order
  Procs = {daemon, once}
  Daemons = {daemon}
  Dry = {}
  Asked <- RetryByName
  Hanging = {}
  Stubborn = {hang}
  Width = 1
  Interrupts = TRUE
  FileFaults = TRUE
  MaxKills = 1
  MaxThefts = 1
  LateBound = 2
INVARIANTS WorkUnderLane OneWorker
PROPERTIES QuarantineHolds QuarantineLifts
CHECK_DEADLOCK FALSE
