SPECIFICATION FairSpec
CONSTANTS
  hang = hang
  plain = plain
  Jobs = {hang, plain}
  JobOrder <- Order
  Procs = {daemon, rehearsal}
  Daemons = {daemon, rehearsal}
  Dry = {rehearsal}
  Asked <- FullPasses
  Hanging = {hang}
  Stubborn = {hang}
  Width = 1
  Interrupts = FALSE
  FileFaults = FALSE
  MaxKills = 0
  MaxThefts = 0
  LateBound = 2
PROPERTIES HangLoopEnds StopEnds
CHECK_DEADLOCK FALSE
