SPECIFICATION TimedSpec
CONSTANTS
  Procs = {p1, p2}
  Nobody = Nobody
  MaxSlots = 1
  AgeBound = 2
  MaxCrashes = 1
  PidReuse = TRUE
  IOFaults = TRUE
PROPERTIES TheftJustified ImplementsBucket FailOpen WaitEnds
CHECK_DEADLOCK FALSE
