SPECIFICATION FairSpec
CONSTANTS
  Ids <- ThreeIds
  Nodes <- ThreeIds
  DaysPerWeek = 3
  WeeklyWindow = 2
  Horizon = 4
  WeeklySlots = 1
  MaxIterations = 6
  Kinds <- FiveKinds
  Rates = {0, 1}
  Hands = {0, 1}
INVARIANTS OrderIsLeast AnswerIsExact Runnable Earliest
CHECK_DEADLOCK FALSE
