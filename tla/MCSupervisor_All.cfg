SPECIFICATION FairSpec
CONSTANTS
  Poll = 1
  BackoffCap = 2
  Healthy = 2
  MaxRestarts = 4
  Overflow = 4
  MaxDrops = 2
  MaxStrays = 1
INVARIANTS SoleOwner ServedInTime BudgetHolds
PROPERTIES Replaced
