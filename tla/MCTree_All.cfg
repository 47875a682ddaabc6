CONSTANTS
  r1 = r1
  r2 = r2
  r3 = r3
  m = m
  f = f
  Runs = {r1, r2, r3}
  Files = {f, m}
  Merged = {m}
  Named = {f}
  MaxEvents = 2
  l1 = l1
  l2 = l2
  l3 = l3
  red = red
  blue = blue
  LaneRuns = {l1, l2, l3}
  NameOf <- MCNameOf
  MaxCap = 2
  MaxTroubles = 1
SPECIFICATION TreeSpec
INVARIANTS OneGit NothingSwept WorkKept
PROPERTIES IndexKept GrantedAlone
SYMMETRY Twins
CHECK_DEADLOCK FALSE
