CONSTANTS
  a = a
  b = b
  a1 = a1
  a2 = a2
  b1 = b1
  here = here
  there = there
  p = p
  q = q
  Agents = {a, b}
  Calls = {a1, a2, b1}
  Owner <- MCOwner
  Trees = {here, there}
  Project = here
  Paths = {p, q}
  TreeOf <- MCTreeOf
  MaxCalls = 3
  MaxFaults = 1
  x = x
  y = y
  v1 = v1
  v2 = v2
  s = s
  prompt = prompt
  hand = hand
  Names = {x, y}
  Versions = {v1, v2}
  Sessions = {s}
  Readers = {prompt, hand}
  SessionOf <- MCSessionOf
  Modes <- MCModes
  MaxListed = 1
  MaxTracked = 1
  MaxChanges = 2
  MaxMishaps = 1
SPECIFICATION HooksSpec
INVARIANTS OneOwner ClaimsLast ShownFirst GoneCarried
SYMMETRY Alike
CHECK_DEADLOCK FALSE
