SPECIFICATION Spec
CONSTANTS
  Procs = {daemon, once}
  Width = 1
  Rows = 2
  Ttls = {0, 2}
  MaxTtl = 2
  DefaultTtl = 1
  Timeout = 1
  MaxRetries = 1
  Selective = TRUE
  MaxVersions = 2
  MaxKills = 1
INVARIANTS LiveFirst WriteSpared
PROPERTIES NeverBack
