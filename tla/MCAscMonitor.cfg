SPECIFICATION FairSpec
CONSTANTS
  Programs = {"asc-monitor", "apc-monitor"}
  SSHHosts = {h1, h2}
  LocalHosts = {}
  Apc = apc
  Nil = Nil
  BatchSize = 2
  MaxQueue = 1
  MaxReads = 3
  MaxTicks = 2
INVARIANTS
  TypeOK
  OwnCommandLine
PROPERTIES
  ImplementsTelemetry
  NobodyStalls
\* The process may die, and the readings are bounded.
CHECK_DEADLOCK FALSE
