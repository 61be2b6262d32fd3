SPECIFICATION FairSpec
CONSTANTS
  v = v
  w = w
  cut = cut
  Bad = Bad
  Programs = {"asc-ipmi", "ipmi-sdr", "asc-nvidia", "nvidia-dmon"}
  Val <- MCVal
  Replies <- MCReplies
  Cuts <- MCCuts
  StdinCap = 2
  StdoutCap = 1
  MaxRuns = 2
  MaxBeats = 3
INVARIANTS
  TypeOK
  AlwaysCsv
  OneTickerRuns
PROPERTIES
  ImplementsRelay
  AbandonedWritersRest
  PipesNeverJam
  DeadChildIsReplaced
\* The runs are bounded.
CHECK_DEADLOCK FALSE
