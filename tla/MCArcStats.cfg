SPECIFICATION ArcSpec
CONSTANTS
  Modulus = 4
  Lines <- TwoLines
  BootCounts = {0, 3}
  MaxEvents = 2
  MaxTicks = 3
  MaxGlitches = 2
INVARIANTS
  ArcTypeOK
  RatesAreTrue
  RatiosAreRatios
\* The program may panic, and the ticks are bounded.
CHECK_DEADLOCK FALSE
