SPECIFICATION FairSpec
CONSTANTS
  Modulus = 4
  Prefix <- MCPrefix
  Addr <- MCAddr
  NoAddr = NoAddr
  Bad = Bad
  Tokens <- MCTokens
  WebPorts = {80, 443}
  MinPackets = 2
  MinBytes = 2
  Lines <- MCLines
  Tails <- MCTails
  MinutesPerHour = 2
  MaxMinute = 2
  MaxRestarts = 1
INVARIANTS
  TypeOK
  BooksBalance
  OneMinutePerBlock
PROPERTIES
  ImplementsLedger
  
\* The restarts are bounded.
CHECK_DEADLOCK FALSE
