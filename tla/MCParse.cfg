SPECIFICATION ParseSpec
CONSTANTS
  Modulus = 4
  Prefix <- MCPrefix
  Addr <- MCAddr
  NoAddr = NoAddr
  Bad = Bad
  WebPorts = {80, 443}
  MinPackets = 1
  MinBytes = 2
  Tokens <- MCTokens
  MaxTokens = 5
INVARIANTS
  ParseTypeOK
  ParsedIsLastMentioned
  StopsAtFirstOffence
  PanicsOnlyWithoutSource
  AcceptedHasSource
\* A line ends, or the parser returns.
CHECK_DEADLOCK FALSE
