SPECIFICATION FairSpec
CONSTANTS
  Modulus = 2
  Prefix = {p, q}
  Caller = {c1, c2}
  NoCaller = NoCaller
  Amounts <- MCAmounts
INVARIANTS
  TypeOK
  DumpIsSnapshot
  MutualExclusion
PROPERTIES
  ImplementsLedger
  CallsReturn
