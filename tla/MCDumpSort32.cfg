SPECIFICATION SortSpec
CONSTANTS
  Modulus = 16
  HalfInt = 2
  MaxItems = 3
  Prefix = {}
  Keys = {1, 2, 3}
  Counts = {0, 1, 2}
INVARIANTS
  MoreBytesFirst
\* A sort ends.
CHECK_DEADLOCK FALSE
