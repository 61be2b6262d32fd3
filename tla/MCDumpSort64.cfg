SPECIFICATION SortSpec
CONSTANTS
  Modulus = 8
  HalfInt = 4
  MaxItems = 3
  Prefix = {}
  Keys = {1, 2, 3}
  Counts = {0, 1, 3}
INVARIANTS
  MoreBytesFirst
  OrderIsDetermined
\* A sort ends.
CHECK_DEADLOCK FALSE
