SPECIFICATION FairSpec
CONSTANTS
  Delivery = {d1, d2}
  Request <- AnyRequest
  Branch = "deploy"
  Free = Free
  Stale = Stale
  MaxCommit = 1
  MaxRestarts = 0
INVARIANTS
  TypeOK
  RefIsSigned
  SignedIsServed
PROPERTIES
  AnsweredAndReaped
\* The deliveries are finite.
CHECK_DEADLOCK FALSE
