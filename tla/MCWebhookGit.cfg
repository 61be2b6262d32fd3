SPECIFICATION Spec
CONSTANTS
  Delivery = {d1, d2, d3}
  Request <- PushRequest
  Branch = "deploy"
  Free = Free
  Stale = Stale
  MaxCommit = 1
  MaxRestarts = 1
SYMMETRY AnyOrder
INVARIANTS
  AloneDeploys
  ResetFailsForAReason
PROPERTIES
  BackwardsOnlyInOverlap
\* The deliveries are finite.
CHECK_DEADLOCK FALSE
