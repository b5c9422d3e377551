SPECIFICATION Spec
CONSTANTS
  d1 = d1
  d2 = d2
  d3 = d3
  Domains <- MCDomains
  FailureThreshold <- MCFailureThreshold
  SuccessThreshold <- MCSuccessThreshold
  ResetTimeout <- MCResetTimeout
  FailureWindow <- MCFailureWindow
  CascadeTargets <- MCCascadeTargets
  MaxTime = 3
  MaxPending = 1
INVARIANTS TypeOK ClosedBelowThreshold NeverStuckOpen FullTimeout ProbesOfThisRecovery FailuresInOrder
PROPERTIES ClosesAfterStreak CascadeComplete
CHECK_DEADLOCK FALSE
