SPECIFICATION Spec
CONSTANTS
  every = every
  once = once
  Jobs = {every, once}
  CronJobs = {every}
  Expr <- MCExpr
  FireAt <- MCFireAt
  Span <- MCSpan
  Clock <- MCClock
  Year = 9
  Day = 9
  MaxAge = 1
  RestartLimit = 1
  Overlap = FALSE
  MaxTime = 3
  MaxFaults = 3
INVARIANTS SlotFiresOnce AcceptedJobKept SetToNextSlot
PROPERTIES CancelledIsSilent DueJobFires
CHECK_DEADLOCK FALSE
