SPECIFICATION Spec
CONSTANTS
  Sessions = {s}
  Overlap = FALSE
  MaxRounds = 2
  MaxAttempts = 2
  MaxCrashes = 2
  MaxLeaves = 2
  MaxFaults = 2
INVARIANTS EveryRequestCounted CrashedRoundIsOffered ResidueIsCutOff
CHECK_DEADLOCK FALSE
