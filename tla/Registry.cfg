SPECIFICATION Spec
CONSTANTS
  Ids = {a, b}
  Saved = {a}
  Timed = {a}
  Clients = {c1}
  MaxBuilt = 2
  MaxFaults = 1
  Overlap = FALSE
INVARIANTS MapMatchesDrivers AttachedOrTold
PROPERTIES CrashedIsEvicted ArmedIsRehosted
CHECK_DEADLOCK FALSE
