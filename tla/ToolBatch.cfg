SPECIFICATION Spec
CONSTANTS
  Calls <- MCCalls
  Known = {5}
  Accesses <- MCAccesses
  Paths <- MCPaths
  Asking = {1, 2, 3}
  Envoys = {3}
  MaxPanics = 1
INVARIANTS NoClashingFiles HeadWaitsForActive OneOutcomeEach AskedIsAnswerable
PROPERTIES InterruptEndsPhase
CHECK_DEADLOCK FALSE
