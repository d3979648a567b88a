SPECIFICATION RoundsSpec
CONSTANTS
  NoRound = NoRound
  NoPoint = NoPoint
  Rounds = {r1, r2, r3}
  ShellRounds = {}
  Crossing = FALSE
  Retries = {}
  Requests = {"interrupt"}
  MaxStops = 1
  Overlap = FALSE
  Steering = FALSE
  WritesFail = TRUE
  MaxAttempts = 2
  MaxWindow = 5
SYMMETRY Symmetric
INVARIANTS CompletedExchangeKept ExchangeNumbersDistinct UnsentLeavesNothing
PROPERTIES RefinesLifecycle
