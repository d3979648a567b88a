SPECIFICATION RoundsSpec
CONSTANTS
  NoRound = NoRound
  NoPoint = NoPoint
  Rounds = {r1,r2,r3}
  ShellRounds = {}
  Crossing = FALSE
  Retries = {r3}
  Requests = {"interrupt", "fork", "new"}
  MaxStops = 1
  Overlap = FALSE
  Steering = TRUE
  WritesFail = FALSE
  MaxAttempts = 1
  MaxWindow = 4
SYMMETRY Symmetric
INVARIANTS TurnsSaved OfferedRetryWorks OwnHistory
