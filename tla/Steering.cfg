SPECIFICATION Spec
CONSTANTS
  NoRound = NoRound
  NoInbox = NoInbox
  Rounds = {r1, r2}
  MaxStops = 1
  Inputs = {i1, i2}
  MaxTurns = 1
INVARIANTS HeardByItsRound AcceptedIsHeard
PROPERTIES DeliversInputs StoppedAnswers
