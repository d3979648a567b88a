SPECIFICATION Spec
CONSTANTS
  NoRound = NoRound
  Rounds = {r1, r2, s1}
  ShellRounds = {s1}
  Crossing = FALSE
  Requests = {"interrupt", "fork"}
  MaxStops = 1
INVARIANTS AtMostOneLive LiveRoundReachable NoLeakedToken
PROPERTY SupersededEnds
