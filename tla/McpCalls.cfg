SPECIFICATION Spec
CONSTANTS
  Nobody = Nobody
  Calls = {a, b, l}
  Listings = {l}
  MaxFaults = 2
INVARIANTS NoAnswerIsSkipped OneFaultIsRecovered
PROPERTIES CallEnds
CHECK_DEADLOCK FALSE
