SPECIFICATION StoreSpec
CONSTANTS
  NoSnapshot = NoSnapshot
  Window = window
  Fields = {window, usage}
  Substantive = {window}
  Growing = {}
  Items = {a, b}
  Threshold = 9
  Concurrent = TRUE
  TornCompaction = FALSE
  MaxWrites = 3
SYMMETRY Symmetric
INVARIANTS ConfirmedSurvives
