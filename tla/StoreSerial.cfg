SPECIFICATION StoreSpec
CONSTANTS
  NoSnapshot = NoSnapshot
  Window = window
  Fields = {window, usage}
  Substantive = {window}
  Growing = {usage}
  Items = {a, b}
  Threshold = 4
  Concurrent = FALSE
  TornCompaction = FALSE
  MaxWrites = 4
SYMMETRY Symmetric
INVARIANT LoadFindsMemory
PROPERTY ImplementsDurable
