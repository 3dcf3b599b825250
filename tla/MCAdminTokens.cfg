SPECIFICATION AdminSpec
CONSTANTS
  Visitors = {v1, v2}
  Values = {x, y, z}
  Slots = {r1, r2}
  MaxPerVisitor = 1
  Attempts = 2
  InMemory = FALSE
  TTL = 1
  Grace = 0
  MaxIds = 4
  MaxTime = 2
  MaxUntested = 1
SYMMETRY Symmetry
INVARIANTS AdminTypeOK ValuesUnique CapUnderConcurrency
PROPERTIES TokensGoForAReason DeletesWhatItChecked SweepIsComplete
CHECK_DEADLOCK FALSE
