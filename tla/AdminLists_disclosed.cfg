SPECIFICATION ListsSpec
CONSTANTS
  Visitors = {v1, v2}
  Values = {x}
  Slots = {r1, r2}
  MaxPerVisitor = 1
  Attempts = 2
  InMemory = TRUE
  TTL = 1
  Grace = 0
  MaxIds = 4
  MaxTime = 2
  MaxUntested = 0
PROPERTY NeverOthersData
CHECK_DEADLOCK FALSE
