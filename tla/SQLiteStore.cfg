SPECIFICATION SQLSpec
CONSTANTS
  Workers = {w1, w2}
  Tokens = {t1}
  Untagged = none
  MaxInteractions = 3
  MaxPerToken = 2
  MaxBatch = 2
  MaxBatches = 3
  MaxFaults = 1
INVARIANTS SQLTypeOK CapsHoldAtRest OvershootIsInFlight
PROPERTIES AnswerIsTrue CapsTakeTheOldest
CHECK_DEADLOCK FALSE
