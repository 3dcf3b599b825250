SPECIFICATION MemSpec
CONSTANTS
  Nil = Nil
  Tokens = {t1, none}
  MaxInteractions = 3
  MaxPerToken = 2
  Retention = 1
  ClockMayStep = TRUE
  MaxBatch = 2
  MaxId = 4
  MaxTime = 2
INVARIANTS MemTypeOK IndexesAgree CapsHold ReadsAreScoped ReadsAgreeOnOrder
PROPERTIES SweepIsExact RetentionIsEnforced IsLog
CHECK_DEADLOCK FALSE
