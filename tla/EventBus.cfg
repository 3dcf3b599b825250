SPECIFICATION Spec
CONSTANTS
  Events = {e1, e2, e3}
  Workers = {w1, w2}
  Buffer = 2
  Batch = 2
  HonorsCtx = TRUE
  StoreMayFail = TRUE
INVARIANTS TypeOK ExactlyOnce StopIsBarrier TotalIsExact
PROPERTIES WorkersReturn Delivers
