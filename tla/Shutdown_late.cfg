SPECIFICATION ProcSpec
CONSTANTS
  q1 = q1
  u1 = u1
  g1 = g1
  Events <- MCEvents
  ServerOf <- MCServerOf
  Slow = {u1}
  Workers = {w1}
  Buffer = 2
  Batch = 2
  HonorsCtx = TRUE
  StoreMayFail = FALSE
INVARIANT NoLateSubmit
