SPECIFICATION AccessSpec
CONSTANTS
  Peers = {p1, p2}
  Slots = {r1, r2}
  Window = 2
  MaxFail = 1
  MaxTime = 2
  Browser = p1
  VisitorTTL = 2
  SessMaxAge = 1
  MaxVid = 2
INVARIANTS LimiterTypeOK FailuresAreBounded RefusedForItsFailures ToldTokenVisible
PROPERTY GateNeedsLogin
SYMMETRY MCSymmetry
CHECK_DEADLOCK FALSE
