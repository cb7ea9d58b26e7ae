SPECIFICATION Spec
CONSTANTS
  s1 = s1
  s2 = s2
  s3 = s3
  s4 = s4
  k1 = k1
  k2 = k2
  r1 = r1
  r2 = r2
  Scans = {s1}
  Keys = {k1, k2}
  MaxSeverity = 0
  Captures <- OneCapture
  MAX_PERSIST_ATTEMPTS = 3
  FkEnforced = TRUE
  Reviews = {r1, r2}
  MaxEvents = 2
  ClockTicks = TRUE
CHECK_DEADLOCK FALSE
INVARIANT HistoryReconstructable
