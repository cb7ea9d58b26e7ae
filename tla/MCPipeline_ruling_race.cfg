SPECIFICATION Spec
CONSTANTS
  s1 = s1
  s2 = s2
  s3 = s3
  s4 = s4
  k1 = k1
  k2 = k2
  r1 = r1
  r2 = r2
  Scans = {s1, s2}
  Keys = {k1, k2}
  MaxSeverity = 1
  Captures <- MixedCaptures
  MAX_PERSIST_ATTEMPTS = 3
  FkEnforced = TRUE
  Reviews = {r1}
  MaxEvents = 2
  ClockTicks = FALSE
CHECK_DEADLOCK FALSE
PROPERTY FalsePositiveUntouched
