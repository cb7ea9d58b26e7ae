SPECIFICATION MCRunSpec
CONSTANTS
  example = example
  app = app
  other = other
  q1 = q1
  q2 = q2
  q3 = q3
  k1 = k1
  k2 = k2
  Labels <- MCLabels
  DangerousHosts = {}
  Urls <- MCUrls
  Engagements <- MCEngagements
  Adapters <- MCAdapters
  DEFAULT_MAX_REDIRECTS = 1
  SECURITY_TXT_PATH = "/"
  Requests = {q1, q2, q3}
  AuthCredential = {q1, q2, q3}
  NoAuth = NoAuth
  Secrets = {k1, k2}
  NoSecret = NoSecret
  NoRow = NoRow
  MaxRestarts = 1
  Scans = {s1}
  NoScan = NoScan
CHECK_DEADLOCK FALSE
INVARIANTS
  ScanIsAsAsked
  FindingsInScope
PROPERTIES
  ReplacedNotRemoved
  AnswersAreTrue
  RequestsAnswered
