SPECIFICATION Spec
CONSTANTS
  example = example
  app = app
  other = other
  loopback = loopback
  token = token
  AuthCredential = {token}
  NoAuth = NoAuth
  Labels <- MCLabels
  DangerousHosts <- MCDangerousHosts
  Urls <- MCUrls
  Engagements <- MCEngagements
  Adapters <- MCAdapters
  DEFAULT_MAX_REDIRECTS = 2
  SECURITY_TXT_PATH = "security.txt"
CHECK_DEADLOCK FALSE
INVARIANT EvidenceWasRequested
