SPECIFICATION Spec
CONSTANTS
  google = google
  email = email
  other = other
  A = A
  B = B
  Identities = {google, email, other}
  EmailsOf <- MCEmailsOf
  Browsers = {1}
  Handlers = {h1, h2}
  SameHost = TRUE
  IWA_SESSION_TTL_MS = 0
  MAX_ACCOUNT_SESSIONS_PER_USER = 1
  MaxSessions = 3
  MaxTime = 1
SYMMETRY Symmetry
INVARIANTS OneAccountPerAddress SessionsBounded JarHoldsLastLogin
PROPERTIES LogoutEnds
CHECK_DEADLOCK FALSE
