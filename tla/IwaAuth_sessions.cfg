SPECIFICATION Spec
CONSTANTS
  Wallets = {w1, w2}
  Operators = {w1}
  DraftOrganizer = w2
  CallsMade = {"createSession", "listDrafts", "adminOverview", "reorder"}
  CHALLENGE_TTL_MS = 1
  SESSION_IDLE_MS = 1
  SESSION_ABSOLUTE_MS = 2
  MAX_SESSIONS_PER_ADDRESS = 2
  MAX_SESSIONS = 2
  Handlers = {h1, h2}
  MaxNonces = 3
  MaxTime = 3
INVARIANTS OneGrantPerSignature
PROPERTIES NobodyElseEvicted SignInWorks
CHECK_DEADLOCK FALSE
