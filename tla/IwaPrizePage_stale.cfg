\* A saver and the owner, one place in the pool, one refresh at a time.
CONSTANTS
  owner0 = owner0
  a = a
  Accounts = {owner0, a}
  Pool = Pool
  Nobody = Nobody
  Deployer = owner0
  InitialBalance <- MCBalance
  Requests = {1}
  MAX_PARTICIPANTS = 1
  MAX_POOL_TOTAL = 1
  DRAW_TIMEOUT = 1
  U64_MAX = 1
  MaxTime = 1
  Refreshes = {1}
SPECIFICATION PageSpec
INVARIANTS StaleOffers
CONSTRAINT Followed
