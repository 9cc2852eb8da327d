\* Two accounts in one extension, and two refreshes that may overlap.
CONSTANTS
  owner0 = owner0
  a = a
  Accounts = {owner0, a}
  Pool = Pool
  Nobody = Nobody
  Deployer = owner0
  InitialBalance <- MCBalance
  Requests = {1}
  MAX_PARTICIPANTS = 1
  MAX_POOL_TOTAL = 1
  DRAW_TIMEOUT = 1
  U64_MAX = 1
  MaxTime = 0
  Refreshes = {1, 2}
SPECIFICATION PageSpec
INVARIANT OwnerOnly
