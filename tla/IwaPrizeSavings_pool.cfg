\* Two savers and the owner, who may fall silent or renounce; five tokens, a pool of three.
CONSTANTS
  owner0 = owner0
  a = a
  b = b
  Accounts = {owner0, a, b}
  Pool = Pool
  Nobody = Nobody
  Deployer = owner0
  InitialBalance <- MCBalance
  Requests = {1, 3}
  MAX_PARTICIPANTS = 2
  MAX_POOL_TOTAL = 3
  DRAW_TIMEOUT = 1
  U64_MAX = 5
  MaxTime = 1
SPECIFICATION LiveSpec
INVARIANTS Solvent FairDraw
PROPERTIES NobodyPays OffersStand RoundEnds
