SPECIFICATION SharedTokenHSpec
CONSTANTS
  m1 = m1 m2 = m2
  usdc = usdc strk = strk dai = dai
  deployer = deployer helper = helper
  n1 = n1 n2 = n2
  NoMember = NoMember
  ZeroAddress = ZeroAddress
  MemberRefs <- TwoMembers
  Tokens <- Assets
  Addresses <- AllAddresses
  SetupAuthority = deployer
  Helper = helper
  USDC_TOKEN = usdc
  PRIVACY_POOL = PRIVACY_POOL
  Nonces <- OneTwo
  Configs <- SharedToken
  MAX_MEMBER_LIMIT = 2
  U128_MAX = 8
  U64_MAX = 20
  MaxCircles = 2
  MaxTime = 3
  PoolFunds = 4
  OutsideFunds = 1
  MaxWithdraw = 2
INVARIANTS LedgersAgree Solvent NobodyRefused AssertsAreAll
PROPERTIES RecordsMatchTokens ImplementsPots
CHECK_DEADLOCK FALSE
