SPECIFICATION LiveSpec
CONSTANTS
  m1 = m1 m2 = m2
  usdc = usdc strk = strk dai = dai
  deployer = deployer helper = helper
  n1 = n1 n2 = n2
  NoMember = NoMember
  ZeroAddress = ZeroAddress
  MemberRefs <- TwoMembers
  Tokens <- Assets
  Addresses <- AllAddresses
  SetupAuthority = deployer
  Nonces <- TwoNonces
  Configs <- OneCircle
  MAX_MEMBER_LIMIT = 2
  U128_MAX = 8
  U64_MAX = 20
  MaxCircles = 1
  MaxTime = 8
INVARIANTS RoundConservation ClaimsBacked NoCureBehindClaim NeverStuck ClientTold
PROPERTIES HistoryImmutable StandingOnlyGrows EveryClaimEnds
CHECK_DEADLOCK FALSE
