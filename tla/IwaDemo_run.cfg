SPECIFICATION FairSpec
CONSTANTS
  A = A B = B
  Order <- TwoInOrder
  PROVING_BLOCK_BACKOFF = 1
  Funds = 2
  MaxCircles = 2
  MaxTxs = 10
  MaxCrashes = 2
  MaxDonations = 1
INVARIANTS ProofsSeeTheRun
PROPERTIES RunCompletes
CHECK_DEADLOCK FALSE
