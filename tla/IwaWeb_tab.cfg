\* Two wallets, one connected after the other, and two loads at a time.
CONSTANTS
  Accounts = {a1, a2}
  Nobody = Nobody
  Loads = {l1, l2}
  MaxConnects = 2
SPECIFICATION WebSpec
INVARIANTS SessionIsOurs
PROPERTIES AskedIsAnswered
CHECK_DEADLOCK FALSE
