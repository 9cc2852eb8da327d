\* One draft of two places, one organizer and one acceptance at a time, and as
\* many circles as the page may create by mistake.  A tab in which an operator's
\* wallet and another take turns, with one overview under way at a time.
CONSTANTS
  Drafts = {d1}
  Draft = d1
  MEMBER_COUNT = 2
  Members = {m1, m2}
  Amounts = {5}
  Handlers = {h1, h2}
  Organizer = h1
  MAX_CIRCLE_SCAN = 2
  NotTaken = NotTaken
  NoDraft = NoDraft
  MaxCircles = 2
  Wallets = {w1, w2}
  Operators = {w1}
  NoWallet = NoWallet
  Reads = {r1}
  rpcConfigured = TRUE
SPECIFICATION MCDashSpec
INVARIANTS PlacesStayTheirs ReportIsEarned
CHECK_DEADLOCK FALSE
