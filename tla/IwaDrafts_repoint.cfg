\* Two reports of one draft at a time, two circles on chain.
CONSTANTS
  Drafts = {d1}
  MEMBER_COUNT = 2
  Members = {m1, m2}
  Amounts = {5}
  Handlers = {h1, h2}
  MAX_CIRCLE_SCAN = 2
  NotTaken = NotTaken
  MaxCircles = 2
SPECIFICATION Spec
PROPERTIES CircleKept
CHECK_DEADLOCK FALSE
