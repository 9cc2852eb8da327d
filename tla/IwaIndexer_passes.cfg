\* Two passes that may overlap, a chain of two blocks and three events, one failure.
CONSTANTS
  Passes = {p1, p2}
  batchSize = 2
  chunk_size = 2
  maxCircleScan = 1
  startBlock = 0
  NoCursor = NoCursor
  MaxHead = 2
  MaxCircles = 2
  MaxFaults = 1
SPECIFICATION LiveSpec
INVARIANTS ExactlyOnceAlone
PROPERTIES IndexerCatchesUp
CHECK_DEADLOCK FALSE
