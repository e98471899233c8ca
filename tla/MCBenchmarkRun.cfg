\* One warmup request, two levels of four requests, one timeout, one failure.
SPECIFICATION FairSpec
CONSTANTS
  Levels <- TwoLevels
  Requests = 4
  Warmups = 1
  Limit = 2
  MaxTimeouts = 1
  MaxFailures = 1
INVARIANTS BreakdownsAddUp
PROPERTIES EveryLevelReported RejectionsAreOverlaps
CHECK_DEADLOCK FALSE
