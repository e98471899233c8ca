\* Two polls of each service, two mishaps.
SPECIFICATION FairSpec
CONSTANTS
  MaxPolls = 2
  MaxMishaps = 2
INVARIANTS NoOrphans MockOutlivesGateway SuccessIsComplete
PROPERTIES MainEnds CtrlCEndsServices
CHECK_DEADLOCK FALSE
