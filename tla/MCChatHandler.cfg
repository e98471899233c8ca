\* Every way one chat request can go.
SPECIFICATION FairSpec
CONSTANTS
  Targets <- ThreeTargets
  MaxChunks = 2
INVARIANTS TypeOK FallbackCorrect SlotCoversBackend Settled CountedAsSent StreamObserved
PROPERTIES RequestEnds
CHECK_DEADLOCK FALSE
