\* A response without X-Request-ID.
SPECIFICATION Spec
CONSTANTS
  Targets <- ThreeTargets
  MaxChunks = 2
INVARIANTS EveryResponseHasId
CHECK_DEADLOCK FALSE
