\* A backend failure that no error envelope tells the client of.
SPECIFICATION Spec
CONSTANTS
  Targets <- ThreeTargets
  MaxChunks = 2
INVARIANTS FailuresAreEnvelopes
CHECK_DEADLOCK FALSE
