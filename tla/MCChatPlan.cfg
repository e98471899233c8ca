\* Routes of up to three targets of weight 1 or 2; texts of up to five characters;
\* requests and command lines around their limits.
SPECIFICATION Spec
CONSTANTS
  Models = {"m1", "m2"}
  MaxTargets = 3
  MaxWeight = 2
  MaxLength = 5
INVARIANTS InvWeightsExact InvAttemptsAreTargets InvListedIffResolvable InvReservesItsLength InvProfilesAgree InvAcceptedCostBounded InvSmokeIsServed
CHECK_DEADLOCK FALSE
