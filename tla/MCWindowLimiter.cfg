\* Both counters over two minutes and a half, unequal costs, one above the limit; one mishap.
SPECIFICATION Spec
CONSTANTS
  r1 = r1
  r2 = r2
  r3 = r3
  r4 = r4
  Requests = {r1, r2, r3, r4}
  Cost <- MixedCosts
  RequestLimit = 1
  TokenLimit = 3
  Window = 2
  MaxDelay = 1
  MaxTime = 4
  MaxMishaps = 1
SYMMETRY R2AndR3
INVARIANTS TypeOK RequestsPerLife TokensPerLife AtMostTwoLives BurstBound RejectionsJustified CountersExpire
CHECK_DEADLOCK FALSE
