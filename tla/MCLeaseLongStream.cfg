\* A stream that outlives the key: one request too many is admitted.
SPECIFICATION Spec
CONSTANTS
  r1 = r1
  r2 = r2
  r3 = r3
  g1 = g1
  g2 = g2
  Requests = {r1, r2, r3}
  Gateways = {g1}
  HostOf <- OneHost
  Limit = 1
  TTL = 1
  Deadline = 2
  MaxMishaps = 0
INVARIANTS InFlightWithinLimit
