\* Requests shorter than the time to live of the key, three of them on two
\* gateways, with one mishap; and every handler ends,
\* but for a stream that waits for its client.
SPECIFICATION FairSpec
CONSTANTS
  r1 = r1
  r2 = r2
  r3 = r3
  g1 = g1
  g2 = g2
  Requests = {r1, r2, r3}
  Gateways = {g1, g2}
  HostOf <- TwoHosts
  Limit = 1
  TTL = 2
  Deadline = 1
  MaxMishaps = 1
INVARIANTS PositiveCounterExpires
PROPERTIES ExpiryOnlyRacesAcquire RejectedWhileFull EveryRequestEnds
