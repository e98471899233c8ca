\* Streams that outlive the key, two gateway processes, two mishaps.
SPECIFICATION Spec
CONSTANTS
  r1 = r1
  r2 = r2
  r3 = r3
  g1 = g1
  g2 = g2
  Requests = {r1, r2, r3}
  Gateways = {g1, g2}
  HostOf <- TwoHosts
  Limit = 2
  TTL = 2
  Deadline = 3
  MaxMishaps = 2
SYMMETRY R2AndR3
INVARIANTS TypeOK CounterAccounts AdmittedWithinLimit
PROPERTIES ImplementsPool
