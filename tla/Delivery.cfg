SPECIFICATION DeliverySpec
CONSTANTS
  m1 = m1
  o1 = o1
  m2 = m2
  InMsg = {m1, m2}
  OutMsg = {}
  DsnMsg = {}
  Rcpt = {r1, r2}
  Domain = {d1}
  MaxAttempts = 1
  MaxFaults = 1
  Workers = 2
  ClaimLimit = 2
  OutboundEnabled = FALSE
  Bounces = FALSE
  Authenticated = {}
  MaxRequests = 1
  ListLimit = 1
  MaxStops = 1
SYMMETRY Alike
INVARIANTS TypeOK NoMailLost NoOrphanBody
PROPERTY SettledStays
