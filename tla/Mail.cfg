SPECIFICATION MailSpec
CONSTANTS
  m1 = m1
  m2 = m2
  o1 = o1
  InMsg = {m1}
  OutMsg = {o1}
  DsnMsg = {b1}
  Rcpt = {r1, r2}
  Domain = {d1}
  MaxAttempts = 2
  MaxFaults = 1
  Workers = 2
  ClaimLimit = 2
  OutboundEnabled = TRUE
  Bounces = TRUE
  Authenticated = {m1}
  MaxRequests = 1
  ListLimit = 1
  MaxStops = 1
SYMMETRY Alike
INVARIANTS NoSecondCopy  
PROPERTY ImplementsMailService
