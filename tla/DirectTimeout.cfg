SPECIFICATION Spec
CONSTANTS
  InMsg = {}
  OutMsg = {o1}
  DsnMsg = {}
  Rcpt = {r1, r2}
  Domain = {d1}
  MaxAttempts = 1
  MaxFaults = 0
  Workers = 1
  ClaimLimit = 1
  OutboundEnabled = TRUE
  Bounces = FALSE
  Authenticated = {}
  MaxRequests = 0
  ListLimit = 1
  MaxStops = 0
INVARIANT NoSubmissionLost
