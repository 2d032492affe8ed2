SPECIFICATION Spec
CONSTANTS
  InMsg = {m1}
  OutMsg = {}
  DsnMsg = {}
  Rcpt = {r1}
  Domain = {d1}
  MaxAttempts = 1
  MaxFaults = 0
  Workers = 1
  ClaimLimit = 1
  OutboundEnabled = FALSE
  Bounces = FALSE
  Authenticated = {}
  MaxRequests = 0
  ListLimit = 1
  MaxStops = 0
INVARIANT HeldIsNeverClaimed
