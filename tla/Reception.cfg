SPECIFICATION Spec
CONSTANTS Conn = {c1, c2, c3}
          Ports = {"mx", "sub"}
          Slots <- TwoEach
          Domain = {"d1"}
          NoDomain = "none"
          MaxMessages = 2
          MaxBytes = 9
          Cap = 1
          Limits = {1, 2}
          MaxRcpts = 2
          MaxMonth = 2
          MaxBounces = 1
          MaxCrashes = 1
          Failures = TRUE
          Ops = {"drain", "disk", "limit", "domain", "account"}
          Zone = {"z1", "z2", "z3"}
          ZoneAnswer = {"listed", "resolver", "notfound", "error", "silent"}
          FilterAnswer = {"none", "quarantine", "reject"}
          Rspamd <- AnyRspamd
          Clamd = {"ok", "found", "error", "closes", "offline"}
          Chunks = 2
          StoreFails = {FALSE}
          FilterId = {1, 2}
          Pattern = {{"m1"}, {"m1", "m2"}}
          Action = {"reject", "allow"}
          Priority = {1, 2}
          Admin = {"a1"}
          Message = {"m1", "m2"}
          Sweep = "sweep"
          MaxChanges = 2
          MaxRestarts = 1
          MaxFails = 1
SYMMETRY Alike
CHECK_DEADLOCK FALSE
INVARIANTS  SendsAreAccounted VerdictsAreHonoured  ListingsAreHonoured
