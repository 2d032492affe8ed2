SPECIFICATION Spec
CONSTANTS Id = {"m1", "m2"}
          Proc = {"p1"}
          Key = {"k1", "k2"}
          NoKey = "none"
          ShortKey = "short"
          Chunk = 2
          MaxLen = 3
          MaxBytes = 9
          MaxDamage = 2
          MaxCrashes = 0
          Base = 3
          Places = 2
          Width = 2
          Backoff = {0, 1, 8, 10}
          Interval = 2
          Keep = 1
          MaxSeconds = 6
          MaxStops = 2
          MaxFaults = 2
          Life = 10
          RenewBefore = 6
          Jitter = 1
          Refresh = 3
          RetryInitial = 1
          RetryMax = 3
          MaxHours = 20
          MaxFlips = 3
          MaxRestarts = 1
          Client = {"c1", "c2"}
          Burst = 2
          Refill = 5
          Step = 2
          MaxMoment = 18
          Admin = {"a1"}
          Selector = {"k1", "k2", "k3"}
          NoSelector = "none"
          Mail = {"m1", "m2"}
          MaxKeyChanges = 5
          RouteId = {1, 2, 3}
          Label = {"a", "mx", "acme", "net"}
          Pattern <- Patterns
          Path = {"relay", "direct"}
          Global = "smarthost"
          Envelopes <- Destinations
          MaxRouteChanges = 3
          MaxErrors = 1
CHECK_DEADLOCK FALSE
INVARIANTS BodiesAreKept TimesKeepTheirOrder BackupsRemain RenewalsAreSafe OutboundAsConfigured
