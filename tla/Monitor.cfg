SPECIFICATION MCSpec
CONSTANTS Domain = {"d1", "d2"}
          Timer = {"t1", "t2"}
          Caller = {"p1", "p2", "c1"}
          Primary = {"p1", "p2"}
          Enabled = TRUE
          MinInterval = 0
          QueueDepth = 8
          FailureThreshold = 2
          SuccessThreshold = 2
          WakeDepth = 1
          MaxTurns = 3
          MaxEdits = 2
          MaxFaults = 1
          MaxStops = 1
          MaxMail = 1
          Passes = FALSE
INVARIANTS NoLostWakeup AlertsAreTrue
