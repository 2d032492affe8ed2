SPECIFICATION Spec
CONSTANTS c1 = c1
          c2 = c2
          Request = {"r1", "r2"}
          Session = {"s1"}
          Token = {}
          Email = {"e1", "e2"}
          Subject = {"i1"}
          Nobody = "nobody"
          MaxId = 3
          MaxPassword = 1
          Ops = {"setup", "login", "create", "update", "delete"}
          AutoProvision = FALSE
          PasswordLogin = TRUE
          DefaultRole = "viewer"
          Aborts = FALSE
          Client = {"r1", "r2"}
          Handlers = {"login", "setup", "enable", "renew"}
          RecoveryCode = {c1}
          MaxSecret = 2
          MaxBatch = 2
          MaxStep = 2
          Stream = {"s1", "s2"}
          Buffer = 2
          MaxEvents = 4
          Key = {"a", "b"}
          Budget = 2
          Window = 2
          MaxKeys = 1
          MaxOpen = 3
          MaxTime = 8
CHECK_DEADLOCK FALSE
INVARIANTS AdministratorRemains ChangeEndsSessions TargetsStay CodesAreUsedOnce BudgetHolds SlowClientsAreAlone
PROPERTY IdentitiesStay
