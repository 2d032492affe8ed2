SPECIFICATION TurnsSpec
CONSTANTS
  Hook = {h1, h2}
  EventType = {t1}
  Batch = 2
  DeliverBatch = 2
  Workers = 2
  MaxAttempts = 2
  Keep = 1
  MaxEvents = 3
  MaxRows = 5
  MaxRequests = 1
  MaxFaults = 1
  MaxStops = 1
SYMMETRY Symmetry
CHECK_DEADLOCK FALSE
INVARIANTS NoEventMissed OutboxInOrder AttemptsAreCounted
