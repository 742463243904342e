CONSTANTS
  Requests = {r1, r2, r3}
  Threads = 2
  Conns = 1
  Served = {"health", "register", "delete", "upload"}
  Faults = {"http", "database", "rate_limit", "validation", "unexpected"}
SPECIFICATION Spec
INVARIANTS TypeOK ConnectionsAccounted StandstillTakesAll NobodyForgotten
PROPERTIES EveryRequestAnswered EveryStepCounts
