CONSTANTS
  Requests = {r1}
  Threads = 2
  Conns = 1
  Served = {"register", "patch"}
  Faults = {"validation", "validator_error"}
SPECIFICATION Spec
INVARIANT RefusedBodyIs422
