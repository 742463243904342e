CONSTANTS
  lower = lower
  upper = upper
  None = None
  Requests = {r1, r2}
  Staff = {s1}
  Emails = {lower, upper}
  Normal <- LowerDomain
  Allowed = {"recruiter", "admin"}
  Granted = {"candidate", "recruiter"}
  Lifetime = 1
  MaxNow = 1
SPECIFICATION Spec
INVARIANTS TypeOK OneUserPerEmail WaitsForOneCommit AnswersTrue
PROPERTIES ImplementsDirectory EveryRequestAnswered
