CONSTANTS
  Candidates = {c1}
  Requests = {q1}
  Matchers = {m1}
  Names = {n1}
  Kinds = {"pdf", "doc"}
  Headlines = {h1}
  TopK = 1
  MaxFiles = 2
  MaxProfiles = 1
  None = None
SPECIFICATION Spec
INVARIANT ReuploadReplaces
