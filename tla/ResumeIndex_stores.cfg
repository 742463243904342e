CONSTANTS
  Candidates = {c1}
  Requests = {q1, q2}
  Matchers = {m1}
  Names = {n1, n2}
  Kinds = {"pdf"}
  Headlines = {h1}
  TopK = 1
  MaxFiles = 3
  MaxProfiles = 2
  None = None
SPECIFICATION Spec
SYMMETRY Symmetry
INVARIANTS ResumeTypeOK ResumeStored OnlyCommittedIndexed AckedUploadStored IndexFollowsProfile
PROPERTY EditsDoNotUndo
