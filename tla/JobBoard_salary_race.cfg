CONSTANTS
  owner = owner
  rival = rival
  admin = admin
  j1 = j1
  j2 = j2
  w1 = w1
  w2 = w2
  Null = Null
  Unborn = Unborn
  Gone = Gone
  Writers = {w1, w2}
  Readers = {}
  Pages = {}
  MaxCommits = 2
  MaxBumps = 1
  Jobs = {j1}
  Users = {owner}
  Recruiters = {owner}
  Admins = {}
  Salaries = {1, 2, 3}
  Creations <- OneCreation
  Patches <- TwoSided
  InitialJobs <- WideDraft
SPECIFICATION BoardSpec
INVARIANT SalaryRangeOrdered
