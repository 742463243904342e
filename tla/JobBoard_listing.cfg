CONSTANTS
  owner = owner
  rival = rival
  admin = admin
  j1 = j1
  j2 = j2
  w1 = w1
  w2 = w2
  Null = Null
  Unborn = Unborn
  Gone = Gone
  Writers = {w1, w2}
  Readers = {r1}
  Pages = {p1}
  MaxCommits = 2
  MaxBumps = 2
  Jobs = {j1}
  Users = {owner}
  Recruiters = {owner}
  Admins = {}
  Salaries = {1, 2}
  Creations <- OneCreation
  Patches <- StatusPatches
  InitialJobs <- OneDraft
SPECIFICATION BoardSpec
SYMMETRY Symmetry
INVARIANT DeletedJobsNotServed
PROPERTY ImplementsListing
