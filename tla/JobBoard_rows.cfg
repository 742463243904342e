CONSTANTS
  owner = owner
  rival = rival
  admin = admin
  j1 = j1
  j2 = j2
  w1 = w1
  w2 = w2
  Null = Null
  Unborn = Unborn
  Gone = Gone
  Writers = {w1, w2}
  Readers = {}
  Pages = {}
  MaxCommits = 2
  MaxBumps = 2
  Jobs = {j1, j2}
  Users = {owner, rival, admin}
  Recruiters = {owner, rival}
  Admins = {admin}
  Salaries = {1, 2}
  Creations <- OneCreation
  Patches <- RowPatches
  InitialJobs <- OneDraft
SPECIFICATION BoardSpec
SYMMETRY Symmetry
INVARIANTS BoardTypeOK AckedPatchStored
PROPERTIES OnlyOwnerOrAdminChanges PatchTouchesOnlyItsFields RangeBrokenOnlyByRace
