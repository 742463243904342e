CONSTANTS
  Writers = {w1}
  Readers = {r1, r2}
  Pages = {p1}
  MaxCommits = 1
  MaxBumps = 1
SPECIFICATION LossySpec
PROPERTY EventuallyVisible SettledForGood
