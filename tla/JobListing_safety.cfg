CONSTANTS
  Writers = {w1, w2}
  Readers = {r1}
  Pages = {p1}
  MaxCommits = 2
  MaxBumps = 3
SPECIFICATION SafeSpec
SYMMETRY Symmetry
INVARIANTS TypeOK AckedWritesVisible QuietPagesExact
PROPERTY ImplementsRegister
