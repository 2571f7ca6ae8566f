SPECIFICATION SrcuSpec
CONSTANTS
  Cpus = {p1, p2}
  Readers = {r1, r2}
  Updaters = {u1, u2}
  Idx = {i0, i1}
  INT_RANGE = 6
  COUNT_RANGE = 3
  NULL = NULL
SYMMETRY Symmetric
INVARIANTS
  GracePeriod
  SumCovers
