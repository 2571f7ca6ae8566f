SPECIFICATION Spec
CONSTANTS
  Tasks = {t1, t2, t3}
  Pages = {p1, p2}
  NULL = NULL
SYMMETRY Symmetry
INVARIANTS
  EntriesAlive
  NoLostWakeup
