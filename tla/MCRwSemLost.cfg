SPECIFICATION Spec
CONSTANTS
  Tasks = {t1, t2, t3}
  NULL = NULL
  RWSEM_ACTIVE_MASK = 7
  WAKE_MASK = 7
SYMMETRY TaskSymmetry
INVARIANTS
  NoLostWakeup
