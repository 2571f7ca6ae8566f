SPECIFICATION Spec
CONSTANTS
  Tasks = {t1, t2, t3, t4}
  NULL = NULL
  RWSEM_ACTIVE_MASK = 7
  WAKE_MASK = 1
SYMMETRY TaskSymmetry
INVARIANTS
  ReadersExcludeWriter
  CountExact
  NoDanglingWaiter
  LostOnlyByUndo
PROPERTIES
  NoOvertaking
  ServedInOrder
