SPECIFICATION Spec
CONSTANTS
  Values = {0, 1}
  Size = 4
  UINT_RANGE = 8
  MaxLen = 3
INVARIANTS
  NoOverlap
PROPERTIES
  IsQueue
