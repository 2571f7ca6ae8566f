SPECIFICATION Spec
CONSTANTS
  w1 = w1
  d1 = d1
  c1 = c1
  c2 = c2
  NULL = NULL
  NCpus = 2
  Works = {w1, d1}
  Delayed = {d1}
  Cancelled = {w1, d1}
  Callers = {c1}
  On <- OnOneOrBoth
  Ops <- Everything
INVARIANTS
  PendingIsToken
  RunsWhereQueued
  FlushComplete
  CancelComplete
  NoLostWakeup
  DestroyComplete
