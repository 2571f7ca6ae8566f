SPECIFICATION FairSpec
CONSTANTS
  w1 = w1
  d1 = d1
  c1 = c1
  c2 = c2
  NULL = NULL
  NCpus = 1
  Works = {d1}
  Delayed = {d1}
  Cancelled = {d1}
  Callers = {c1, c2}
  On <- OnOne
  Ops <- TwoCallers
INVARIANTS
  BarrierAlive
PROPERTIES
  RequestServed
  FlushReturns
