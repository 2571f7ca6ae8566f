SPECIFICATION Spec
CONSTANTS
  Tasks = {t1, t2, t3}
  NULL = NULL
  Fastpaths = {"dec", "dec386", "llsc", "xchg", "null"}
  Spinning = {"dec", "dec386", "llsc"}
  LockStates = {"INTERRUPTIBLE", "KILLABLE"}
  Sent = {"pending"}
SYMMETRY TaskSymmetry
INVARIANTS
  TypeOK
  MutualExclusion
  OwnerIsHolder
  WaitListExact
  NoLostWakeup
