SPECIFICATION FairSpec
CONSTANTS
  Tasks = {t1, t2, t3, t4}
INVARIANTS
  TypeOK
  ActivityExact
  FrontMustWait
  WaitersExact
PROPERTIES
  WaiterServed
  IsFairLock
