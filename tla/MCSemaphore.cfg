SPECIFICATION FairSpec
CONSTANTS
  Tasks = {t1, t2, t3}
  InitCount = 1
  MaxExtra = 1
  Sent = {"pending"}
INVARIANTS
  TypeOK
  UnitConservation
  NoIdleUnit
  WaitListExact
  GrantedIsAwake
PROPERTIES
  ServedInOrder
  WaiterServed
