SPECIFICATION Spec
CONSTANTS
  t1 = t1
  t2 = t2
  t3 = t3
  c1 = c1
  c2 = c2
  Threads = {t1, t2, t3}
  Conns = {c1, c2}
  None = None
  MaxRetries = 0
  MaxFaults = 1
  MaxCalls = 2
  MaxSpurious = 1
  OwnerOutlivesAcquires = FALSE
INVARIANTS
  WrapperKeepsPoolAlive
  CapacityInUse
PROPERTIES
  ImplementsLease
