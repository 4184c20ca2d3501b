SPECIFICATION FairSpec
CONSTANTS
  t1 = t1
  t2 = t2
  t3 = t3
  c1 = c1
  c2 = c2
  Threads = {t1, t2, t3}
  Conns = {c1, c2}
  None = None
  MaxRetries = 1
  MaxFaults = 1
  MaxCalls = 2
  MaxSpurious = 1
  OwnerOutlivesAcquires = TRUE
INVARIANTS
  TypeOK
  Exclusive
  NoLostWakeup
  SlotsAccounted
  NoCallOnDestroyedPool
PROPERTIES
  AllServed
