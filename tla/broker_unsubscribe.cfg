SPECIFICATION Spec
CONSTANTS
  t1 = t1
  t2 = t2
  t3 = t3
  a = a
  b = b
  m1 = m1
  m2 = m2
  Threads = {t1, t2, t3}
  Topics = {a, b}
  Messages = {m1, m2}
  NoTopic = NoTopic
  NoMessage = NoMessage
  MaxSubscriptions <- BothAgain
  MaxCalls = 1
  OwnerOutlivesCallers = TRUE
INVARIANTS
  NoErasedQueueUsed
