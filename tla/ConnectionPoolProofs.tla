------------------------- MODULE ConnectionPoolProofs --------------------------
(***************************************************************************)
(* What TLAPS proves of ConnectionPool for every number of threads, slots, *)
(* retries, faults and calls.                                              *)
(***************************************************************************)
EXTENDS ConnectionPool, FiniteSetTheorems, SequenceTheorems, TLAPS

--------------------------------------------------------------------------------
(* Types; the counter that stands for the queue's length in the wait predicate;
   which places have a connection in hand *)

TypeInv ==
  /\ TypeOK
  /\ available = Len(queue)
  /\ \A t \in Threads : conn[t] # None <=> pc[t] \in Holding

\* Dropping the front of a nonempty queue leaves a queue one shorter.
LEMMA RestOfQueue ==
  ASSUME TypeInv, available > 0
  PROVE  /\ Head(queue) \in Conns
         /\ Head(queue) = queue[1]
         /\ Rest \in Seq(Conns)
         /\ Len(Rest) = Len(queue) - 1
         /\ \A i \in 1..Len(Rest) : Rest[i] = queue[i + 1]
<1>1. queue # <<>>
  BY EmptySeq DEF TypeInv, TypeOK
<1> QED
  BY <1>1, HeadTailProperties DEF TypeInv, TypeOK, Rest

\* Every constructor call leaves the counter equal to the number of connections.
LEMMA InitTypeInv == Init => TypeInv
<1> SUFFICES ASSUME Init PROVE TypeInv
  OBVIOUS
<1>1. PICK built \in SUBSET Conns :
        /\ faults = Cardinality(Conns \ built)
        /\ faults <= MaxFaults
        /\ open = built
        /\ available = Cardinality(built)
        /\ queue \in [1..Cardinality(built) -> built]
  BY DEF Init
<1>2. Cardinality(built) \in Nat /\ Cardinality(Conns \ built) \in Nat
  BY ConnsAssumption, FS_Subset, FS_CardinalityType
<1>3. queue \in Seq(Conns) /\ Len(queue) = Cardinality(built)
  <2>1. queue \in Seq(Conns)
    BY <1>1, <1>2, SeqDef
  <2>2. DOMAIN queue = 1..Len(queue) /\ Len(queue) \in Nat
    BY <2>1, LenProperties
  <2> QED
    BY <1>1, <1>2, <2>2
<1> QED
  BY <1>1, <1>2, <1>3, BoundsAssumption DEF Init, TypeInv, TypeOK, Places, Holding

LEMMA NextTypeInv == TypeInv /\ [Next]_vars => TypeInv'
<1> SUFFICES ASSUME TypeInv, [Next]_vars PROVE TypeInv'
  OBVIOUS
<1> USE BoundsAssumption DEF TypeInv, TypeOK, Places, Holding, Referring, At, Go
<1>1. ASSUME NEW t \in Threads, StartAcquire(t) PROVE TypeInv'
  BY <1>1, ConnsAssumption DEF StartAcquire
<1>2. ASSUME NEW t \in Threads, FindEmpty(t) PROVE TypeInv'
  BY <1>2, ConnsAssumption DEF FindEmpty
<1>3. ASSUME NEW t \in Threads, Block(t) PROVE TypeInv'
  BY <1>3, ConnsAssumption DEF Block
<1>4. ASSUME NEW t \in Threads, RefuseShutdown(t) PROVE TypeInv'
  BY <1>4, ConnsAssumption DEF RefuseShutdown
<1>5. ASSUME NEW t \in Threads, Pop(t) PROVE TypeInv'
  BY <1>5, ConnsAssumption, RestOfQueue DEF Pop
<1>6. ASSUME NEW t \in Threads, CheckOpen(t) PROVE TypeInv'
  BY <1>6, ConnsAssumption DEF CheckOpen
<1>7. ASSUME NEW t \in Threads, ConnectOk(t) PROVE TypeInv'
  BY <1>7, ConnsAssumption DEF ConnectOk
<1>8. ASSUME NEW t \in Threads, ConnectRetry(t) PROVE TypeInv'
  BY <1>8, ConnsAssumption DEF ConnectRetry, MayRetry
<1>9. ASSUME NEW t \in Threads, ConnectGiveUp(t) PROVE TypeInv'
  BY <1>9, ConnsAssumption DEF ConnectGiveUp, MayRetry
<1>10. ASSUME NEW t \in Threads, Wrap(t) PROVE TypeInv'
  BY <1>10, ConnsAssumption DEF Wrap
<1>11. ASSUME NEW t \in Threads, WrapFails(t) PROVE TypeInv'
  BY <1>11, ConnsAssumption DEF WrapFails
<1>12. ASSUME NEW t \in Threads, TouchDestroyed(t) PROVE TypeInv'
  BY <1>12, ConnsAssumption DEF TouchDestroyed
<1>13. ASSUME NEW t \in Threads, ReleaseOpen(t) PROVE TypeInv'
  BY <1>13, ConnsAssumption DEF ReleaseOpen
<1>14. ASSUME NEW t \in Threads, ReleaseClosed(t) PROVE TypeInv'
  BY <1>14, ConnsAssumption DEF ReleaseClosed
<1>15. ASSUME NEW t \in Threads, Push(t) PROVE TypeInv'
  BY <1>15, ConnsAssumption DEF Push
<1>16. ASSUME NEW t \in Threads, Notify(t) PROVE TypeInv'
  BY <1>16, ConnsAssumption DEF Notify, Waiting
<1>17. ASSUME NEW t \in Threads, DropRef(t) PROVE TypeInv'
  BY <1>17, ConnsAssumption DEF DropRef
<1>18. ASSUME NEW t \in Threads, SpuriousWake(t) PROVE TypeInv'
  BY <1>18, ConnsAssumption DEF SpuriousWake
<1>19. ASSUME DropOwner PROVE TypeInv'
  BY <1>19 DEF DropOwner
<1>20. ASSUME DtorStore PROVE TypeInv'
  BY <1>20 DEF DtorStore
<1>21. ASSUME DtorNotifyAll PROVE TypeInv'
  BY <1>21 DEF DtorNotifyAll
<1>22. ASSUME DtorClear PROVE TypeInv'
  BY <1>22, EmptySeq DEF DtorClear
<1>23. ASSUME NEW c \in Conns, Break(c) PROVE TypeInv'
  BY <1>23 DEF Break
<1>24. ASSUME UNCHANGED vars PROVE TypeInv'
  BY <1>24 DEF vars
<1> QED
  BY <1>1, <1>2, <1>3, <1>4, <1>5, <1>6, <1>7, <1>8, <1>9, <1>10, <1>11, <1>12, <1>13, <1>14,
     <1>15, <1>16, <1>17, <1>18, <1>19, <1>20, <1>21, <1>22, <1>23, <1>24
     DEF Next, Acquire, Release, Destroy, Terminated

\* The model is well typed: in particular a reconnect makes at most MaxRetries + 1 attempts.
THEOREM TypeCorrect == Spec => []TypeOK
<1>1. TypeInv => TypeOK
  BY DEF TypeInv
<1> QED
  BY InitTypeInv, NextTypeInv, <1>1, PTL DEF Spec

--------------------------------------------------------------------------------
(* The reference count: the destructor has begun exactly when no reference is *)
(* left, and it finishes with the mutex free                                  *)

RefInv == /\ dtor = "alive" <=> Referenced
          /\ dtor = "destroyed" => MutexFree

LEMMA InitRefInv == Init => RefInv
  BY DEF Init, RefInv, Referenced

LEMMA NextRefInv == TypeInv /\ RefInv /\ [Next]_vars => RefInv'
<1> SUFFICES ASSUME TypeInv, RefInv, [Next]_vars PROVE RefInv'
  OBVIOUS
<1> USE DEF TypeInv, TypeOK, Places, RefInv, Referenced, MutexFree, Referring, At, Go
<1>1. ASSUME NEW t \in Threads, StartAcquire(t) PROVE RefInv'
  BY <1>1 DEF StartAcquire
<1>2. ASSUME NEW t \in Threads, FindEmpty(t) PROVE RefInv'
  BY <1>2 DEF FindEmpty, Shutdown
<1>3. ASSUME NEW t \in Threads, Block(t) PROVE RefInv'
  BY <1>3 DEF Block
<1>4. ASSUME NEW t \in Threads, RefuseShutdown(t) PROVE RefInv'
  BY <1>4 DEF RefuseShutdown
<1>5. ASSUME NEW t \in Threads, Pop(t) PROVE RefInv'
  BY <1>5 DEF Pop, Shutdown
<1>6. ASSUME NEW t \in Threads, CheckOpen(t) PROVE RefInv'
  BY <1>6 DEF CheckOpen
<1>7. ASSUME NEW t \in Threads, ConnectOk(t) PROVE RefInv'
  BY <1>7 DEF ConnectOk
<1>8. ASSUME NEW t \in Threads, ConnectRetry(t) PROVE RefInv'
  BY <1>8 DEF ConnectRetry, MayRetry
<1>9. ASSUME NEW t \in Threads, ConnectGiveUp(t) PROVE RefInv'
  BY <1>9 DEF ConnectGiveUp, MayRetry
<1>10. ASSUME NEW t \in Threads, Wrap(t) PROVE RefInv'
  BY <1>10 DEF Wrap
<1>11. ASSUME NEW t \in Threads, WrapFails(t) PROVE RefInv'
  BY <1>11 DEF WrapFails
<1>12. ASSUME NEW t \in Threads, TouchDestroyed(t) PROVE RefInv'
  BY <1>12 DEF TouchDestroyed
<1>13. ASSUME NEW t \in Threads, ReleaseOpen(t) PROVE RefInv'
  BY <1>13 DEF ReleaseOpen
<1>14. ASSUME NEW t \in Threads, ReleaseClosed(t) PROVE RefInv'
  BY <1>14 DEF ReleaseClosed
<1>15. ASSUME NEW t \in Threads, Push(t) PROVE RefInv'
  BY <1>15 DEF Push
<1>16. ASSUME NEW t \in Threads, Notify(t) PROVE RefInv'
  BY <1>16 DEF Notify, Waiting
<1>17. ASSUME NEW t \in Threads, DropRef(t) PROVE RefInv'
  BY <1>17 DEF DropRef, StillReferenced
<1>18. ASSUME NEW t \in Threads, SpuriousWake(t) PROVE RefInv'
  BY <1>18 DEF SpuriousWake
<1>19. ASSUME DropOwner PROVE RefInv'
  BY <1>19 DEF DropOwner
<1>20. ASSUME DtorStore PROVE RefInv'
  BY <1>20 DEF DtorStore
<1>21. ASSUME DtorNotifyAll PROVE RefInv'
  BY <1>21 DEF DtorNotifyAll
<1>22. ASSUME DtorClear PROVE RefInv'
  BY <1>22 DEF DtorClear
<1>23. ASSUME NEW c \in Conns, Break(c) PROVE RefInv'
  BY <1>23 DEF Break
<1>24. ASSUME UNCHANGED vars PROVE RefInv'
  BY <1>24 DEF vars
<1> QED
  BY <1>1, <1>2, <1>3, <1>4, <1>5, <1>6, <1>7, <1>8, <1>9, <1>10, <1>11, <1>12, <1>13, <1>14,
     <1>15, <1>16, <1>17, <1>18, <1>19, <1>20, <1>21, <1>22, <1>23, <1>24
     DEF Next, Acquire, Release, Destroy, Terminated

\* The wrapper's shared_ptr does what it is there for: the pool a connection
\* goes back to has not begun to be destroyed.
THEOREM WrapperKeepsPool == Spec => []WrapperKeepsPoolAlive
<1>1. RefInv => WrapperKeepsPoolAlive
  BY DEF RefInv, Referenced, WrapperKeepsPoolAlive
<1> QED
  BY InitTypeInv, NextTypeInv, InitRefInv, NextRefInv, <1>1, PTL DEF Spec

--------------------------------------------------------------------------------
(* A creator that keeps its pointer while threads are inside acquire *)

OwnerInv == OwnerOutlivesAcquires =>
              /\ \A t \in Threads : pc[t] # "undefined"
              /\ owner \/ \A t \in Threads : pc[t] \notin Asking

LEMMA InitOwnerInv == Init => OwnerInv
  BY DEF Init, OwnerInv

LEMMA NextOwnerInv == TypeInv /\ RefInv /\ OwnerInv /\ [Next]_vars => OwnerInv'
<1> SUFFICES ASSUME TypeInv, RefInv, OwnerInv, [Next]_vars, OwnerOutlivesAcquires
             PROVE  /\ \A t \in Threads : pc'[t] # "undefined"
                    /\ owner' \/ \A t \in Threads : pc'[t] \notin Asking
  BY DEF OwnerInv
<1> DEFINE G == /\ \A t \in Threads : pc'[t] # "undefined"
                /\ owner' \/ \A t \in Threads : pc'[t] \notin Asking
<1> USE DEF TypeInv, TypeOK, Places, RefInv, Referenced, OwnerInv, Referring, Asking, At, Go
<1>1. ASSUME NEW t \in Threads, StartAcquire(t) PROVE G
  BY <1>1 DEF StartAcquire
<1>2. ASSUME NEW t \in Threads, FindEmpty(t) PROVE G
  BY <1>2 DEF FindEmpty
<1>3. ASSUME NEW t \in Threads, Block(t) PROVE G
  BY <1>3 DEF Block
<1>4. ASSUME NEW t \in Threads, RefuseShutdown(t) PROVE G
  BY <1>4 DEF RefuseShutdown
<1>5. ASSUME NEW t \in Threads, Pop(t) PROVE G
  BY <1>5 DEF Pop
<1>6. ASSUME NEW t \in Threads, CheckOpen(t) PROVE G
  BY <1>6 DEF CheckOpen
<1>7. ASSUME NEW t \in Threads, ConnectOk(t) PROVE G
  BY <1>7 DEF ConnectOk
<1>8. ASSUME NEW t \in Threads, ConnectRetry(t) PROVE G
  BY <1>8 DEF ConnectRetry, MayRetry
<1>9. ASSUME NEW t \in Threads, ConnectGiveUp(t) PROVE G
  BY <1>9 DEF ConnectGiveUp, MayRetry
<1>10. ASSUME NEW t \in Threads, Wrap(t) PROVE G
  BY <1>10 DEF Wrap
<1>11. ASSUME NEW t \in Threads, WrapFails(t) PROVE G
  BY <1>11 DEF WrapFails
<1>12. ASSUME NEW t \in Threads, TouchDestroyed(t) PROVE G
  BY <1>12 DEF TouchDestroyed
<1>13. ASSUME NEW t \in Threads, ReleaseOpen(t) PROVE G
  BY <1>13 DEF ReleaseOpen
<1>14. ASSUME NEW t \in Threads, ReleaseClosed(t) PROVE G
  BY <1>14 DEF ReleaseClosed
<1>15. ASSUME NEW t \in Threads, Push(t) PROVE G
  BY <1>15 DEF Push
<1>16. ASSUME NEW t \in Threads, Notify(t) PROVE G
  BY <1>16 DEF Notify, Waiting
<1>17. ASSUME NEW t \in Threads, DropRef(t) PROVE G
  BY <1>17 DEF DropRef, StillReferenced
<1>18. ASSUME NEW t \in Threads, SpuriousWake(t) PROVE G
  BY <1>18 DEF SpuriousWake
<1>19. ASSUME DropOwner PROVE G
  BY <1>19 DEF DropOwner
<1>20. ASSUME DtorStore PROVE G
  BY <1>20 DEF DtorStore
<1>21. ASSUME DtorNotifyAll PROVE G
  BY <1>21 DEF DtorNotifyAll
<1>22. ASSUME DtorClear PROVE G
  BY <1>22 DEF DtorClear
<1>23. ASSUME NEW c \in Conns, Break(c) PROVE G
  BY <1>23 DEF Break
<1>24. ASSUME UNCHANGED vars PROVE G
  BY <1>24 DEF vars
<1> QED
  BY <1>1, <1>2, <1>3, <1>4, <1>5, <1>6, <1>7, <1>8, <1>9, <1>10, <1>11, <1>12, <1>13, <1>14,
     <1>15, <1>16, <1>17, <1>18, <1>19, <1>20, <1>21, <1>22, <1>23, <1>24
     DEF Next, Acquire, Release, Destroy, Terminated

\* What the pool needs of its creator, and cannot check, is no more than this: it
\* lets go at a moment when nobody is inside acquire, and nobody enters after
\* that.  Threads may still use connections then, give them back and notify: the
\* destructor waits for the last of their wrappers (RefInv), so no thread uses a
\* destroyed pool.
THEOREM NoCallOnDestroyed == Spec => [](OwnerOutlivesAcquires => NoCallOnDestroyedPool)
<1>1. OwnerInv => (OwnerOutlivesAcquires => NoCallOnDestroyedPool)
  BY DEF OwnerInv, NoCallOnDestroyedPool
<1> QED
  BY <1>1, InitTypeInv, NextTypeInv, InitRefInv, NextRefInv, InitOwnerInv,
     NextOwnerInv, PTL DEF Spec

--------------------------------------------------------------------------------
(* One place for each connection                                            *)

LEMMA InitExclusive == Init => Exclusive
<1> SUFFICES ASSUME Init PROVE Exclusive
  OBVIOUS
<1>1. \A i, j \in 1..Len(queue) : queue[i] = queue[j] => i = j
  BY InitTypeInv DEF Init, TypeInv
<1> QED
  BY <1>1 DEF Init, Exclusive

LEMMA NextExclusive == TypeInv /\ Exclusive /\ [Next]_vars => Exclusive'
<1> SUFFICES ASSUME TypeInv, Exclusive, [Next]_vars PROVE Exclusive'
  OBVIOUS
<1> USE DEF Exclusive, Queued, At, Go
<1>1. ASSUME NEW t \in Threads, StartAcquire(t) PROVE Exclusive'
  BY <1>1 DEF StartAcquire
<1>2. ASSUME NEW t \in Threads, FindEmpty(t) PROVE Exclusive'
  BY <1>2 DEF FindEmpty
<1>3. ASSUME NEW t \in Threads, Block(t) PROVE Exclusive'
  BY <1>3 DEF Block
<1>4. ASSUME NEW t \in Threads, RefuseShutdown(t) PROVE Exclusive'
  BY <1>4 DEF RefuseShutdown
<1>5. ASSUME NEW t \in Threads, Pop(t) PROVE Exclusive'
  <2> USE RestOfQueue DEF Pop, TypeInv, TypeOK, Holding
  <2>1. /\ available > 0 /\ conn[t] = None /\ queue' = Rest
        /\ conn' = [conn EXCEPT ![t] = queue[1]]
        /\ Len(queue) \in Nat
    BY <1>5
  <2>2. \A i \in 1..Len(Rest) : i + 1 \in 1..Len(queue) /\ Rest[i] = queue[i + 1] /\ i + 1 # 1
    BY <2>1
  <2>3. \A i, j \in 1..Len(queue') : queue'[i] = queue'[j] => i = j
    BY <2>1, <2>2
  <2>4. \A u \in Threads : conn'[u] # None => \A i \in 1..Len(queue') : queue'[i] # conn'[u]
    BY <2>1, <2>2
  <2>5. \A u, v \in Threads : conn'[u] = conn'[v] /\ conn'[u] # None => u = v
    BY <2>1
  <2> QED
    BY <2>3, <2>4, <2>5
<1>6. ASSUME NEW t \in Threads, CheckOpen(t) PROVE Exclusive'
  BY <1>6 DEF CheckOpen
<1>7. ASSUME NEW t \in Threads, ConnectOk(t) PROVE Exclusive'
  BY <1>7 DEF ConnectOk
<1>8. ASSUME NEW t \in Threads, ConnectRetry(t) PROVE Exclusive'
  BY <1>8 DEF ConnectRetry
<1>9. ASSUME NEW t \in Threads, ConnectGiveUp(t) PROVE Exclusive'
  BY <1>9 DEF ConnectGiveUp, TypeInv, TypeOK, Holding
<1>10. ASSUME NEW t \in Threads, Wrap(t) PROVE Exclusive'
  BY <1>10 DEF Wrap
<1>11. ASSUME NEW t \in Threads, WrapFails(t) PROVE Exclusive'
  BY <1>11 DEF WrapFails, TypeInv, TypeOK, Holding
<1>12. ASSUME NEW t \in Threads, TouchDestroyed(t) PROVE Exclusive'
  BY <1>12 DEF TouchDestroyed, TypeInv, TypeOK, Holding
<1>13. ASSUME NEW t \in Threads, ReleaseOpen(t) PROVE Exclusive'
  BY <1>13 DEF ReleaseOpen
<1>14. ASSUME NEW t \in Threads, ReleaseClosed(t) PROVE Exclusive'
  BY <1>14 DEF ReleaseClosed, TypeInv, TypeOK, Holding
<1>15. ASSUME NEW t \in Threads, Push(t) PROVE Exclusive'
  BY <1>15 DEF Push, TypeInv, TypeOK, Holding
<1>16. ASSUME NEW t \in Threads, Notify(t) PROVE Exclusive'
  BY <1>16 DEF Notify
<1>17. ASSUME NEW t \in Threads, DropRef(t) PROVE Exclusive'
  BY <1>17 DEF DropRef
<1>18. ASSUME NEW t \in Threads, SpuriousWake(t) PROVE Exclusive'
  BY <1>18 DEF SpuriousWake
<1>19. ASSUME DropOwner PROVE Exclusive'
  BY <1>19 DEF DropOwner
<1>20. ASSUME DtorStore PROVE Exclusive'
  BY <1>20 DEF DtorStore
<1>21. ASSUME DtorNotifyAll PROVE Exclusive'
  BY <1>21 DEF DtorNotifyAll
<1>22. ASSUME DtorClear PROVE Exclusive'
  BY <1>22, EmptySeq DEF DtorClear
<1>23. ASSUME NEW c \in Conns, Break(c) PROVE Exclusive'
  BY <1>23 DEF Break
<1>24. ASSUME UNCHANGED vars PROVE Exclusive'
  BY <1>24 DEF vars
<1> QED
  BY <1>1, <1>2, <1>3, <1>4, <1>5, <1>6, <1>7, <1>8, <1>9, <1>10, <1>11, <1>12, <1>13, <1>14,
     <1>15, <1>16, <1>17, <1>18, <1>19, <1>20, <1>21, <1>22, <1>23, <1>24
     DEF Next, Acquire, Release, Destroy, Terminated

\* No two threads, and no thread and the queue, ever have the same connection.
THEOREM ExclusiveUse == Spec => []Exclusive
  BY InitTypeInv, NextTypeInv, InitExclusive, NextExclusive, PTL DEF Spec

--------------------------------------------------------------------------------
(* No wakeup is lost.  A thread between its predicate and its sleep holds the *)
(* mutex, so that the queue it found empty stays empty until it sleeps.       *)

WakeInv ==
  /\ \A t, u \in Threads : pc[t] = "blocking" /\ pc[u] = "blocking" => t = u
  /\ \A t \in Threads : pc[t] = "blocking" => available = 0
  /\ NoLostWakeup

LEMMA SetOfThreads ==
  ASSUME NEW S \in SUBSET Threads
  PROVE  IsFiniteSet(S) /\ Cardinality(S) \in Nat
  BY ThreadsAssumption, FS_Subset, FS_CardinalityType

LEMMA InitWakeInv == Init => WakeInv
  BY DEF Init, WakeInv, NoLostWakeup, Waiting

\* What a step does to the threads on their way to a free connection.
LEMMA NextOnTheWay ==
  ASSUME NEW S \in SUBSET Threads, NEW t \in Threads
  PROVE  /\ Cardinality(S \cup {t}) = IF t \in S THEN Cardinality(S) ELSE Cardinality(S) + 1
         /\ Cardinality(S \ {t}) = IF t \in S THEN Cardinality(S) - 1 ELSE Cardinality(S)
  BY SetOfThreads, FS_AddElement, FS_RemoveElement

LEMMA NextWakeInv == TypeInv /\ RefInv /\ WakeInv /\ [Next]_vars => WakeInv'
<1> SUFFICES ASSUME TypeInv, RefInv, WakeInv, [Next]_vars PROVE WakeInv'
  OBVIOUS
<1>a. OnTheWay \in SUBSET Threads /\ OnTheWay' \in SUBSET Threads
  BY DEF OnTheWay
<1>b. Cardinality(OnTheWay) \in Nat /\ Cardinality(OnTheWay') \in Nat
  BY <1>a, SetOfThreads
<1>c. Len(queue) \in Nat
  BY LenProperties DEF TypeInv, TypeOK
<1> USE <1>b, <1>c DEF TypeInv, TypeOK, Places, Referring, WakeInv, NoLostWakeup, At, Go
<1>1. ASSUME NEW t \in Threads, StartAcquire(t) PROVE WakeInv'
  <2>1. OnTheWay' = OnTheWay \cup {t}
    BY <1>1 DEF StartAcquire, OnTheWay
  <2>2. t \notin OnTheWay
    BY <1>1 DEF StartAcquire, OnTheWay
  <2>3. Cardinality(OnTheWay') = Cardinality(OnTheWay) + 1
    BY <1>a, <1>b, <2>1, <2>2, NextOnTheWay
  <2> QED
    BY <1>1, <2>1, <2>3 DEF StartAcquire, Waiting, Shutdown, MutexFree
<1>2. ASSUME NEW t \in Threads, FindEmpty(t) PROVE WakeInv'
  <2>1. available' = 0 /\ Len(queue') = 0
    BY <1>2 DEF FindEmpty
  <2>2. NoLostWakeup'
    BY <2>1
  <2> QED
    BY <1>2, <2>1, <2>2 DEF FindEmpty, MutexFree
<1>3. ASSUME NEW t \in Threads, Block(t) PROVE WakeInv'
  BY <1>3 DEF Block, Shutdown
<1>4. ASSUME NEW t \in Threads, RefuseShutdown(t) PROVE WakeInv'
  BY <1>4 DEF RefuseShutdown, Shutdown
<1>5. ASSUME NEW t \in Threads, Pop(t) PROVE WakeInv'
  <2>1. OnTheWay' = OnTheWay \ {t}
    BY <1>5 DEF Pop, OnTheWay
  <2>2. t \in OnTheWay
    BY <1>5 DEF Pop, OnTheWay
  <2>3. Cardinality(OnTheWay') = Cardinality(OnTheWay) - 1
    BY <1>a, <1>b, <2>1, <2>2, NextOnTheWay
  <2>4. Waiting' = Waiting /\ dtor' = dtor
    BY <1>5 DEF Pop, Waiting
  <2>5. Len(queue') = Len(queue) - 1 /\ available' = available - 1
    BY <1>5, RestOfQueue DEF Pop
  <2>6. \A u \in Threads : pc'[u] # "blocking"
    BY <1>5 DEF Pop, MutexFree
  <2> QED
    BY <2>3, <2>4, <2>5, <2>6 DEF Shutdown
<1>6. ASSUME NEW t \in Threads, CheckOpen(t) PROVE WakeInv'
  BY <1>6 DEF CheckOpen, OnTheWay, Waiting, Shutdown
<1>7. ASSUME NEW t \in Threads, ConnectOk(t) PROVE WakeInv'
  BY <1>7 DEF ConnectOk, OnTheWay, Waiting, Shutdown
<1>8. ASSUME NEW t \in Threads, ConnectRetry(t) PROVE WakeInv'
  BY <1>8 DEF ConnectRetry, OnTheWay, Waiting, Shutdown
<1>9. ASSUME NEW t \in Threads, ConnectGiveUp(t) PROVE WakeInv'
  BY <1>9 DEF ConnectGiveUp, OnTheWay, Waiting, Shutdown
<1>10. ASSUME NEW t \in Threads, Wrap(t) PROVE WakeInv'
  BY <1>10 DEF Wrap, OnTheWay, Waiting, Shutdown
<1>11. ASSUME NEW t \in Threads, WrapFails(t) PROVE WakeInv'
  BY <1>11 DEF WrapFails, OnTheWay, Waiting, Shutdown
<1>12. ASSUME NEW t \in Threads, TouchDestroyed(t) PROVE WakeInv'
  BY <1>12 DEF TouchDestroyed, Shutdown
<1>13. ASSUME NEW t \in Threads, ReleaseOpen(t) PROVE WakeInv'
  BY <1>13 DEF ReleaseOpen, OnTheWay, Waiting, Shutdown
<1>14. ASSUME NEW t \in Threads, ReleaseClosed(t) PROVE WakeInv'
  BY <1>14 DEF ReleaseClosed, OnTheWay, Waiting, Shutdown
<1>15. ASSUME NEW t \in Threads, Push(t) PROVE WakeInv'
  <2>1. OnTheWay' = OnTheWay \cup {t}
    BY <1>15 DEF Push, OnTheWay
  <2>2. t \notin OnTheWay
    BY <1>15 DEF Push, OnTheWay
  <2>3. Cardinality(OnTheWay') = Cardinality(OnTheWay) + 1
    BY <1>a, <1>b, <2>1, <2>2, NextOnTheWay
  <2> QED
    BY <1>15, <2>1, <2>3 DEF Push, Waiting, Shutdown, MutexFree
<1>16. ASSUME NEW t \in Threads, Notify(t) PROVE WakeInv'
  <2>1. CASE Waiting = {}
    <3>1. Waiting' = {}
      BY <1>16, <2>1 DEF Notify, Waiting
    <3> QED
      BY <1>16, <3>1 DEF Notify
  <2>2. CASE Waiting # {}
    <3>1. PICK w \in Waiting : pc' = [pc EXCEPT ![t] = "dropref", ![w] = "locking"]
      BY <1>16, <2>2 DEF Notify
    <3>2. OnTheWay' = (OnTheWay \ {t}) \cup {w}
      BY <1>16, <3>1 DEF Notify, OnTheWay, Waiting
    <3>3. t \in OnTheWay /\ w \notin OnTheWay /\ w \in Threads
      BY <1>16, <3>1 DEF Notify, OnTheWay, Waiting
    <3>4. Cardinality(OnTheWay \ {t}) = Cardinality(OnTheWay) - 1
      BY <1>a, <3>3, NextOnTheWay
    <3>5. w \notin OnTheWay \ {t} /\ OnTheWay \ {t} \in SUBSET Threads
      BY <1>a, <3>3
    <3>6. Cardinality((OnTheWay \ {t}) \cup {w}) = Cardinality(OnTheWay \ {t}) + 1
      BY <3>3, <3>5, NextOnTheWay
    <3>7. Cardinality(OnTheWay') = Cardinality(OnTheWay)
      BY <1>b, <3>2, <3>4, <3>6
    <3> QED
      BY <1>16, <2>2, <3>1, <3>7 DEF Notify, Shutdown
  <2> QED
    BY <2>1, <2>2
<1>17. ASSUME NEW t \in Threads, DropRef(t) PROVE WakeInv'
  <2>1. OnTheWay' = OnTheWay /\ Waiting' = Waiting
    BY <1>17 DEF DropRef, OnTheWay, Waiting
  <2>2. Shutdown' = Shutdown
    BY <1>17 DEF DropRef, Shutdown, RefInv, Referenced
  <2> QED
    BY <1>17, <2>1, <2>2 DEF DropRef
<1>18. ASSUME NEW t \in Threads, SpuriousWake(t) PROVE WakeInv'
  <2>1. OnTheWay' = OnTheWay \cup {t}
    BY <1>18 DEF SpuriousWake, OnTheWay
  <2>2. t \notin OnTheWay
    BY <1>18 DEF SpuriousWake, OnTheWay
  <2>3. Cardinality(OnTheWay') = Cardinality(OnTheWay) + 1
    BY <1>a, <1>b, <2>1, <2>2, NextOnTheWay
  <2> QED
    BY <1>18, <2>1, <2>3 DEF SpuriousWake, Waiting, Shutdown, MutexFree
<1>19. ASSUME DropOwner PROVE WakeInv'
  <2>1. OnTheWay' = OnTheWay /\ Waiting' = Waiting
    BY <1>19 DEF DropOwner, OnTheWay, Waiting
  <2>2. Shutdown' = Shutdown
    BY <1>19 DEF DropOwner, Shutdown, RefInv, Referenced
  <2> QED
    BY <1>19, <2>1, <2>2 DEF DropOwner
<1>20. ASSUME DtorStore PROVE WakeInv'
  BY <1>20 DEF DtorStore, Shutdown
<1>21. ASSUME DtorNotifyAll PROVE WakeInv'
  BY <1>21 DEF DtorNotifyAll, Shutdown
<1>22. ASSUME DtorClear PROVE WakeInv'
  BY <1>22 DEF DtorClear, Shutdown
<1>23. ASSUME NEW c \in Conns, Break(c) PROVE WakeInv'
  BY <1>23 DEF Break, OnTheWay, Waiting, Shutdown
<1>24. ASSUME UNCHANGED vars PROVE WakeInv'
  BY <1>24 DEF vars, OnTheWay, Waiting, Shutdown
<1> QED
  BY <1>1, <1>2, <1>3, <1>4, <1>5, <1>6, <1>7, <1>8, <1>9, <1>10, <1>11, <1>12, <1>13, <1>14,
     <1>15, <1>16, <1>17, <1>18, <1>19, <1>20, <1>21, <1>22, <1>23, <1>24
     DEF Next, Acquire, Release, Destroy, Terminated

\* A sleeping caller is never forgotten beside a free connection, however many
\* threads acquire and release at once.
THEOREM NoWakeupIsLost == Spec => []NoLostWakeup
<1>1. WakeInv => NoLostWakeup
  BY DEF WakeInv
<1> QED
  BY <1>1, InitTypeInv, NextTypeInv, InitRefInv, NextRefInv, InitWakeInv, NextWakeInv,
     PTL DEF Spec

--------------------------------------------------------------------------------
(* Slots are lost only to failures.  A thread that reconnects has a dead      *)
(* connection, and since it alone has it, nobody else can revive that slot.   *)

SlotsInv ==
  /\ \A t \in Threads : pc[t] = "connecting" => conn[t] \notin open
  /\ SlotsAccounted

LEMMA SetOfConns ==
  ASSUME NEW S \in SUBSET Conns
  PROVE  IsFiniteSet(S) /\ Cardinality(S) \in Nat
  BY ConnsAssumption, FS_Subset, FS_CardinalityType

\* The constructor's connections are exactly those in the queue.
LEMMA InitSlotsInv == Init => SlotsInv
<1> SUFFICES ASSUME Init PROVE SlotsInv
  OBVIOUS
<1>1. PICK built \in SUBSET Conns :
        /\ faults = Cardinality(Conns \ built)
        /\ open = built
        /\ queue \in [1..Cardinality(built) -> built]
        /\ available = Cardinality(built)
        /\ \A i, j \in 1..Cardinality(built) : queue[i] = queue[j] => i = j
  BY DEF Init
<1>2. Cardinality(built) \in Nat /\ IsFiniteSet(built)
  BY SetOfConns
<1>3. Len(queue) = Cardinality(built)
  BY <1>1, InitTypeInv DEF TypeInv
<1>4. queue \in Injection(1..Cardinality(built), built)
  BY <1>1 DEF Injection, IsInjective
<1>5. Cardinality(1..Cardinality(built)) = Cardinality(built)
  BY <1>2, FS_Interval
<1>6. queue \in Surjection(1..Cardinality(built), built)
  BY <1>2, <1>4, <1>5, FS_Injection
<1>7. \A c \in built : \E i \in 1..Len(queue) : queue[i] = c
  BY <1>3, <1>6 DEF Surjection
<1>8. Unusable \subseteq Conns \ built
  BY <1>1, <1>7 DEF Unusable, Circulating, Queued
<1>9. Conns \ built \subseteq Unusable
  BY <1>1 DEF Unusable
<1>10. Cardinality(Unusable) = faults
  BY <1>1, <1>8, <1>9
<1>11. faults \in Nat
  BY <1>1, SetOfConns
<1> QED
  BY <1>10, <1>11 DEF SlotsInv, SlotsAccounted, Init

\* Two ways a step keeps the account: no slot becomes unusable, or one does
\* and a failure is counted for it.
LEMMA SlotsStep ==
  ASSUME TypeInv, TypeInv', SlotsInv,
         \A t \in Threads : pc'[t] = "connecting" => conn'[t] \notin open',
         dtor' = "alive" =>
           /\ dtor = "alive"
           /\ \/ Unusable' \subseteq Unusable /\ faults' = faults
              \/ /\ faults' = faults + 1
                 /\ \E c \in Conns : Unusable' \subseteq Unusable \cup {c}
  PROVE  SlotsInv'
<1> SUFFICES ASSUME dtor' = "alive" PROVE Cardinality(Unusable') <= faults'
  BY DEF SlotsInv, SlotsAccounted
<1>1. faults \in Nat /\ Cardinality(Unusable) <= faults
  BY BoundsAssumption DEF SlotsInv, SlotsAccounted, TypeInv, TypeOK
<1>2. Unusable \in SUBSET Conns /\ Unusable' \in SUBSET Conns
  BY DEF Unusable
<1>3. /\ IsFiniteSet(Unusable) /\ Cardinality(Unusable) \in Nat
      /\ Cardinality(Unusable') \in Nat
  BY <1>2, SetOfConns
<1>4. CASE Unusable' \subseteq Unusable /\ faults' = faults
  <2>1. Cardinality(Unusable') <= Cardinality(Unusable)
    BY <1>3, <1>4, FS_Subset
  <2> QED
    BY <1>1, <1>3, <1>4, <2>1
<1>5. ASSUME NEW c \in Conns, Unusable' \subseteq Unusable \cup {c}, faults' = faults + 1
      PROVE  Cardinality(Unusable') <= faults'
  <2>1. /\ IsFiniteSet(Unusable \cup {c})
        /\ Cardinality(Unusable \cup {c}) <= Cardinality(Unusable) + 1
        /\ Cardinality(Unusable \cup {c}) \in Nat
    <3>1. Unusable \cup {c} \in SUBSET Conns
      BY <1>2
    <3> QED
      BY <1>3, <3>1, SetOfConns, FS_AddElement
  <2>2. Cardinality(Unusable') <= Cardinality(Unusable \cup {c})
    BY <1>5, <2>1, FS_Subset
  <2> QED
    BY <1>1, <1>3, <1>5, <2>1, <2>2
<1> QED
  BY <1>4, <1>5

LEMMA NextSlotsInv ==
  TypeInv /\ TypeInv' /\ RefInv /\ Exclusive /\ SlotsInv /\ [Next]_vars => SlotsInv'
<1> SUFFICES ASSUME TypeInv, TypeInv', RefInv, Exclusive, SlotsInv, [Next]_vars
             PROVE  SlotsInv'
  OBVIOUS
<1> DEFINE Dead == \A t \in Threads : pc'[t] = "connecting" => conn'[t] \notin open'
           Same == /\ dtor' = "alive" => dtor = "alive"
                   /\ dtor' = "alive" => Unusable' \subseteq Unusable /\ faults' = faults
<1>a. ASSUME Dead, Same PROVE SlotsInv'
  BY <1>a, SlotsStep
<1>b. Len(queue) \in Nat
  BY LenProperties DEF TypeInv, TypeOK
<1> USE DEF At, Go
<1>1. ASSUME NEW t \in Threads, StartAcquire(t) PROVE SlotsInv'
  <2>1. Dead
    BY <1>1 DEF StartAcquire, TypeInv, TypeOK, SlotsInv
  <2>2. Unusable' = Unusable
    BY <1>1 DEF StartAcquire, Unusable, Circulating, Queued, Held
  <2>3. dtor' = "alive" => dtor = "alive"
    BY <1>1 DEF StartAcquire
  <2> QED
    BY <1>1, <1>a, <2>1, <2>2, <2>3 DEF StartAcquire
<1>2. ASSUME NEW t \in Threads, FindEmpty(t) PROVE SlotsInv'
  <2>1. Dead
    BY <1>2 DEF FindEmpty, TypeInv, TypeOK, SlotsInv
  <2>2. Unusable' = Unusable
    BY <1>2 DEF FindEmpty, Unusable, Circulating, Queued, Held
  <2>3. dtor' = "alive" => dtor = "alive"
    BY <1>2 DEF FindEmpty
  <2> QED
    BY <1>2, <1>a, <2>1, <2>2, <2>3 DEF FindEmpty
<1>3. ASSUME NEW t \in Threads, Block(t) PROVE SlotsInv'
  <2>1. Dead
    BY <1>3 DEF Block, TypeInv, TypeOK, SlotsInv
  <2>2. Unusable' = Unusable
    BY <1>3 DEF Block, Unusable, Circulating, Queued, Held
  <2>3. dtor' = "alive" => dtor = "alive"
    BY <1>3 DEF Block
  <2> QED
    BY <1>3, <1>a, <2>1, <2>2, <2>3 DEF Block
<1>4. ASSUME NEW t \in Threads, RefuseShutdown(t) PROVE SlotsInv'
  <2>1. Dead
    BY <1>4 DEF RefuseShutdown, TypeInv, TypeOK, SlotsInv
  <2>2. Unusable' = Unusable
    BY <1>4 DEF RefuseShutdown, Unusable, Circulating, Queued, Held
  <2>3. dtor' = "alive" => dtor = "alive"
    BY <1>4 DEF RefuseShutdown
  <2> QED
    BY <1>4, <1>a, <2>1, <2>2, <2>3 DEF RefuseShutdown
<1>5. ASSUME NEW t \in Threads, Pop(t) PROVE SlotsInv'
  <2>1. Dead
    BY <1>5, RestOfQueue DEF Pop, TypeInv, TypeOK, Holding, SlotsInv, Exclusive
  <2>2. ASSUME dtor' = "alive" PROVE Unusable' \subseteq Unusable
    <3>1. Head(queue) = queue[1] /\ Head(queue) # None /\ Head(queue) \in Conns
      BY <1>5, RestOfQueue, ConnsAssumption DEF Pop
    <3>2. \A i \in 1..Len(queue) : queue[i] # queue[1] => queue[i] \in Queued'
      <4>1. ASSUME NEW i \in 1..Len(queue), queue[i] # queue[1] PROVE queue[i] \in Queued'
        <5>1. Len(Rest) = Len(queue) - 1 /\ i # 1
          BY <1>5, <4>1, RestOfQueue DEF Pop
        <5>2. i - 1 \in 1..Len(Rest) /\ (i - 1) + 1 = i
          BY <1>b, <5>1
        <5>3. Rest[i - 1] = queue[(i - 1) + 1]
          BY <1>5, <5>2, RestOfQueue DEF Pop
        <5> QED
          BY <1>5, <5>2, <5>3 DEF Pop, Queued
      <4> QED
        BY <4>1
    <3>3. Held \cup {Head(queue)} \subseteq Held'
      <4>1. conn[t] = None /\ conn' = [conn EXCEPT ![t] = Head(queue)]
        BY <1>5 DEF Pop, TypeInv, TypeOK, Holding
      <4>2. conn'[t] = Head(queue) /\ \A u \in Threads \ {t} : conn'[u] = conn[u]
        BY <4>1 DEF TypeInv, TypeOK
      <4> QED
        BY <3>1, <4>1, <4>2 DEF Held
    <3>4. Circulating \subseteq Circulating'
      BY <3>1, <3>2, <3>3 DEF Circulating, Queued
    <3> QED
      BY <1>5, <3>4 DEF Pop, Unusable
  <2>3. dtor' = "alive" => dtor = "alive"
    BY <1>5 DEF Pop
  <2> QED
    BY <1>5, <1>a, <2>1, <2>2, <2>3 DEF Pop
<1>6. ASSUME NEW t \in Threads, CheckOpen(t) PROVE SlotsInv'
  <2>1. Dead
    BY <1>6 DEF CheckOpen, TypeInv, TypeOK, SlotsInv
  <2>2. Unusable' = Unusable
    BY <1>6 DEF CheckOpen, Unusable, Circulating, Queued, Held
  <2>3. dtor' = "alive" => dtor = "alive"
    BY <1>6 DEF CheckOpen
  <2> QED
    BY <1>6, <1>a, <2>1, <2>2, <2>3 DEF CheckOpen
<1>7. ASSUME NEW t \in Threads, ConnectOk(t) PROVE SlotsInv'
  <2>1. Dead
    BY <1>7 DEF ConnectOk, TypeInv, TypeOK, Holding, SlotsInv, Exclusive
  <2>2. ASSUME dtor' = "alive" PROVE Unusable' \subseteq Unusable
    BY <1>7 DEF ConnectOk, Unusable, Circulating, Queued, Held
  <2>3. dtor' = "alive" => dtor = "alive"
    BY <1>7 DEF ConnectOk
  <2> QED
    BY <1>7, <1>a, <2>1, <2>2, <2>3 DEF ConnectOk
<1>8. ASSUME NEW t \in Threads, ConnectRetry(t) PROVE SlotsInv'
  <2>1. Dead
    BY <1>8 DEF ConnectRetry, TypeInv, TypeOK, SlotsInv
  <2>2. Unusable' = Unusable
    BY <1>8 DEF ConnectRetry, Unusable, Circulating, Queued, Held
  <2>3. dtor' = "alive" => dtor = "alive"
    BY <1>8 DEF ConnectRetry
  <2> QED
    BY <1>8, <1>a, <2>1, <2>2, <2>3 DEF ConnectRetry
<1>9. ASSUME NEW t \in Threads, ConnectGiveUp(t) PROVE SlotsInv'
  <2>1. Dead
    BY <1>9 DEF ConnectGiveUp, TypeInv, TypeOK, Holding, SlotsInv, Exclusive
  <2>2. ASSUME dtor' = "alive" PROVE Unusable' \subseteq Unusable
    <3>1. conn[t] \notin open
      BY <1>9 DEF ConnectGiveUp, SlotsInv
    <3>2. Held \subseteq Held' \cup {conn[t]} /\ Queued' = Queued
      BY <1>9 DEF ConnectGiveUp, Held, Queued, TypeInv, TypeOK
    <3> QED
      BY <1>9, <3>1, <3>2 DEF ConnectGiveUp, Unusable, Circulating
  <2>3. dtor' = "alive" => dtor = "alive"
    BY <1>9 DEF ConnectGiveUp
  <2> QED
    BY <1>9, <1>a, <2>1, <2>2, <2>3 DEF ConnectGiveUp
<1>10. ASSUME NEW t \in Threads, Wrap(t) PROVE SlotsInv'
  <2>1. Dead
    BY <1>10 DEF Wrap, TypeInv, TypeOK, SlotsInv
  <2>2. Unusable' = Unusable
    BY <1>10 DEF Wrap, Unusable, Circulating, Queued, Held
  <2>3. dtor' = "alive" => dtor = "alive"
    BY <1>10 DEF Wrap
  <2> QED
    BY <1>10, <1>a, <2>1, <2>2, <2>3 DEF Wrap
<1>11. ASSUME NEW t \in Threads, WrapFails(t) PROVE SlotsInv'
  <2>1. Dead
    BY <1>11 DEF WrapFails, TypeInv, TypeOK, Holding, SlotsInv, Exclusive
  <2>2. ASSUME dtor' = "alive" PROVE Unusable' \subseteq Unusable
    BY <1>11, <2>2 DEF WrapFails, RefInv, Referenced
  <2>3. dtor' = "alive" => dtor = "alive"
    BY <1>11 DEF WrapFails
  <2> QED
    BY <1>11, <1>a, <2>1, <2>2, <2>3 DEF WrapFails
<1>12. ASSUME NEW t \in Threads, TouchDestroyed(t) PROVE SlotsInv'
  <2>1. Dead
    BY <1>12 DEF TouchDestroyed, TypeInv, TypeOK, Holding, SlotsInv, Exclusive
  <2>2. ASSUME dtor' = "alive" PROVE Unusable' \subseteq Unusable
    BY <1>12, <2>2 DEF TouchDestroyed, RefInv, Referenced
  <2>3. dtor' = "alive" => dtor = "alive"
    BY <1>12 DEF TouchDestroyed
  <2> QED
    BY <1>12, <1>a, <2>1, <2>2, <2>3 DEF TouchDestroyed
<1>13. ASSUME NEW t \in Threads, ReleaseOpen(t) PROVE SlotsInv'
  <2>1. Dead
    BY <1>13 DEF ReleaseOpen, TypeInv, TypeOK, SlotsInv
  <2>2. Unusable' = Unusable
    BY <1>13 DEF ReleaseOpen, Unusable, Circulating, Queued, Held
  <2>3. dtor' = "alive" => dtor = "alive"
    BY <1>13 DEF ReleaseOpen
  <2> QED
    BY <1>13, <1>a, <2>1, <2>2, <2>3 DEF ReleaseOpen
<1>14. ASSUME NEW t \in Threads, ReleaseClosed(t) PROVE SlotsInv'
  <2>1. Dead
    BY <1>14 DEF ReleaseClosed, TypeInv, TypeOK, Holding, SlotsInv, Exclusive
  <2>2. ASSUME dtor' = "alive" PROVE Unusable' \subseteq Unusable
    <3>1. conn[t] \notin open
      BY <1>14 DEF ReleaseClosed, SlotsInv
    <3>2. Held \subseteq Held' \cup {conn[t]} /\ Queued' = Queued
      BY <1>14 DEF ReleaseClosed, Held, Queued, TypeInv, TypeOK
    <3> QED
      BY <1>14, <3>1, <3>2 DEF ReleaseClosed, Unusable, Circulating
  <2>3. dtor' = "alive" => dtor = "alive"
    BY <1>14 DEF ReleaseClosed
  <2> QED
    BY <1>14, <1>a, <2>1, <2>2, <2>3 DEF ReleaseClosed
<1>15. ASSUME NEW t \in Threads, Push(t) PROVE SlotsInv'
  <2>1. Dead
    BY <1>15 DEF Push, TypeInv, TypeOK, Holding, SlotsInv, Exclusive
  <2>2. ASSUME dtor' = "alive" PROVE Unusable' \subseteq Unusable
    <3>1. conn[t] \in Conns
      BY <1>15 DEF Push, TypeInv, TypeOK, Holding
    <3>2. \A i \in 1..Len(queue) : i \in 1..Len(queue') /\ queue'[i] = queue[i]
      BY <1>15, <1>b, <3>1 DEF Push, TypeInv, TypeOK
    <3>3. Len(queue) + 1 \in 1..Len(queue') /\ queue'[Len(queue) + 1] = conn[t]
      BY <1>15, <1>b, <3>1 DEF Push, TypeInv, TypeOK
    <3>4. Queued \cup {conn[t]} \subseteq Queued'
      BY <3>2, <3>3 DEF Queued
    <3>5. Held \subseteq Held' \cup {conn[t]}
      BY <1>15 DEF Push, Held, TypeInv, TypeOK
    <3> QED
      BY <1>15, <3>4, <3>5 DEF Push, Unusable, Circulating
  <2>3. dtor' = "alive" => dtor = "alive"
    BY <1>15 DEF Push
  <2> QED
    BY <1>15, <1>a, <2>1, <2>2, <2>3 DEF Push
<1>16. ASSUME NEW t \in Threads, Notify(t) PROVE SlotsInv'
  <2>1. Dead
    BY <1>16 DEF Notify, Waiting, TypeInv, TypeOK, SlotsInv
  <2>2. Unusable' = Unusable
    BY <1>16 DEF Notify, Waiting, Unusable, Circulating, Queued, Held
  <2>3. dtor' = "alive" => dtor = "alive"
    BY <1>16 DEF Notify, Waiting
  <2> QED
    BY <1>16, <1>a, <2>1, <2>2, <2>3 DEF Notify, Waiting
<1>17. ASSUME NEW t \in Threads, DropRef(t) PROVE SlotsInv'
  <2>1. Dead
    BY <1>17 DEF DropRef, TypeInv, TypeOK, SlotsInv
  <2>2. Unusable' = Unusable
    BY <1>17 DEF DropRef, Unusable, Circulating, Queued, Held
  <2>3. dtor' = "alive" => dtor = "alive"
    BY <1>17 DEF DropRef, RefInv, Referenced, StillReferenced
  <2> QED
    BY <1>17, <1>a, <2>1, <2>2, <2>3 DEF DropRef
<1>18. ASSUME NEW t \in Threads, SpuriousWake(t) PROVE SlotsInv'
  <2>1. Dead
    BY <1>18 DEF SpuriousWake, TypeInv, TypeOK, SlotsInv
  <2>2. Unusable' = Unusable
    BY <1>18 DEF SpuriousWake, Unusable, Circulating, Queued, Held
  <2>3. dtor' = "alive" => dtor = "alive"
    BY <1>18 DEF SpuriousWake
  <2> QED
    BY <1>18, <1>a, <2>1, <2>2, <2>3 DEF SpuriousWake
<1>19. ASSUME DropOwner PROVE SlotsInv'
  <2>1. Dead
    BY <1>19 DEF DropOwner, TypeInv, TypeOK, SlotsInv
  <2>2. Unusable' = Unusable
    BY <1>19 DEF DropOwner, Unusable, Circulating, Queued, Held
  <2>3. dtor' = "alive" => dtor = "alive"
    BY <1>19 DEF DropOwner, RefInv, Referenced, StillReferenced
  <2> QED
    BY <1>19, <1>a, <2>1, <2>2, <2>3 DEF DropOwner
<1>20. ASSUME DtorStore PROVE SlotsInv'
  <2>1. Dead
    BY <1>20 DEF DtorStore, TypeInv, TypeOK, SlotsInv
  <2>2. Unusable' = Unusable
    BY <1>20 DEF DtorStore, Unusable, Circulating, Queued, Held
  <2>3. dtor' = "alive" => dtor = "alive"
    BY <1>20 DEF DtorStore
  <2> QED
    BY <1>20, <1>a, <2>1, <2>2, <2>3 DEF DtorStore
<1>21. ASSUME DtorNotifyAll PROVE SlotsInv'
  <2>1. Dead
    BY <1>21 DEF DtorNotifyAll, TypeInv, TypeOK, SlotsInv
  <2>2. Unusable' = Unusable
    BY <1>21 DEF DtorNotifyAll, Unusable, Circulating, Queued, Held
  <2>3. dtor' = "alive" => dtor = "alive"
    BY <1>21 DEF DtorNotifyAll
  <2> QED
    BY <1>21, <1>a, <2>1, <2>2, <2>3 DEF DtorNotifyAll
<1>22. ASSUME DtorClear PROVE SlotsInv'
  <2>1. Dead
    BY <1>22 DEF DtorClear, TypeInv, TypeOK, SlotsInv
  <2> QED
    BY <1>22, <1>a, <2>1 DEF DtorClear
<1>23. ASSUME NEW c \in Conns, Break(c) PROVE SlotsInv'
  <2>1. Dead
    BY <1>23 DEF Break, SlotsInv
  <2>2. Unusable' \subseteq Unusable \cup {c}
    BY <1>23 DEF Break, Unusable, Circulating, Queued, Held
  <2> QED
    BY <1>23, <2>1, <2>2, SlotsStep DEF Break
<1>24. ASSUME UNCHANGED vars PROVE SlotsInv'
  <2>1. Dead
    BY <1>24 DEF vars, TypeInv, TypeOK, SlotsInv
  <2>2. Unusable' = Unusable
    BY <1>24 DEF vars, Unusable, Circulating, Queued, Held
  <2>3. dtor' = "alive" => dtor = "alive"
    BY <1>24 DEF vars
  <2> QED
    BY <1>24, <1>a, <2>1, <2>2, <2>3 DEF vars
<1> QED
  BY <1>1, <1>2, <1>3, <1>4, <1>5, <1>6, <1>7, <1>8, <1>9, <1>10, <1>11, <1>12, <1>13, <1>14,
     <1>15, <1>16, <1>17, <1>18, <1>19, <1>20, <1>21, <1>22, <1>23, <1>24
     DEF Next, Acquire, Release, Destroy, Terminated

\* The pool never loses a healthy slot, whatever fails and however calls overlap.
THEOREM SlotsAreAccounted == Spec => []SlotsAccounted
<1>1. SlotsInv => SlotsAccounted
  BY DEF SlotsInv
<1> QED
  BY <1>1, InitTypeInv, NextTypeInv, InitRefInv, NextRefInv, InitExclusive, NextExclusive,
     InitSlotsInv, NextSlotsInv, PTL DEF Spec

--------------------------------------------------------------------------------
(* A caller sleeps only for want of connections *)

LEMMA UnionBound ==
  ASSUME NEW S, NEW T, IsFiniteSet(S), IsFiniteSet(T)
  PROVE  /\ IsFiniteSet(S \cup T) /\ Cardinality(S \cup T) \in Nat
         /\ Cardinality(S \cup T) <= Cardinality(S) + Cardinality(T)
<1>1. IsFiniteSet(S \cap T)
  BY FS_Intersection
<1>2. Cardinality(S) \in Nat /\ Cardinality(T) \in Nat /\ Cardinality(S \cap T) \in Nat
  BY <1>1, FS_CardinalityType
<1>3. /\ IsFiniteSet(S \cup T)
      /\ Cardinality(S \cup T) = Cardinality(S) + Cardinality(T) - Cardinality(S \cap T)
  BY FS_Union
<1>4. Cardinality(S \cup T) \in Nat
  BY <1>3, FS_CardinalityType
<1> QED
  BY <1>2, <1>3, <1>4

\* The queue has no more connections than places, and the threads no more than
\* there are threads with one.
LEMMA CirculatingBound ==
  ASSUME TypeInv
  PROVE  /\ Queued \in SUBSET Conns /\ Cardinality(Queued) <= Len(queue)
         /\ Held \in SUBSET Conns
         /\ Cardinality(Held) <= Cardinality({t \in Threads : conn[t] # None})
<1> DEFINE holders == {t \in Threads : conn[t] # None}
<1>1. Len(queue) \in Nat /\ queue \in [1..Len(queue) -> Conns]
  BY LenProperties DEF TypeInv, TypeOK
<1>2. Queued \in SUBSET Conns
  BY <1>1 DEF Queued
<1>3. Cardinality(Queued) <= Len(queue)
  <2>1. queue \in Surjection(1..Len(queue), Queued)
    BY <1>1 DEF Queued, Surjection
  <2>2. IsFiniteSet(1..Len(queue)) /\ Cardinality(1..Len(queue)) = Len(queue)
    BY <1>1, FS_Interval
  <2> QED
    BY <2>1, <2>2, FS_Surjection
<1>4. Held \in SUBSET Conns
  BY DEF Held, TypeInv, TypeOK
<1>5. Cardinality(Held) <= Cardinality(holders)
  <2> DEFINE f == [t \in holders |-> conn[t]]
  <2>1. f \in Surjection(holders, Held)
    BY DEF Held, Surjection, TypeInv, TypeOK
  <2>2. IsFiniteSet(holders)
    BY SetOfThreads
  <2> HIDE DEF f, holders
  <2> QED
    BY <2>1, <2>2, FS_Surjection
<1> QED
  BY <1>2, <1>3, <1>4, <1>5

\* The slots that work are in the queue or in a thread's hands, and while a
\* thread sleeps every connection in the queue has somebody on the way to it.
LEMMA SleepersWantConnections ==
  ASSUME TypeInv, NoLostWakeup, SlotsAccounted
  PROVE  CapacityInUse
<1> SUFFICES ASSUME dtor = "alive", Waiting # {}
             PROVE  Cardinality(Conns) <= Cardinality(Occupied) + faults
  BY DEF CapacityInUse
<1> DEFINE holders == {t \in Threads : conn[t] # None}
<1>1. Len(queue) <= Cardinality(OnTheWay) /\ Cardinality(Unusable) <= faults
  BY DEF NoLostWakeup, SlotsAccounted, Shutdown
<1>2. OnTheWay \in SUBSET Threads /\ holders \in SUBSET Threads
  BY DEF OnTheWay
<1>3. Occupied = OnTheWay \cup holders /\ OnTheWay \cap holders = {}
  BY DEF Occupied, OnTheWay, TypeInv, Holding
<1>4. Unusable \in SUBSET Conns /\ Conns \subseteq Unusable \cup (Queued \cup Held)
  BY DEF Unusable, Circulating
<1>5. /\ Queued \in SUBSET Conns /\ Cardinality(Queued) <= Len(queue)
      /\ Held \in SUBSET Conns /\ Cardinality(Held) <= Cardinality(holders)
  BY CirculatingBound
<1> HIDE DEF holders
<1>6. /\ \A S \in {OnTheWay, holders} : IsFiniteSet(S) /\ Cardinality(S) \in Nat
      /\ \A S \in {Unusable, Queued, Held} : IsFiniteSet(S) /\ Cardinality(S) \in Nat
  BY <1>2, <1>4, <1>5, SetOfThreads, SetOfConns
<1>7. Cardinality(Occupied) = Cardinality(OnTheWay) + Cardinality(holders)
  BY <1>3, <1>6, FS_Union, FS_EmptySet
<1>8. Cardinality(Queued \cup Held) <= Cardinality(Queued) + Cardinality(Held)
  BY <1>6, UnionBound
<1>9. Cardinality(Conns) <= Cardinality(Unusable) + Cardinality(Queued \cup Held)
  <2>1. IsFiniteSet(Queued \cup Held)
    BY <1>6, UnionBound
  <2>2. /\ IsFiniteSet(Unusable \cup (Queued \cup Held))
        /\ Cardinality(Unusable \cup (Queued \cup Held)) \in Nat
        /\ Cardinality(Unusable \cup (Queued \cup Held)) <=
             Cardinality(Unusable) + Cardinality(Queued \cup Held)
    BY <1>6, <2>1, UnionBound
  <2>3. Cardinality(Conns) <= Cardinality(Unusable \cup (Queued \cup Held))
    BY <1>4, <2>2, FS_Subset
  <2>4. Cardinality(Conns) \in Nat /\ Cardinality(Queued \cup Held) \in Nat
    BY <1>6, <2>1, FS_CardinalityType, SetOfConns
  <2> QED
    BY <1>6, <2>2, <2>3, <2>4
<1>10. Cardinality(Conns) \in Nat /\ Cardinality(Queued \cup Held) \in Nat
  BY <1>6, UnionBound, SetOfConns
<1>11. faults \in Nat /\ Len(queue) \in Nat
  BY LenProperties, BoundsAssumption DEF TypeInv, TypeOK
<1> QED
  BY <1>1, <1>5, <1>6, <1>7, <1>8, <1>9, <1>10, <1>11

\* While a caller sleeps, every slot but those that failed has a thread that
\* uses it or comes for it: callers wait for each other, never for nothing.
THEOREM SleepersAreJustified == Spec => []CapacityInUse
<1>1. TypeInv /\ WakeInv /\ SlotsInv => CapacityInUse
  BY SleepersWantConnections DEF WakeInv, SlotsInv
<1> QED
  BY <1>1, InitTypeInv, NextTypeInv, InitRefInv, NextRefInv, InitExclusive, NextExclusive,
     InitWakeInv, NextWakeInv, InitSlotsInv, NextSlotsInv, PTL DEF Spec

\* Everybody waits for ever only when every slot has failed: a pool in which a
\* caller sleeps and no other thread is at work is one without connections.
THEOREM StuckOnlyWhenDrained ==
  Spec => [](dtor = "alive" /\ Waiting # {} /\ (\A t \in Threads : pc[t] \in {"idle", "waiting"})
               => Cardinality(Conns) <= faults)
<1> DEFINE Stuck == dtor = "alive" /\ Waiting # {} /\ \A t \in Threads : pc[t] \in {"idle", "waiting"}
<1>1. TypeInv /\ CapacityInUse => (Stuck => Cardinality(Conns) <= faults)
  <2> SUFFICES ASSUME TypeInv, CapacityInUse, Stuck PROVE Cardinality(Conns) <= faults
    OBVIOUS
  <2>1. Occupied = {}
    BY DEF Occupied, Holding
  <2>2. Cardinality(Occupied) = 0
    BY <2>1, FS_EmptySet
  <2>3. faults \in Nat
    BY BoundsAssumption DEF TypeInv, TypeOK
  <2> QED
    BY <2>2, <2>3 DEF CapacityInUse
<1> HIDE DEF Stuck
<1>2. Spec => [](Stuck => Cardinality(Conns) <= faults)
  BY <1>1, SleepersAreJustified, InitTypeInv, NextTypeInv, PTL DEF Spec
<1> QED
  BY <1>2 DEF Stuck

--------------------------------------------------------------------------------
(* The pool implements its contract.  A connection is reserved when it leaves *)
(* the queue and served when its wrapper exists; the pool is closed from the  *)
(* moment its last reference is gone.                                         *)

LEMMA InitLease == Init => Lease!LeaseInit
<1> SUFFICES ASSUME Init PROVE Lease!LeaseInit
  OBVIOUS
<1>1. Queued \in SUBSET Conns
  <2>1. \A i \in 1..Len(queue) : queue[i] \in Conns
    BY InitTypeInv, ElementOfSeq DEF TypeInv, TypeOK
  <2> QED
    BY <2>1 DEF Queued
<1> QED
  BY <1>1 DEF Init, Lease!LeaseInit, Asking

LEMMA NextLease ==
  TypeInv /\ RefInv /\ Exclusive /\ [Next]_vars => [Lease!LeaseNext]_(Lease!leaseVars)
<1> SUFFICES ASSUME TypeInv, RefInv, Exclusive, [Next]_vars
             PROVE  [Lease!LeaseNext]_(Lease!leaseVars)
  OBVIOUS
<1> DEFINE asking == {t \in Threads : pc[t] \in Asking}
           Stutter == UNCHANGED Lease!leaseVars
           Goal == Lease!LeaseNext \/ Stutter
<1>a. Len(queue) \in Nat
  BY LenProperties DEF TypeInv, TypeOK
<1> USE DEF At, Go
<1>1. ASSUME NEW t \in Threads, StartAcquire(t) PROVE Goal
  <2>1. Queued' = Queued
    BY <1>1 DEF StartAcquire, Queued
  <2>2. asking' = asking \cup {t}
    BY <1>1 DEF StartAcquire, TypeInv, TypeOK, Asking
  <2>3. Lease!Ask(t)
    BY <1>1, <2>1, <2>2 DEF StartAcquire, Lease!Ask, TypeInv, TypeOK, Holding, Asking
  <2> QED
    BY <2>3 DEF Lease!LeaseNext
<1>2. ASSUME NEW t \in Threads, FindEmpty(t) PROVE Goal
  <2>1. Queued' = Queued /\ conn' = conn
    BY <1>2 DEF FindEmpty, Queued
  <2>2. asking' = asking /\ ((dtor # "alive")' <=> dtor # "alive")
    BY <1>2 DEF FindEmpty, TypeInv, TypeOK, Asking
  <2> QED
    BY <2>1, <2>2 DEF Lease!leaseVars
<1>3. ASSUME NEW t \in Threads, Block(t) PROVE Goal
  <2>1. Queued' = Queued /\ conn' = conn
    BY <1>3 DEF Block, Queued
  <2>2. asking' = asking /\ ((dtor # "alive")' <=> dtor # "alive")
    BY <1>3 DEF Block, TypeInv, TypeOK, Asking
  <2> QED
    BY <2>1, <2>2 DEF Lease!leaseVars
<1>4. ASSUME NEW t \in Threads, RefuseShutdown(t) PROVE Goal
  <2>1. Queued' = Queued
    BY <1>4 DEF RefuseShutdown, Queued
  <2>2. asking' = asking \ {t}
    BY <1>4 DEF RefuseShutdown, TypeInv, TypeOK, Asking
  <2>3. Lease!Refuse(t)
    BY <1>4, <2>1, <2>2 DEF RefuseShutdown, Lease!Refuse, TypeInv, TypeOK, Holding, Asking
  <2> QED
    BY <2>3 DEF Lease!LeaseNext
<1>5. ASSUME NEW t \in Threads, Pop(t) PROVE Goal
  <2>1. Head(queue) = queue[1] /\ queue[1] \in Queued
    BY <1>5, <1>a, RestOfQueue DEF Pop, Queued, TypeInv
  <2>2. Queued' = Queued \ {queue[1]}
    <3>1. ASSUME NEW i \in 1..Len(queue), i # 1 PROVE queue[i] \in Queued'
      <4>1. Len(Rest) = Len(queue) - 1
        BY <1>5, RestOfQueue DEF Pop
      <4>2. i - 1 \in 1..Len(Rest) /\ (i - 1) + 1 = i
        BY <1>a, <3>1, <4>1
      <4>3. Rest[i - 1] = queue[(i - 1) + 1]
        BY <1>5, <4>2, RestOfQueue DEF Pop
      <4> QED
        BY <1>5, <4>2, <4>3 DEF Pop, Queued
    <3>2. ASSUME NEW i \in 1..Len(Rest) PROVE Rest[i] \in Queued \ {queue[1]}
      <4>1. Len(Rest) = Len(queue) - 1 /\ Rest[i] = queue[i + 1]
        BY <1>5, RestOfQueue DEF Pop
      <4>2. i + 1 \in 1..Len(queue) /\ 1 \in 1..Len(queue) /\ i + 1 # 1
        BY <1>a, <4>1
      <4> QED
        BY <4>1, <4>2 DEF Exclusive, Queued
    <3> QED
      BY <1>5, <3>1, <3>2 DEF Pop, Queued
  <2>3. asking' = asking
    BY <1>5 DEF Pop, TypeInv, TypeOK, Asking
  <2>4. Lease!Reserve(t)
    BY <1>5, <2>1, <2>2, <2>3 DEF Pop, Lease!Reserve, TypeInv, TypeOK, Holding, Asking
  <2> QED
    BY <2>4 DEF Lease!LeaseNext
<1>6. ASSUME NEW t \in Threads, CheckOpen(t) PROVE Goal
  <2>1. Queued' = Queued /\ conn' = conn
    BY <1>6 DEF CheckOpen, Queued
  <2>2. asking' = asking /\ ((dtor # "alive")' <=> dtor # "alive")
    BY <1>6 DEF CheckOpen, TypeInv, TypeOK, Asking
  <2> QED
    BY <2>1, <2>2 DEF Lease!leaseVars
<1>7. ASSUME NEW t \in Threads, ConnectOk(t) PROVE Goal
  <2>1. Queued' = Queued /\ conn' = conn
    BY <1>7 DEF ConnectOk, Queued
  <2>2. asking' = asking /\ ((dtor # "alive")' <=> dtor # "alive")
    BY <1>7 DEF ConnectOk, TypeInv, TypeOK, Asking
  <2> QED
    BY <2>1, <2>2 DEF Lease!leaseVars
<1>8. ASSUME NEW t \in Threads, ConnectRetry(t) PROVE Goal
  <2>1. Queued' = Queued /\ conn' = conn
    BY <1>8 DEF ConnectRetry, Queued
  <2>2. asking' = asking /\ ((dtor # "alive")' <=> dtor # "alive")
    BY <1>8 DEF ConnectRetry, TypeInv, TypeOK, Asking
  <2> QED
    BY <2>1, <2>2 DEF Lease!leaseVars
<1>9. ASSUME NEW t \in Threads, ConnectGiveUp(t) PROVE Goal
  <2>1. Queued' = Queued
    BY <1>9 DEF ConnectGiveUp, Queued
  <2>2. asking' = asking \ {t}
    BY <1>9 DEF ConnectGiveUp, TypeInv, TypeOK, Asking
  <2>3. Lease!Refuse(t)
    BY <1>9, <2>1, <2>2 DEF ConnectGiveUp, Lease!Refuse, TypeInv, TypeOK, Holding, Asking
  <2> QED
    BY <2>3 DEF Lease!LeaseNext
<1>10. ASSUME NEW t \in Threads, Wrap(t) PROVE Goal
  <2>1. Queued' = Queued
    BY <1>10 DEF Wrap, Queued
  <2>2. asking' = asking \ {t}
    BY <1>10 DEF Wrap, TypeInv, TypeOK, Asking
  <2>3. Lease!Serve(t)
    BY <1>10, <2>1, <2>2 DEF Wrap, Lease!Serve, TypeInv, TypeOK, Holding, Asking, RefInv
  <2> QED
    BY <2>3 DEF Lease!LeaseNext
<1>11. ASSUME NEW t \in Threads, WrapFails(t) PROVE Goal
  <2>1. Queued' = Queued
    BY <1>11 DEF WrapFails, Queued
  <2>2. asking' = asking \ {t}
    BY <1>11 DEF WrapFails, TypeInv, TypeOK, Asking
  <2>3. Lease!Refuse(t)
    BY <1>11, <2>1, <2>2 DEF WrapFails, Lease!Refuse, TypeInv, TypeOK, Holding, Asking
  <2> QED
    BY <2>3 DEF Lease!LeaseNext
<1>12. ASSUME NEW t \in Threads, TouchDestroyed(t) PROVE Goal
  <2>1. Queued' = Queued
    BY <1>12 DEF TouchDestroyed, Queued
  <2>2. asking' = asking \ {t}
    BY <1>12 DEF TouchDestroyed, TypeInv, TypeOK, Asking
  <2>3. Lease!Refuse(t)
    BY <1>12, <2>1, <2>2 DEF TouchDestroyed, Lease!Refuse, TypeInv, TypeOK, Holding, Asking
  <2> QED
    BY <2>3 DEF Lease!LeaseNext
<1>13. ASSUME NEW t \in Threads, ReleaseOpen(t) PROVE Goal
  <2>1. Queued' = Queued /\ conn' = conn
    BY <1>13 DEF ReleaseOpen, Queued
  <2>2. asking' = asking /\ ((dtor # "alive")' <=> dtor # "alive")
    BY <1>13 DEF ReleaseOpen, TypeInv, TypeOK, Asking
  <2> QED
    BY <2>1, <2>2 DEF Lease!leaseVars
<1>14. ASSUME NEW t \in Threads, ReleaseClosed(t) PROVE Goal
  <2>1. Queued' = Queued
    BY <1>14 DEF ReleaseClosed, Queued
  <2>2. asking' = asking
    BY <1>14 DEF ReleaseClosed, TypeInv, TypeOK, Asking
  <2>3. Lease!Lose(t)
    BY <1>14, <2>1, <2>2 DEF ReleaseClosed, Lease!Lose, TypeInv, TypeOK, Holding, Asking,
       Lease!Served
  <2> QED
    BY <2>3 DEF Lease!LeaseNext
<1>15. ASSUME NEW t \in Threads, Push(t) PROVE Goal
  <2>1. conn[t] \in Conns
    BY <1>15 DEF Push, TypeInv, TypeOK, Holding
  <2>2. Queued' = Queued \cup {conn[t]}
    <3>1. Len(queue') = Len(queue) + 1
      BY <1>15, <2>1 DEF Push, TypeInv, TypeOK
    <3>2. \A i \in 1..Len(queue) : queue'[i] = queue[i]
      BY <1>15, <1>a, <2>1 DEF Push, TypeInv, TypeOK
    <3>3. queue'[Len(queue) + 1] = conn[t]
      BY <1>15, <1>a, <2>1 DEF Push, TypeInv, TypeOK
    <3> QED
      BY <1>a, <3>1, <3>2, <3>3 DEF Queued
  <2>3. asking' = asking
    BY <1>15 DEF Push, TypeInv, TypeOK, Asking
  <2>4. Lease!GiveBack(t)
    BY <1>15, <2>1, <2>2, <2>3, ConnsAssumption
       DEF Push, Lease!GiveBack, Lease!Served, TypeInv, TypeOK, Asking
  <2> QED
    BY <2>4 DEF Lease!LeaseNext
<1>16. ASSUME NEW t \in Threads, Notify(t) PROVE Goal
  <2>1. Queued' = Queued /\ conn' = conn
    BY <1>16 DEF Notify, Queued
  <2>2. asking' = asking /\ ((dtor # "alive")' <=> dtor # "alive")
    BY <1>16 DEF Notify, TypeInv, TypeOK, Asking, Waiting
  <2> QED
    BY <2>1, <2>2 DEF Lease!leaseVars
<1>17. ASSUME NEW t \in Threads, DropRef(t) PROVE Goal
  <2>1. Queued' = Queued /\ conn' = conn
    BY <1>17 DEF DropRef, Queued
  <2>2. asking' = asking
    BY <1>17 DEF DropRef, TypeInv, TypeOK, Asking
  <2>3. CASE dtor' = dtor
    BY <2>1, <2>2, <2>3 DEF Lease!leaseVars
  <2>4. CASE dtor' # dtor
    <3>1. dtor = "alive" /\ dtor' = "dying"
      BY <1>17, <2>4 DEF DropRef, RefInv, Referenced, Referring
    <3>2. \A u \in Threads : pc[u] \notin {"using", "releasing"}
      BY <1>17, <2>4 DEF DropRef, StillReferenced, Referring
    <3>3. Lease!Served = {}
      BY <3>2 DEF Lease!Served, TypeInv, TypeOK, Holding, Asking
    <3>4. Lease!Close
      BY <2>1, <2>2, <3>1, <3>3 DEF Lease!Close
    <3> QED
      BY <3>4 DEF Lease!LeaseNext
  <2> QED
    BY <2>3, <2>4
<1>18. ASSUME NEW t \in Threads, SpuriousWake(t) PROVE Goal
  <2>1. Queued' = Queued /\ conn' = conn
    BY <1>18 DEF SpuriousWake, Queued
  <2>2. asking' = asking /\ ((dtor # "alive")' <=> dtor # "alive")
    BY <1>18 DEF SpuriousWake, TypeInv, TypeOK, Asking
  <2> QED
    BY <2>1, <2>2 DEF Lease!leaseVars
<1>19. ASSUME DropOwner PROVE Goal
  <2>1. Queued' = Queued /\ conn' = conn
    BY <1>19 DEF DropOwner, Queued
  <2>2. asking' = asking
    BY <1>19 DEF DropOwner, TypeInv, TypeOK, Asking
  <2>3. CASE dtor' = dtor
    BY <2>1, <2>2, <2>3 DEF Lease!leaseVars
  <2>4. CASE dtor' # dtor
    <3>1. dtor = "alive" /\ dtor' = "dying"
      BY <1>19, <2>4 DEF DropOwner, RefInv, Referenced, Referring
    <3>2. \A u \in Threads : pc[u] \notin {"using", "releasing"}
      BY <1>19, <2>4 DEF DropOwner, StillReferenced, Referring
    <3>3. Lease!Served = {}
      BY <3>2 DEF Lease!Served, TypeInv, TypeOK, Holding, Asking
    <3>4. Lease!Close
      BY <2>1, <2>2, <3>1, <3>3 DEF Lease!Close
    <3> QED
      BY <3>4 DEF Lease!LeaseNext
  <2> QED
    BY <2>3, <2>4
<1>20. ASSUME DtorStore PROVE Goal
  <2>1. Queued' = Queued /\ conn' = conn
    BY <1>20 DEF DtorStore, Queued
  <2>2. asking' = asking /\ ((dtor # "alive")' <=> dtor # "alive")
    BY <1>20 DEF DtorStore
  <2> QED
    BY <2>1, <2>2 DEF Lease!leaseVars
<1>21. ASSUME DtorNotifyAll PROVE Goal
  <2>1. Queued' = Queued /\ conn' = conn
    BY <1>21 DEF DtorNotifyAll, Queued
  <2>2. asking' = asking /\ ((dtor # "alive")' <=> dtor # "alive")
    BY <1>21 DEF DtorNotifyAll, TypeInv, TypeOK, Asking
  <2> QED
    BY <2>1, <2>2 DEF Lease!leaseVars
<1>22. ASSUME DtorClear PROVE Goal
  <2>1. Queued' = {}
    BY <1>22 DEF DtorClear, Queued
  <2>2. asking' = asking
    BY <1>22 DEF DtorClear, TypeInv, TypeOK, Asking
  <2>3. Lease!Drain
    BY <1>22, <2>1, <2>2 DEF DtorClear, Lease!Drain
  <2> QED
    BY <2>3 DEF Lease!LeaseNext
<1>23. ASSUME NEW c \in Conns, Break(c) PROVE Goal
  <2>1. Queued' = Queued /\ conn' = conn
    BY <1>23 DEF Break, Queued
  <2>2. asking' = asking /\ ((dtor # "alive")' <=> dtor # "alive")
    BY <1>23 DEF Break
  <2> QED
    BY <2>1, <2>2 DEF Lease!leaseVars
<1>24. ASSUME UNCHANGED vars PROVE Goal
  <2>1. Queued' = Queued /\ conn' = conn
    BY <1>24 DEF vars, Queued
  <2>2. asking' = asking /\ ((dtor # "alive")' <=> dtor # "alive")
    BY <1>24 DEF vars
  <2> QED
    BY <2>1, <2>2 DEF Lease!leaseVars
<1> QED
  BY <1>1, <1>2, <1>3, <1>4, <1>5, <1>6, <1>7, <1>8, <1>9, <1>10, <1>11, <1>12, <1>13, <1>14,
     <1>15, <1>16, <1>17, <1>18, <1>19, <1>20, <1>21, <1>22, <1>23, <1>24
     DEF Next, Acquire, Release, Destroy, Terminated

\* Every behaviour of the pool is one its contract allows.
THEOREM Refinement == Spec => ImplementsLease
  BY InitTypeInv, NextTypeInv, InitRefInv, NextRefInv, InitExclusive, NextExclusive,
     InitLease, NextLease, PTL DEF Spec, ImplementsLease, Lease!LeaseSpec
================================================================================
