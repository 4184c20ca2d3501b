---------------------------- MODULE ConnectionPool -----------------------------
(***************************************************************************)
(* ConnectionPool and PooledConnection of                                  *)
(* src/src/infrastructure/database/connection_pool.{hpp,cpp}: threads that *)
(* acquire a connection, use it and drop its wrapper, the mutex and the    *)
(* condition variable they meet on, the reference count that keeps the     *)
(* pool alive, and the destructor that runs when it falls to zero.         *)
(*                                                                         *)
(* A member of Conns is a slot of the pool: reconnecting replaces a slot's *)
(* dead connection by a live one.  A step is what one thread does between  *)
(* two points where another thread can see it or get in its way.           *)
(***************************************************************************)
EXTENDS Integers, Sequences, FiniteSets

CONSTANTS
  Threads,               \* threads that call acquire
  Conns,                 \* connection slots, m_pool_size of them
  None,                  \* a null std::shared_ptr<pqxx::connection>
  MaxRetries,            \* m_max_retries
  MaxFaults,             \* bound: connections that fail to open or go dead
  MaxCalls,              \* bound: acquires by one thread
  MaxSpurious,           \* bound: spurious wakeups of the condition variable
  OwnerOutlivesAcquires  \* the creator keeps its pointer while a thread is inside acquire

ASSUME ThreadsAssumption == IsFiniteSet(Threads)
ASSUME ConnsAssumption == IsFiniteSet(Conns) /\ None \notin Conns
ASSUME BoundsAssumption ==
  /\ MaxRetries \in Nat /\ MaxFaults \in Nat /\ MaxCalls \in Nat
  /\ MaxSpurious \in Nat /\ OwnerOutlivesAcquires \in BOOLEAN

VARIABLES
  queue,       \* m_pool
  available,   \* m_available
  open,        \* the slots whose connection answers TRUE to is_open()
  pc,          \* where each thread is
  conn,        \* the connection a thread has in its hands
  attempt,     \* create_connection's loop counter
  owner,       \* the creator still holds its shared_ptr to the pool
  dtor,        \* how far ~ConnectionPool has come
  calls, faults, spurious   \* what the bounds bound

vars == <<queue, available, open, pc, conn, attempt, owner, dtor, calls, faults, spurious>>

--------------------------------------------------------------------------------
\* m_mutex is held across steps only by a thread that found the pool empty and
\* has not blocked yet; every other critical section is a single step.
MutexFree_NoLock == TRUE
MutexFree == \A t \in Threads : pc[t] # "blocking"

\* m_shutdown: the destructor's first statement sets it.
Shutdown == dtor \in {"stored", "notified", "destroyed"}

\* A thread in one of these places is inside acquire and has no reference yet.
Asking == {"locking", "blocking", "waiting", "popped", "connecting", "wrapping"}

\* A thread in one of these places owns a wrapper, hence a shared_ptr to the pool.
Referring == {"using", "releasing", "notifying", "dropref"}
Referenced == owner \/ \E t \in Threads : pc[t] \in Referring

At(t, place) == pc[t] = place
Go(t, place) == pc' = [pc EXCEPT ![t] = place]

\* The constructor opens m_pool_size connections and skips those that fail.
Init ==
  /\ \E built \in SUBSET Conns :
       /\ faults = Cardinality(Conns \ built)
       /\ faults <= MaxFaults
       /\ open = built
       /\ available = Cardinality(built)
       /\ queue \in [1..Cardinality(built) -> built]
       /\ \A i, j \in 1..Cardinality(built) : queue[i] = queue[j] => i = j
  /\ pc = [t \in Threads |-> "idle"]
  /\ conn = [t \in Threads |-> None]
  /\ attempt = [t \in Threads |-> 0]
  /\ calls = [t \in Threads |-> 0]
  /\ owner = TRUE
  /\ dtor = "alive"
  /\ spurious = 0

--------------------------------------------------------------------------------
(* ConnectionPool::acquire *)

StartAcquire(t) ==
  /\ At(t, "idle")
  /\ calls[t] < MaxCalls
  /\ OwnerOutlivesAcquires => owner
  /\ calls' = [calls EXCEPT ![t] = @ + 1]
  /\ Go(t, "locking")
  /\ UNCHANGED <<queue, available, open, conn, attempt, owner, dtor, faults, spurious>>

\* Locks m_mutex and finds the predicate of m_cv.wait false.
FindEmpty(t) ==
  /\ At(t, "locking")
  /\ MutexFree
  /\ dtor # "destroyed"
  /\ available = 0
  /\ ~Shutdown
  /\ Go(t, "blocking")
  /\ UNCHANGED <<queue, available, open, conn, attempt, owner, dtor, calls, faults, spurious>>

\* Blocks on m_cv and releases m_mutex, in one step as wait() does.
Block(t) ==
  /\ At(t, "blocking")
  /\ Go(t, "waiting")
  /\ UNCHANGED <<queue, available, open, conn, attempt, owner, dtor, calls, faults, spurious>>

\* Locks m_mutex and returns "Connection pool is shutting down".
RefuseShutdown(t) ==
  /\ At(t, "locking")
  /\ MutexFree
  /\ dtor # "destroyed"
  /\ Shutdown
  /\ Go(t, "idle")
  /\ UNCHANGED <<queue, available, open, conn, attempt, owner, dtor, calls, faults, spurious>>

\* m_pool.pop()
Rest_NotPopped == queue
Rest == Tail(queue)

\* Locks m_mutex, takes the front of the queue and unlocks.
Pop(t) ==
  /\ At(t, "locking")
  /\ MutexFree
  /\ ~Shutdown
  /\ available > 0
  /\ conn' = [conn EXCEPT ![t] = Head(queue)]
  /\ queue' = Rest
  /\ available' = available - 1
  /\ Go(t, "popped")
  /\ UNCHANGED <<open, attempt, owner, dtor, calls, faults, spurious>>

CheckOpen(t) ==
  /\ At(t, "popped")
  /\ Go(t, IF conn[t] \in open THEN "wrapping" ELSE "connecting")
  /\ attempt' = [attempt EXCEPT ![t] = 0]
  /\ UNCHANGED <<queue, available, open, conn, owner, dtor, calls, faults, spurious>>

(* create_connection, one step for each attempt *)

ConnectOk(t) ==
  /\ At(t, "connecting")
  /\ dtor # "destroyed"
  /\ open' = open \cup {conn[t]}
  /\ Go(t, "wrapping")
  /\ UNCHANGED <<queue, available, conn, attempt, owner, dtor, calls, faults, spurious>>

\* The loop sleeps and goes round again.
MayRetry_OffByOne(t) == attempt[t] <= MaxRetries
MayRetry(t) == attempt[t] < MaxRetries

ConnectRetry(t) ==
  /\ At(t, "connecting")
  /\ dtor # "destroyed"
  /\ MayRetry(t)
  /\ attempt' = [attempt EXCEPT ![t] = @ + 1]
  /\ UNCHANGED <<queue, available, open, pc, conn, owner, dtor, calls, faults, spurious>>

\* acquire returns "Failed to reconnect to database"; the slot goes nowhere.
ConnectGiveUp(t) ==
  /\ At(t, "connecting")
  /\ dtor # "destroyed"
  /\ ~MayRetry(t)
  /\ conn' = [conn EXCEPT ![t] = None]
  /\ Go(t, "idle")
  /\ UNCHANGED <<queue, available, open, attempt, owner, dtor, calls, faults, spurious>>

\* shared_from_this() yields a wrapper while a reference to the pool is left.
Wrap(t) ==
  /\ At(t, "wrapping")
  /\ Referenced
  /\ Go(t, "using")
  /\ UNCHANGED <<queue, available, open, conn, attempt, owner, dtor, calls, faults, spurious>>

\* shared_from_this() throws std::bad_weak_ptr and the connection is closed.
WrapFails(t) ==
  /\ At(t, "wrapping")
  /\ ~Referenced
  /\ dtor # "destroyed"
  /\ open' = open \ {conn[t]}
  /\ conn' = [conn EXCEPT ![t] = None]
  /\ Go(t, "idle")
  /\ UNCHANGED <<queue, available, attempt, owner, dtor, calls, faults, spurious>>

--------------------------------------------------------------------------------
(* PooledConnection::release, run by ~PooledConnection, and the              *)
(* ConnectionPool::release it calls                                          *)

ReleaseOpen(t) ==
  /\ At(t, "using")
  /\ conn[t] \in open
  /\ Go(t, "releasing")
  /\ UNCHANGED <<queue, available, open, conn, attempt, owner, dtor, calls, faults, spurious>>

ReleaseClosed_Always(t) ==
  /\ At(t, "using")
  /\ conn' = [conn EXCEPT ![t] = None]
  /\ Go(t, "dropref")
  /\ UNCHANGED <<queue, available, open, attempt, owner, dtor, calls, faults, spurious>>

\* A connection that is closed by now is dropped and not replaced.
ReleaseClosed(t) ==
  /\ At(t, "using")
  /\ conn[t] \notin open
  /\ conn' = [conn EXCEPT ![t] = None]
  /\ Go(t, "dropref")
  /\ UNCHANGED <<queue, available, open, attempt, owner, dtor, calls, faults, spurious>>

Push(t) ==
  /\ At(t, "releasing")
  /\ MutexFree
  /\ queue' = Append(queue, conn[t])
  /\ available' = available + 1
  /\ conn' = [conn EXCEPT ![t] = None]
  /\ Go(t, "notifying")
  /\ UNCHANGED <<open, attempt, owner, dtor, calls, faults, spurious>>

Waiting == {w \in Threads : pc[w] = "waiting"}

\* m_cv.notify_one(), outside the lock: wakes one waiter, or nobody if there is none.
Notify(t) ==
  /\ At(t, "notifying")
  /\ \/ /\ Waiting = {}
        /\ Go(t, "dropref")
     \/ \E w \in Waiting : pc' = [pc EXCEPT ![t] = "dropref", ![w] = "locking"]
  /\ UNCHANGED <<queue, available, open, conn, attempt, owner, dtor, calls, faults, spurious>>

\* The references left when thread t gives up its own.
StillReferenced_OwnCount(t) == \E u \in Threads \ {t} : pc[u] \in Referring
StillReferenced(t) == owner \/ \E u \in Threads \ {t} : pc[u] \in Referring

\* m_pool.reset(): the thread that drops the last reference runs the destructor.
DropRef(t) ==
  /\ At(t, "dropref")
  /\ IF StillReferenced(t)
     THEN Go(t, "idle") /\ dtor' = dtor
     ELSE Go(t, "destroying") /\ dtor' = "dying"
  /\ UNCHANGED <<queue, available, open, conn, attempt, owner, calls, faults, spurious>>

--------------------------------------------------------------------------------
(* The creator's pointer, and ~ConnectionPool *)

DropOwner ==
  /\ owner
  /\ OwnerOutlivesAcquires => \A t \in Threads : pc[t] \notin Asking
  /\ owner' = FALSE
  /\ dtor' = IF \E t \in Threads : pc[t] \in Referring THEN dtor ELSE "dying"
  /\ UNCHANGED <<queue, available, open, pc, conn, attempt, calls, faults, spurious>>

\* m_shutdown is stored without holding m_mutex.
DtorStore ==
  /\ dtor = "dying"
  /\ dtor' = "stored"
  /\ UNCHANGED <<queue, available, open, pc, conn, attempt, owner, calls, faults, spurious>>

DtorNotifyAll ==
  /\ dtor = "stored"
  /\ dtor' = "notified"
  /\ pc' = [t \in Threads |-> IF pc[t] = "waiting" THEN "locking" ELSE pc[t]]
  /\ UNCHANGED <<queue, available, open, conn, attempt, owner, calls, faults, spurious>>

\* Empties the queue under m_mutex; then the members, the mutex too, are gone.
DtorClear ==
  /\ dtor = "notified"
  /\ MutexFree
  /\ dtor' = "destroyed"
  /\ open' = {c \in open : \E t \in Threads : conn[t] = c}
  /\ queue' = <<>>
  /\ available' = 0
  /\ pc' = [t \in Threads |-> IF pc[t] = "destroying" THEN "idle" ELSE pc[t]]
  /\ UNCHANGED <<conn, attempt, owner, calls, faults, spurious>>

\* A thread that uses a member of a destroyed pool: anything may happen next,
\* and the model follows that thread no further.
TouchDestroyed(t) ==
  /\ dtor = "destroyed"
  /\ pc[t] \in {"locking", "waiting", "connecting", "wrapping"}
  /\ Go(t, "undefined")
  /\ conn' = [conn EXCEPT ![t] = None]
  /\ UNCHANGED <<queue, available, open, attempt, owner, dtor, calls, faults, spurious>>

--------------------------------------------------------------------------------
(* The environment *)

\* The library may report any connection closed at any moment.
Break(c) ==
  /\ faults < MaxFaults
  /\ c \in open
  /\ open' = open \ {c}
  /\ faults' = faults + 1
  /\ UNCHANGED <<queue, available, pc, conn, attempt, owner, dtor, calls, spurious>>

SpuriousWake(t) ==
  /\ At(t, "waiting")
  /\ dtor # "destroyed"
  /\ spurious < MaxSpurious
  /\ spurious' = spurious + 1
  /\ Go(t, "locking")
  /\ UNCHANGED <<queue, available, open, conn, attempt, owner, dtor, calls, faults>>

\* The pool is gone and no thread has anything left to do.
Terminated ==
  /\ dtor = "destroyed"
  /\ \A t \in Threads : \/ At(t, "undefined")
                        \/ At(t, "idle") /\ (OwnerOutlivesAcquires \/ calls[t] = MaxCalls)
  /\ UNCHANGED vars

Acquire(t) ==
  \/ FindEmpty(t) \/ Block(t) \/ RefuseShutdown(t) \/ Pop(t) \/ CheckOpen(t)
  \/ ConnectOk(t) \/ ConnectRetry(t) \/ ConnectGiveUp(t) \/ Wrap(t) \/ WrapFails(t)
  \/ TouchDestroyed(t)

Release(t) == ReleaseOpen(t) \/ ReleaseClosed(t) \/ Push(t) \/ Notify(t) \/ DropRef(t)

Destroy == DtorStore \/ DtorNotifyAll \/ DtorClear

Next ==
  \/ \E t \in Threads : StartAcquire(t) \/ Acquire(t) \/ Release(t) \/ SpuriousWake(t)
  \/ DropOwner
  \/ Destroy
  \/ \E c \in Conns : Break(c)
  \/ Terminated

Spec == Init /\ [][Next]_vars

\* The scheduler runs every thread that can run, and a caller uses a connection
\* for a bounded time.  Nothing forces a call, a dead connection or a wakeup.
Fairness ==
  /\ \A t \in Threads : WF_vars(Acquire(t)) /\ WF_vars(Release(t))
  /\ WF_vars(Destroy)

FairSpec == Spec /\ Fairness

--------------------------------------------------------------------------------
(* Properties *)

Places == {"idle", "locking", "blocking", "waiting", "popped", "connecting",
           "wrapping", "destroying", "undefined"} \cup Referring

\* The places at which a thread has a connection in its hands.
Holding == {"popped", "connecting", "wrapping", "using", "releasing"}

\* Every variable keeps to its type; create_connection makes at most
\* MaxRetries + 1 attempts.
TypeOK ==
  /\ queue \in Seq(Conns)
  /\ available \in Nat
  /\ open \in SUBSET Conns
  /\ pc \in [Threads -> Places]
  /\ conn \in [Threads -> Conns \cup {None}]
  /\ attempt \in [Threads -> 0..MaxRetries]
  /\ owner \in BOOLEAN
  /\ dtor \in {"alive", "dying", "stored", "notified", "destroyed"}
  /\ calls \in [Threads -> 0..MaxCalls]
  /\ faults \in 0..MaxFaults
  /\ spurious \in 0..MaxSpurious

Queued == {queue[i] : i \in 1..Len(queue)}
Held == {conn[t] : t \in Threads} \ {None}
Circulating == Queued \cup Held

\* A connection is in one place: once in the queue, or in the hands of one
\* thread.  pqxx::connection is not thread-safe, so two transactions on one
\* connection is what acquire and release exist to prevent.
Exclusive ==
  /\ \A i, j \in 1..Len(queue) : queue[i] = queue[j] => i = j
  /\ \A t \in Threads : conn[t] # None => conn[t] \notin Queued
  /\ \A t, u \in Threads : conn[t] = conn[u] /\ conn[t] # None => t = u

OnTheWay == {t \in Threads : pc[t] \in {"locking", "notifying"}}

\* While threads sleep on m_cv, every free connection has somebody on the way
\* to it: a thread about to call notify_one or one about to lock.  Otherwise a
\* caller sleeps beside a free connection, which is what notify_one outside the
\* lock, several releases before one wakeup and barging callers could lead to.
NoLostWakeup ==
  ~Shutdown /\ Waiting # {} => Len(queue) <= Cardinality(OnTheWay)

Unusable == Conns \ (Circulating \cap open)

\* Until the destructor runs, the pool is short of at most one slot for each
\* connection that failed: reconnecting, giving back and refusing lose no
\* healthy connection.
SlotsAccounted == dtor = "alive" => Cardinality(Unusable) <= faults

Occupied == {t \in Threads : pc[t] \in {"locking", "notifying"} \cup Holding}

\* A caller sleeps only for want of connections: while one does, there is for
\* each slot but the failed ones a thread that has its connection or is on the
\* way to one.  So never do all threads sleep, or stay away, beside a slot that
\* works: everybody waits for ever only when every slot has failed.
CapacityInUse ==
  dtor = "alive" /\ Waiting # {} => Cardinality(Conns) <= Cardinality(Occupied) + faults

\* No wrapper outlives the pool it will give its connection back to: whoever
\* drops the last reference, the destructor has not begun while one is left.
WrapperKeepsPoolAlive ==
  \A t \in Threads : pc[t] \in Referring => dtor = "alive"

\* No thread uses a pool that has been destroyed under it.  Threads inside
\* acquire hold no reference of their own, so the creator has to keep its pointer
\* as long as there are any.  It may let go while connections are in use: their
\* wrappers carry the pool, and the last one to go runs the destructor.
NoCallOnDestroyedPool == \A t \in Threads : pc[t] # "undefined"

\* Calls are answered: a thread that has entered acquire returns, with a
\* connection or with an error.
AllServed ==
  \A t \in Threads : At(t, "locking") ~> pc[t] \in {"using", "idle"}

\* The pool implements its contract: connections reserved while queued, served
\* to one caller, and none served once the last reference to the pool is gone.
Lease == INSTANCE ConnectionLease WITH
           idle <- Queued,
           lease <- conn,
           asking <- {t \in Threads : pc[t] \in Asking},
           closed <- dtor # "alive"
ImplementsLease == Lease!LeaseSpec
================================================================================
