---------------------------- MODULE ConnectionLease ----------------------------
(***************************************************************************)
(* What the connection pool promises its callers, without a mutex, a       *)
(* condition variable, a queue or a reference count: a caller asks, is     *)
(* either served with a connection that nobody else has or is refused, and *)
(* gives the connection back or loses it.  Once the pool closes, no caller *)
(* holds a connection and none is served any more.                         *)
(* ConnectionPool.tla implements it (src/src/infrastructure/database).     *)
(***************************************************************************)
CONSTANTS
  Threads,     \* the callers of the pool
  Conns,       \* its connections
  None         \* "no connection"

VARIABLES
  idle,        \* the connections that may be reserved
  lease,       \* lease[t]: the connection reserved for, or held by, caller t
  asking,      \* the callers that wait for an answer
  closed       \* the pool serves nobody any more

leaseVars == <<idle, lease, asking, closed>>

\* The callers that were served and have not given their connection back.
Served == {t \in Threads : lease[t] # None /\ t \notin asking}

LeaseInit ==
  /\ idle \in SUBSET Conns
  /\ lease = [t \in Threads |-> None]
  /\ asking = {}
  /\ closed = FALSE

Ask(t) ==
  /\ t \notin asking
  /\ lease[t] = None
  /\ asking' = asking \cup {t}
  /\ UNCHANGED <<idle, lease, closed>>

Reserve(t) ==
  /\ t \in asking
  /\ lease[t] = None
  /\ \E c \in idle :
       /\ idle' = idle \ {c}
       /\ lease' = [lease EXCEPT ![t] = c]
  /\ UNCHANGED <<asking, closed>>

Serve(t) ==
  /\ ~closed
  /\ t \in asking
  /\ lease[t] # None
  /\ asking' = asking \ {t}
  /\ UNCHANGED <<idle, lease, closed>>

\* The answer is an error; a connection that was reserved is lost.
Refuse(t) ==
  /\ t \in asking
  /\ asking' = asking \ {t}
  /\ lease' = [lease EXCEPT ![t] = None]
  /\ UNCHANGED <<idle, closed>>

GiveBack(t) ==
  /\ t \in Served
  /\ idle' = idle \cup {lease[t]}
  /\ lease' = [lease EXCEPT ![t] = None]
  /\ UNCHANGED <<asking, closed>>

Lose(t) ==
  /\ t \in Served
  /\ lease' = [lease EXCEPT ![t] = None]
  /\ UNCHANGED <<idle, asking, closed>>

\* Only a pool whose connections are all home, reserved at most, closes.
Close ==
  /\ ~closed
  /\ Served = {}
  /\ closed' = TRUE
  /\ UNCHANGED <<idle, lease, asking>>

Drain ==
  /\ closed
  /\ idle' = {}
  /\ UNCHANGED <<lease, asking, closed>>

LeaseNext ==
  \/ \E t \in Threads : \/ Ask(t) \/ Reserve(t) \/ Serve(t) \/ Refuse(t)
                        \/ GiveBack(t) \/ Lose(t)
  \/ Close
  \/ Drain

LeaseSpec == LeaseInit /\ [][LeaseNext]_leaseVars
================================================================================
