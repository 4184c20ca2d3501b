----------------------------- MODULE MessageBroker -----------------------------
(***************************************************************************)
(* InMemoryMessageBroker of                                                *)
(* src/src/infrastructure/messaging/message_broker.{hpp,cpp}: threads that *)
(* publish, consume, subscribe and unsubscribe, one queue for each topic,  *)
(* one mutex, and one condition variable for the consumers of all topics.  *)
(*                                                                         *)
(* consume() looks its queue up, keeps a reference to it, and may release  *)
(* the mutex in wait_for before it uses the reference.  A subscription has *)
(* a number, so that the reference of an earlier one can be told from the  *)
(* queue that the topic has now.                                           *)
(***************************************************************************)
EXTENDS Integers, Sequences, FiniteSets

CONSTANTS
  Threads,              \* callers of the broker
  Topics,
  Messages,             \* messages, each published at most once
  NoTopic,              \* the topic of a thread outside consume and publish
  NoMessage,            \* the message of a thread outside publish
  MaxSubscriptions,     \* bound: subscriptions of each topic
  MaxCalls,             \* bound: calls of consume and publish by one thread
  OwnerOutlivesCallers  \* the broker is destroyed only when no call is going on

ASSUME ThreadsAssumption == IsFiniteSet(Threads)
ASSUME TopicsAssumption == NoTopic \notin Topics /\ NoMessage \notin Messages
ASSUME BoundsAssumption ==
  MaxSubscriptions \in [Topics -> Nat] /\ MaxCalls \in Nat /\ OwnerOutlivesCallers \in BOOLEAN

VARIABLES
  subscribed,   \* the topics m_queues has an entry for
  queue,        \* m_queues; <<>> for the other topics
  subs,         \* subscriptions of each topic so far
  dtor,         \* how far ~InMemoryMessageBroker has come
  pc,           \* where each thread is
  topic,        \* the topic a thread's call is about
  held,         \* the subscription whose queue a consumer refers to
  msg,          \* the message a publisher carries
  calls,        \* what MaxCalls bounds
  pushed, received, dropped   \* history: messages queued, consumed, erased with their queue

history == <<pushed, received, dropped>>
call == <<topic, held, msg>>
vars == <<subscribed, queue, subs, dtor, pc, topic, held, msg, calls, pushed, received, dropped>>

--------------------------------------------------------------------------------
\* m_running, the destructor's first assignment clears it.
Running == dtor = "alive"

\* m_mutex is held across steps only by a consumer whose predicate was false and
\* that has not gone to sleep yet; every other critical section is one step.
MutexFree == \A t \in Threads : pc[t] # "blocking"

At(t, place) == pc[t] = place
Go(t, place) == pc' = [pc EXCEPT ![t] = place]
Return(t) == /\ Go(t, "idle")
             /\ topic' = [topic EXCEPT ![t] = NoTopic]
             /\ held' = [held EXCEPT ![t] = 0]
             /\ msg' = [msg EXCEPT ![t] = NoMessage]

Init ==
  /\ subscribed = {}
  /\ queue = [s \in Topics |-> <<>>]
  /\ subs = [s \in Topics |-> 0]
  /\ dtor = "alive"
  /\ pc = [t \in Threads |-> "idle"]
  /\ topic = [t \in Threads |-> NoTopic]
  /\ held = [t \in Threads |-> 0]
  /\ msg = [t \in Threads |-> NoMessage]
  /\ calls = [t \in Threads |-> 0]
  /\ pushed = {} /\ received = {} /\ dropped = {}

\* A caller gets past `if (!m_running)`, which is not under the lock.
Enter(t, place, s, m) ==
  /\ At(t, "idle")
  /\ Running
  /\ calls[t] < MaxCalls
  /\ calls' = [calls EXCEPT ![t] = @ + 1]
  /\ Go(t, place)
  /\ topic' = [topic EXCEPT ![t] = s]
  /\ msg' = [msg EXCEPT ![t] = m]
  /\ UNCHANGED <<subscribed, queue, subs, dtor, held, history>>

Locks(t, place) == At(t, place) /\ MutexFree /\ dtor # "gone"

--------------------------------------------------------------------------------
(* publish *)

StartPublish(t) ==
  \E s \in Topics, m \in Messages :
    /\ m \notin pushed
    /\ \A u \in Threads : msg[u] # m
    /\ Enter(t, "publishing", s, m)

\* Nobody subscribes to the topic: not_found.
NoSubscribers(t) ==
  /\ Locks(t, "publishing")
  /\ topic[t] \notin subscribed
  /\ Return(t)
  /\ UNCHANGED <<subscribed, queue, subs, dtor, calls, history>>

\* it->second.push, at the end of the queue
Pushed_Front(t) == <<msg[t]>> \o queue[topic[t]]
Pushed(t) == Append(queue[topic[t]], msg[t])

Push(t) ==
  /\ Locks(t, "publishing")
  /\ topic[t] \in subscribed
  /\ queue' = [queue EXCEPT ![topic[t]] = Pushed(t)]
  /\ pushed' = pushed \cup {msg[t]}
  /\ Go(t, "notifying")
  /\ UNCHANGED <<subscribed, subs, dtor, call, calls, received, dropped>>

Waiting == {t \in Threads : pc[t] = "waiting"}

Woken_One == IF Waiting = {} THEN {} ELSE {CHOOSE t \in Waiting : TRUE}
Woken == Waiting

\* m_cv.notify_all(), after the lock is released: consumers of every topic wake.
NotifyAll(t) ==
  /\ At(t, "notifying")
  /\ dtor # "gone"
  /\ pc' = [u \in Threads |-> IF u = t THEN "idle" ELSE IF u \in Woken THEN "woken" ELSE pc[u]]
  /\ topic' = [topic EXCEPT ![t] = NoTopic]
  /\ msg' = [msg EXCEPT ![t] = NoMessage]
  /\ UNCHANGED <<subscribed, queue, subs, dtor, held, calls, history>>

--------------------------------------------------------------------------------
(* consume *)

StartConsume(t) == \E s \in Topics : Enter(t, "consuming", s, NoMessage)

UnknownTopic(t) ==
  /\ Locks(t, "consuming")
  /\ topic[t] \notin subscribed
  /\ Return(t)
  /\ UNCHANGED <<subscribed, queue, subs, dtor, calls, history>>

\* The reference taken before the wait is to a queue that m_queues still has.
Valid(t) == topic[t] \in subscribed /\ held[t] = subs[topic[t]]

\* A consumer that is back in wait_for and has the lock again.
Back(t) == Locks(t, "woken") \/ Locks(t, "expired")

\* A consumer that holds the lock and may use its queue: it has just looked it
\* up, or it is back and the queue is still there.
Looks(t) ==
  \/ Locks(t, "consuming") /\ topic[t] \in subscribed
  \/ Back(t) /\ Valid(t)

\* The queue without the message consumed.
Rest_Kept(s) == queue[s]
Rest(s) == Tail(queue[s])

Take(t) ==
  /\ Looks(t)
  /\ Running
  /\ queue[topic[t]] # <<>>
  /\ received' = received \cup {Head(queue[topic[t]])}
  /\ queue' = [queue EXCEPT ![topic[t]] = Rest(topic[t])]
  /\ Return(t)
  /\ UNCHANGED <<subscribed, subs, dtor, calls, pushed, dropped>>

\* Once its time is up, or the broker is shut down, wait_for waits no more.
GivesUp_Never(t) == ~Running
GivesUp(t) == ~Running \/ At(t, "expired")

\* Nothing to consume: std::nullopt.  The predicate and line 73 test m_running
\* before the queue, so a broker that is shut down answers a consumer whose queue
\* is no longer there, too.
TakeNothing(t) ==
  /\ Looks(t) \/ (Back(t) /\ ~Running)
  /\ GivesUp(t)
  /\ Running => queue[topic[t]] = <<>>
  /\ Return(t)
  /\ UNCHANGED <<subscribed, queue, subs, dtor, calls, history>>

\* The predicate of wait_for is false: the consumer is going to sleep.
FindEmpty(t) ==
  /\ Looks(t)
  /\ ~GivesUp(t)
  /\ queue[topic[t]] = <<>>
  /\ held' = [held EXCEPT ![t] = subs[topic[t]]]
  /\ Go(t, "blocking")
  /\ UNCHANGED <<subscribed, queue, subs, dtor, topic, msg, calls, history>>

\* Sleeps and releases the mutex, in one step.
Block(t) ==
  /\ At(t, "blocking")
  /\ dtor # "gone"
  /\ Go(t, "waiting")
  /\ UNCHANGED <<subscribed, queue, subs, dtor, call, calls, history>>

\* The timeout passes.  A spurious wakeup needs no action of its own: it does
\* what a notification meant for another topic does.
Timeout(t) ==
  /\ At(t, "waiting")
  /\ dtor # "gone"
  /\ Go(t, "expired")
  /\ UNCHANGED <<subscribed, queue, subs, dtor, call, calls, history>>

\* While the broker runs the predicate reads the queue, also one that unsubscribe
\* has erased: anything may happen next, and the model follows that thread no
\* further.
TouchErased(t) ==
  /\ Back(t)
  /\ Running
  /\ ~Valid(t)
  /\ Go(t, "queue_gone")
  /\ UNCHANGED <<subscribed, queue, subs, dtor, call, calls, history>>

--------------------------------------------------------------------------------
(* subscribe and unsubscribe, which do not look at m_running *)

Subscribe(t) ==
  /\ Locks(t, "idle")
  /\ \E s \in Topics \ subscribed :
       /\ subs[s] < MaxSubscriptions[s]
       /\ subs' = [subs EXCEPT ![s] = @ + 1]
       /\ subscribed' = subscribed \cup {s}
  /\ UNCHANGED <<queue, dtor, pc, call, calls, history>>

\* The messages that erasing the queue of a topic destroys.
Erased(s) == {queue[s][i] : i \in 1..Len(queue[s])}

\* m_queues.erase
Remaining_Kept(s) == queue
Remaining(s) == [queue EXCEPT ![s] = <<>>]

Unsubscribe(t) ==
  /\ Locks(t, "idle")
  /\ \E s \in subscribed :
       /\ subscribed' = subscribed \ {s}
       /\ dropped' = dropped \cup Erased(s)
       /\ queue' = Remaining(s)
  /\ UNCHANGED <<subs, dtor, pc, call, calls, pushed, received>>

--------------------------------------------------------------------------------
(* ~InMemoryMessageBroker: it waits for nobody *)

InCall(t) == pc[t] \notin {"idle", "queue_gone", "broker_gone"}

DtorStore ==
  /\ dtor = "alive"
  /\ OwnerOutlivesCallers => \A t \in Threads : ~InCall(t)
  /\ dtor' = "stored"
  /\ UNCHANGED <<subscribed, queue, subs, pc, call, calls, history>>

DtorNotifyAll ==
  /\ dtor = "stored"
  /\ dtor' = "notified"
  /\ pc' = [t \in Threads |-> IF pc[t] = "waiting" THEN "woken" ELSE pc[t]]
  /\ UNCHANGED <<subscribed, queue, subs, call, calls, history>>

\* The members are destroyed, the mutex and the queues among them.
DtorEnd ==
  /\ dtor = "notified"
  /\ dtor' = "gone"
  /\ UNCHANGED <<subscribed, queue, subs, pc, call, calls, history>>

TouchDestroyed(t) ==
  /\ dtor = "gone"
  /\ InCall(t)
  /\ Go(t, "broker_gone")
  /\ UNCHANGED <<subscribed, queue, subs, dtor, call, calls, history>>

Terminated == (\A t \in Threads : ~InCall(t)) /\ UNCHANGED vars

Publish(t) == NoSubscribers(t) \/ Push(t) \/ NotifyAll(t)
Consume(t) ==
  \/ UnknownTopic(t) \/ Take(t) \/ TakeNothing(t) \/ FindEmpty(t) \/ Block(t)
  \/ Timeout(t) \/ TouchErased(t)
Destroy == DtorStore \/ DtorNotifyAll \/ DtorEnd

Next ==
  \/ \E t \in Threads :
       \/ StartPublish(t) \/ Publish(t)
       \/ StartConsume(t) \/ Consume(t)
       \/ Subscribe(t) \/ Unsubscribe(t)
       \/ TouchDestroyed(t)
  \/ Destroy
  \/ Terminated

Spec == Init /\ [][Next]_vars

\* Every thread inside a call goes on, and time passes for one that sleeps.
\* Nothing forces a call, a subscription or the destruction.
Fairness ==
  \A t \in Threads : WF_vars(Publish(t)) /\ WF_vars(Consume(t)) /\ WF_vars(TouchDestroyed(t))

FairSpec == Spec /\ Fairness

--------------------------------------------------------------------------------
(* Properties *)

Places == {"idle", "publishing", "notifying", "consuming", "blocking", "waiting",
           "woken", "expired", "queue_gone", "broker_gone"}

\* Every variable keeps to its type; a topic without a subscription has no queue.
TypeOK ==
  /\ subscribed \in SUBSET Topics
  /\ queue \in [Topics -> Seq(Messages)]
  /\ \A s \in Topics \ subscribed : queue[s] = <<>>
  /\ subs \in [Topics -> Nat] /\ \A s \in Topics : subs[s] <= MaxSubscriptions[s]
  /\ dtor \in {"alive", "stored", "notified", "gone"}
  /\ pc \in [Threads -> Places]
  /\ topic \in [Threads -> Topics \cup {NoTopic}]
  /\ held \in [Threads -> Nat]
  /\ msg \in [Threads -> Messages \cup {NoMessage}]
  /\ calls \in [Threads -> 0..MaxCalls]
  /\ pushed \in SUBSET Messages
  /\ received \in SUBSET Messages
  /\ dropped \in SUBSET Messages

Queued(s) == {queue[s][i] : i \in 1..Len(queue[s])}

\* A message that publish has accepted is in one place: once in one queue, or
\* consumed by one caller, or erased by unsubscribe.  None is consumed twice,
\* also when it arrives as a consumer's time runs out.
MessagesAccounted ==
  /\ \A s \in Topics : \A i, j \in 1..Len(queue[s]) : queue[s][i] = queue[s][j] => i = j
  /\ \A r, s \in Topics : r # s => Queued(r) \cap Queued(s) = {}
  /\ pushed = received \cup dropped \cup UNION {Queued(s) : s \in Topics}
  /\ received \cap dropped = {}
  /\ \A s \in Topics : Queued(s) \cap (received \cup dropped) = {}

\* No consumer sleeps while its queue has a message, unless a publisher is
\* about to notify.  One condition variable serves every topic, so a single
\* wakeup could go to a consumer of another topic.
NoSleeperBesideMessage ==
  \A t \in Threads :
    At(t, "waiting") /\ Valid(t) /\ Running /\ queue[topic[t]] # <<>> =>
      \E u \in Threads : At(u, "notifying")

\* The consumers with a reference to a queue, and those whose queue was erased.
Referring == {t \in Threads : held[t] # 0}
Orphaned == {t \in Referring : ~Valid(t)}

\* consume returns to its caller, with a message, without one or with an error,
\* however many wakeups meant for other consumers reach it, and although the
\* destructor's notification may miss it (it notifies without the mutex).  It takes
\* two things for granted: the broker's members are there, and no unsubscribe erases
\* the queue that it waits at while the broker runs.
Intact(t) == dtor # "gone" /\ (Running => t \notin Orphaned)
ConsumeReturns ==
  \A t \in Threads : [](At(t, "consuming") /\ []Intact(t) => <>At(t, "idle"))

\* "expected to be thread-safe" (message_broker.hpp): no consumer looks into a
\* queue that an unsubscribe has erased while it slept.
NoErasedQueueUsed == \A t \in Threads : pc[t] # "queue_gone"

\* What a caller of the contract is doing while a thread is at a place.
Role(place) ==
  CASE place = "publishing" -> "sending"
    [] place = "notifying" -> "accepted"
    [] place \in {"consuming", "blocking", "waiting", "woken", "expired"} -> "receiving"
    [] place \in {"queue_gone", "broker_gone"} -> "lost"
    [] OTHER -> "idle"
Roles == [t \in Threads |-> Role(pc[t])]
Life == IF Running THEN "up" ELSE IF dtor = "gone" THEN "gone" ELSE "closing"

Channels == INSTANCE TopicChannels WITH
              Callers <- Threads,
              open <- subscribed,
              channel <- queue,
              life <- Life,
              role <- Roles,
              waiting <- Referring,
              orphans <- Orphaned,
              delivered <- received,
              discarded <- dropped

\* The broker implements its contract: first in, first out for each topic, a
\* message only to a receiver whose own subscription it came to, "nothing" only to
\* one that has waited in vain or beside a broker that closes, and no answer only
\* where a running broker's queue was erased under a sleeper or the broker destroyed
\* under its callers.
ImplementsChannels == Channels!ChannelSpec
================================================================================
