-------------------------- MODULE MessageBrokerProofs --------------------------
(***************************************************************************)
(* What TLAPS proves of MessageBroker for every number of threads, topics, *)
(* messages, subscriptions and calls, whoever destroys the broker when.    *)
(*                                                                         *)
(* The invariant has four parts: what a thread inside a call carries       *)
(* (CallInv), that no message is carried by two publishers or after it is  *)
(* queued (CarryInv), where each message is (MessagesAccounted), and that  *)
(* a consumer that still holds the mutex on its way to sleep has an empty  *)
(* queue (SleepInv).                                                       *)
(***************************************************************************)
EXTENDS MessageBroker, SequenceTheorems, TLAPS

\* A thread inside publish or consume has a topic, and a publisher a message.
CallInv ==
  \A t \in Threads :
    /\ InCall(t) => topic[t] \in Topics
    /\ pc[t] \in {"publishing", "notifying"} => msg[t] \in Messages

TypeInv == TypeOK /\ CallInv

--------------------------------------------------------------------------------
(* Queues as sequences *)

Elements(q) == {q[i] : i \in 1..Len(q)}
NoRepeat(q) == \A i, j \in 1..Len(q) : q[i] = q[j] => i = j

\* push: one element more, and no repetition if it is new.
LEMMA PushedElements ==
  ASSUME NEW q \in Seq(Messages), NEW m \in Messages
  PROVE  /\ Append(q, m) \in Seq(Messages)
         /\ Elements(Append(q, m)) = Elements(q) \cup {m}
         /\ NoRepeat(q) /\ m \notin Elements(q) => NoRepeat(Append(q, m))
<1> DEFINE r == Append(q, m)
<1>1. /\ r \in Seq(Messages)
      /\ Len(q) \in Nat /\ Len(r) = Len(q) + 1
      /\ \A i \in 1..Len(q) : r[i] = q[i]
      /\ r[Len(q) + 1] = m
  BY AppendProperties
<1> HIDE DEF r
<1>2. Elements(r) = Elements(q) \cup {m}
  <2>1. 1..Len(r) = 1..Len(q) \cup {Len(q) + 1}
    BY <1>1
  <2> QED
    BY <1>1, <2>1 DEF Elements
<1>3. ASSUME NoRepeat(q), m \notin Elements(q) PROVE NoRepeat(r)
  <2>1. \A i \in 1..Len(q) : q[i] # m
    BY <1>3 DEF Elements
  <2>2. \A i \in 1..Len(r) : i \in 1..Len(q) \/ i = Len(q) + 1
    BY <1>1
  <2> QED
    BY <1>1, <1>3, <2>1, <2>2 DEF NoRepeat
<1> QED
  BY <1>1, <1>2, <1>3 DEF r

\* pop: the front and nothing else goes.
LEMMA PoppedElements ==
  ASSUME NEW q \in Seq(Messages), q # <<>>
  PROVE  /\ Tail(q) \in Seq(Messages)
         /\ Head(q) \in Elements(q) /\ Head(q) \in Messages
         /\ Elements(q) = Elements(Tail(q)) \cup {Head(q)}
         /\ NoRepeat(q) => NoRepeat(Tail(q)) /\ Head(q) \notin Elements(Tail(q))
<1> DEFINE r == Tail(q)
<1>1. /\ r \in Seq(Messages) /\ Head(q) \in Messages
      /\ Len(q) \in Nat /\ Len(r) = Len(q) - 1 /\ Len(q) >= 1
      /\ \A i \in 1..Len(r) : r[i] = q[i + 1]
  <2>1. Len(q) \in Nat /\ Len(q) # 0
    BY EmptySeq
  <2> QED
    BY <2>1, HeadTailProperties
<1>2. Head(q) = q[1]
  OBVIOUS
<1> HIDE DEF r
<1>3. \A i \in 1..Len(q) : i = 1 \/ (i - 1 \in 1..Len(r) /\ r[i - 1] = q[i])
  BY <1>1
<1>4. \A i \in 1..Len(r) : i + 1 \in 1..Len(q) /\ i + 1 # 1
  BY <1>1
<1>5. 1 \in 1..Len(q)
  BY <1>1
<1>6. Elements(q) = Elements(r) \cup {Head(q)}
  <2>1. ASSUME NEW x \in Elements(q) PROVE x \in Elements(r) \cup {Head(q)}
    BY <1>2, <1>3 DEF Elements
  <2>2. ASSUME NEW x \in Elements(r) PROVE x \in Elements(q)
    BY <1>1, <1>4 DEF Elements
  <2> QED
    BY <1>2, <1>5, <2>1, <2>2 DEF Elements
<1>7. ASSUME NoRepeat(q) PROVE NoRepeat(r) /\ Head(q) \notin Elements(r)
  <2>1. NoRepeat(r)
    BY <1>1, <1>4, <1>7 DEF NoRepeat
  <2>2. \A i \in 1..Len(r) : r[i] # Head(q)
    BY <1>1, <1>2, <1>4, <1>5, <1>7 DEF NoRepeat
  <2> QED
    BY <2>1, <2>2 DEF Elements
<1> QED
  BY <1>1, <1>2, <1>5, <1>6, <1>7 DEF r, Elements

LEMMA EmptyElements == Elements(<<>>) = {} /\ NoRepeat(<<>>) /\ <<>> \in Seq(Messages)
  BY DEF Elements, NoRepeat

--------------------------------------------------------------------------------
(* Types *)

LEMMA InitTypeInv == Init => TypeInv
<1> SUFFICES ASSUME Init PROVE TypeInv
  OBVIOUS
<1>1. queue \in [Topics -> Seq(Messages)] /\ \A s \in Topics : queue[s] = <<>>
  BY EmptyElements DEF Init
<1> QED
  BY <1>1, BoundsAssumption DEF Init, TypeInv, TypeOK, CallInv, InCall, Places

\* Leaving a call, and entering one.
LEMMA ReturnType ==
  ASSUME TypeInv, NEW t \in Threads, Return(t)
  PROVE  /\ pc' \in [Threads -> Places]
         /\ topic' \in [Threads -> Topics \cup {NoTopic}]
         /\ held' \in [Threads -> Nat]
         /\ msg' \in [Threads -> Messages \cup {NoMessage}]
         /\ CallInv'
  BY BoundsAssumption DEF TypeInv, TypeOK, CallInv, InCall, Return, Go, Places

LEMMA EnterType ==
  ASSUME TypeInv, NEW t \in Threads, NEW s \in Topics, NEW m \in Messages \cup {NoMessage},
         NEW place \in {"publishing", "consuming"}, Enter(t, place, s, m),
         place = "publishing" => m \in Messages
  PROVE  TypeInv'
<1>1. calls' \in [Threads -> 0..MaxCalls]
  BY BoundsAssumption DEF TypeInv, TypeOK, Enter
<1>2. /\ pc' \in [Threads -> Places]
      /\ topic' \in [Threads -> Topics \cup {NoTopic}]
      /\ msg' \in [Threads -> Messages \cup {NoMessage}]
  BY DEF TypeInv, TypeOK, Enter, Go, Places
<1>3. CallInv'
  BY DEF TypeInv, TypeOK, CallInv, InCall, Enter, Go
<1> QED
  BY <1>1, <1>2, <1>3 DEF TypeInv, TypeOK, Enter, history

\* A thread goes to another place of its call, and nothing else changes.
LEMMA MoveType ==
  ASSUME TypeInv, NEW t \in Threads, NEW place \in Places, Go(t, place), InCall(t),
         place = "notifying" => At(t, "publishing"), place # "publishing",
         UNCHANGED <<topic, msg>>
  PROVE  pc' \in [Threads -> Places] /\ CallInv'
  BY DEF TypeInv, TypeOK, CallInv, InCall, Go, At

LEMMA NextTypeInv == TypeInv /\ [Next]_vars => TypeInv'
<1> SUFFICES ASSUME TypeInv, [Next]_vars PROVE TypeInv'
  OBVIOUS
<1>1. ASSUME NEW t \in Threads, StartPublish(t) PROVE TypeInv'
  BY <1>1, EnterType DEF StartPublish
<1>2. ASSUME NEW t \in Threads, NoSubscribers(t) \/ UnknownTopic(t) \/ TakeNothing(t)
      PROVE  TypeInv'
  <2>1. Return(t) /\ UNCHANGED <<subscribed, queue, subs, dtor, calls, history>>
    BY <1>2 DEF NoSubscribers, UnknownTopic, TakeNothing
  <2> QED
    BY <2>1, ReturnType DEF TypeInv, TypeOK, history
<1>3. ASSUME NEW t \in Threads, Push(t) PROVE TypeInv'
  <2>1. topic[t] \in subscribed /\ topic[t] \in Topics /\ msg[t] \in Messages
    BY <1>3 DEF Push, Locks, At, TypeInv, TypeOK, CallInv
  <2>2. /\ queue' \in [Topics -> Seq(Messages)]
        /\ \A s \in Topics \ subscribed : queue'[s] = <<>>
    <3>1. Append(queue[topic[t]], msg[t]) \in Seq(Messages)
      BY <2>1, PushedElements DEF TypeInv, TypeOK
    <3> QED
      BY <1>3, <2>1, <3>1 DEF Push, Pushed, TypeInv, TypeOK
  <2>3. pc' \in [Threads -> Places] /\ CallInv'
    BY <1>3, MoveType DEF Push, Locks, At, InCall, call, Places
  <2>4. pushed' \in SUBSET Messages
    BY <1>3, <2>1 DEF Push, TypeInv, TypeOK
  <2> QED
    BY <1>3, <2>2, <2>3, <2>4 DEF Push, call, TypeInv, TypeOK
<1>4. ASSUME NEW t \in Threads, NotifyAll(t) PROVE TypeInv'
  <2>1. /\ pc' \in [Threads -> Places]
        /\ topic' \in [Threads -> Topics \cup {NoTopic}]
        /\ msg' \in [Threads -> Messages \cup {NoMessage}]
    BY <1>4 DEF NotifyAll, TypeInv, TypeOK, Places
  <2>2. CallInv'
    BY <1>4 DEF NotifyAll, Woken, Waiting, TypeInv, TypeOK, CallInv, InCall
  <2> QED
    BY <1>4, <2>1, <2>2 DEF NotifyAll, history, TypeInv, TypeOK
<1>5. ASSUME NEW t \in Threads, StartConsume(t) PROVE TypeInv'
  BY <1>5, EnterType DEF StartConsume
<1>6. ASSUME NEW t \in Threads, Take(t) PROVE TypeInv'
  <2>1. topic[t] \in subscribed /\ topic[t] \in Topics /\ queue[topic[t]] # <<>>
    BY <1>6 DEF Take, Looks, Back, Valid, Locks, At, InCall, TypeInv, TypeOK, CallInv
  <2>2. queue[topic[t]] \in Seq(Messages)
    BY <2>1 DEF TypeInv, TypeOK
  <2>3. Tail(queue[topic[t]]) \in Seq(Messages) /\ Head(queue[topic[t]]) \in Messages
    BY <2>1, <2>2, PoppedElements
  <2>4. /\ queue' \in [Topics -> Seq(Messages)]
        /\ \A s \in Topics \ subscribed : queue'[s] = <<>>
    BY <1>6, <2>1, <2>3 DEF Take, Rest, TypeInv, TypeOK
  <2>5. received' \in SUBSET Messages
    BY <1>6, <2>3 DEF Take, TypeInv, TypeOK
  <2>6. Return(t) /\ UNCHANGED <<subscribed, subs, dtor, calls, pushed, dropped>>
    BY <1>6 DEF Take
  <2> QED
    BY <2>4, <2>5, <2>6, ReturnType DEF TypeInv, TypeOK
<1>7. ASSUME NEW t \in Threads, FindEmpty(t) PROVE TypeInv'
  <2>1. InCall(t) /\ topic[t] \in Topics
    BY <1>7 DEF FindEmpty, Looks, Back, Locks, At, InCall, TypeInv, CallInv
  <2>2. held' \in [Threads -> Nat]
    BY <1>7, <2>1 DEF FindEmpty, TypeInv, TypeOK
  <2>3. pc' \in [Threads -> Places] /\ CallInv'
    BY <1>7, <2>1, MoveType DEF FindEmpty, Places
  <2> QED
    BY <1>7, <2>2, <2>3 DEF FindEmpty, history, TypeInv, TypeOK
<1>8. ASSUME NEW t \in Threads, Block(t) \/ Timeout(t) \/ TouchErased(t) \/ TouchDestroyed(t)
      PROVE  TypeInv'
  <2>1. /\ InCall(t)
        /\ \E place \in {"waiting", "expired", "queue_gone", "broker_gone"} : Go(t, place)
        /\ UNCHANGED <<subscribed, queue, subs, dtor, call, calls, history>>
    BY <1>8 DEF Block, Timeout, TouchErased, TouchDestroyed, Back, Locks, At, InCall
  <2>2. pc' \in [Threads -> Places] /\ CallInv'
    BY <2>1, MoveType DEF call, Places
  <2> QED
    BY <2>1, <2>2 DEF call, history, TypeInv, TypeOK
<1>9. ASSUME NEW t \in Threads, Subscribe(t) PROVE TypeInv'
  <2>1. PICK s \in Topics \ subscribed :
          /\ subs[s] < MaxSubscriptions[s]
          /\ subs' = [subs EXCEPT ![s] = @ + 1]
          /\ subscribed' = subscribed \cup {s}
    BY <1>9 DEF Subscribe
  <2>2. /\ subs' \in [Topics -> Nat] /\ \A q \in Topics : subs'[q] <= MaxSubscriptions[q]
        /\ subscribed' \in SUBSET Topics
    <3>1. /\ subs \in [Topics -> Nat] /\ \A q \in Topics : subs[q] <= MaxSubscriptions[q]
          /\ subscribed \in SUBSET Topics /\ MaxSubscriptions \in [Topics -> Nat]
      BY BoundsAssumption DEF TypeInv, TypeOK
    <3>2. subs[s] \in Nat /\ MaxSubscriptions[s] \in Nat /\ subs[s] + 1 <= MaxSubscriptions[s]
      BY <2>1, <3>1
    <3> QED
      BY <2>1, <3>1, <3>2
  <2> QED
    BY <1>9, <2>1, <2>2 DEF Subscribe, call, history, TypeInv, TypeOK, CallInv, InCall
<1>10. ASSUME NEW t \in Threads, Unsubscribe(t) PROVE TypeInv'
  <2>1. PICK s \in subscribed :
          /\ subscribed' = subscribed \ {s}
          /\ dropped' = dropped \cup Erased(s)
          /\ queue' = [queue EXCEPT ![s] = <<>>]
    BY <1>10 DEF Unsubscribe, Remaining
  <2>2. Erased(s) \subseteq Messages
    <3>1. queue[s] \in Seq(Messages)
      BY DEF TypeInv, TypeOK
    <3>2. \A i \in 1..Len(queue[s]) : queue[s][i] \in Messages
      BY <3>1, ElementOfSeq
    <3> QED
      BY <3>2 DEF Erased
  <2>3. /\ queue' \in [Topics -> Seq(Messages)]
        /\ \A r \in Topics \ subscribed' : queue'[r] = <<>>
    BY <2>1, EmptyElements DEF TypeInv, TypeOK
  <2> QED
    BY <1>10, <2>1, <2>2, <2>3
      DEF Unsubscribe, call, history, TypeInv, TypeOK, CallInv, InCall
<1>11. CASE Destroy
  <2>1. pc' \in [Threads -> Places] /\ CallInv'
    BY <1>11 DEF Destroy, DtorStore, DtorNotifyAll, DtorEnd, call, TypeInv, TypeOK, CallInv,
                 InCall, Places
  <2> QED
    BY <1>11, <2>1 DEF Destroy, DtorStore, DtorNotifyAll, DtorEnd, call, history, TypeInv, TypeOK
<1>12. CASE UNCHANGED vars
  BY <1>12 DEF vars, TypeInv, TypeOK, CallInv, InCall
<1> QED
  BY <1>1, <1>2, <1>3, <1>4, <1>5, <1>6, <1>7, <1>8, <1>9, <1>10, <1>11, <1>12
    DEF Next, Publish, Consume, Terminated

\* Every variable keeps to its type, for any threads, topics, messages and bounds.
THEOREM TypeCorrect == Spec => []TypeOK
<1>1. TypeInv => TypeOK
  BY DEF TypeInv
<1> QED
  BY InitTypeInv, NextTypeInv, <1>1, PTL DEF Spec

--------------------------------------------------------------------------------
(* Every message in one place *)

\* A message a publisher carries is nobody else's, and not queued yet.
CarryInv ==
  /\ \A t, u \in Threads : t # u /\ msg[t] # NoMessage => msg[t] # msg[u]
  /\ \A t \in Threads : At(t, "publishing") => msg[t] \notin pushed

AccountInv == CarryInv /\ MessagesAccounted

LEMMA QueuedElements == \A s : Queued(s) = Elements(queue[s]) /\ Erased(s) = Queued(s)
  BY DEF Queued, Elements, Erased

\* MessagesAccounted, said of any queues and books, message by message.
Books(q, p, r, d) ==
  /\ \A s \in Topics : NoRepeat(q[s])
  /\ \A s1, s2 \in Topics : s1 # s2 => Elements(q[s1]) \cap Elements(q[s2]) = {}
  /\ \A m : m \in p <=> m \in r \/ m \in d \/ \E s \in Topics : m \in Elements(q[s])
  /\ r \cap d = {}
  /\ \A s \in Topics : Elements(q[s]) \cap (r \cup d) = {}

LEMMA AccountedByBooks ==
  /\ MessagesAccounted <=> Books(queue, pushed, received, dropped)
  /\ MessagesAccounted' <=> Books(queue', pushed', received', dropped')
<1>1. /\ \A s : Queued(s) = Elements(queue[s])
      /\ \A s : Queued(s)' = Elements(queue'[s])
  BY DEF Queued, Elements
<1>2. \A q, s : NoRepeat(q[s]) <=> \A i, j \in 1..Len(q[s]) : q[s][i] = q[s][j] => i = j
  BY DEF NoRepeat
<1>3. MessagesAccounted <=> Books(queue, pushed, received, dropped)
  <2>1. (\A r, s \in Topics : r # s => Queued(r) \cap Queued(s) = {})
        <=> \A s1, s2 \in Topics : s1 # s2 => Elements(queue[s1]) \cap Elements(queue[s2]) = {}
    BY <1>1
  <2>2. pushed = received \cup dropped \cup UNION {Queued(s) : s \in Topics}
        <=> \A m : m \in pushed <=>
              m \in received \/ m \in dropped \/ \E s \in Topics : m \in Elements(queue[s])
    <3> DEFINE all == UNION {Queued(s) : s \in Topics}
    <3>1. \A m : m \in all <=> \E s \in Topics : m \in Elements(queue[s])
      BY <1>1
    <3> HIDE DEF all
    <3>2. pushed = received \cup dropped \cup all
          <=> \A m : m \in pushed <=> m \in received \/ m \in dropped \/ m \in all
      OBVIOUS
    <3> QED
      BY <3>1, <3>2 DEF all
  <2>3. (\A s \in Topics : Queued(s) \cap (received \cup dropped) = {})
        <=> \A s \in Topics : Elements(queue[s]) \cap (received \cup dropped) = {}
    BY <1>1
  <2>4. (\A s \in Topics : \A i, j \in 1..Len(queue[s]) : queue[s][i] = queue[s][j] => i = j)
        <=> \A s \in Topics : NoRepeat(queue[s])
    BY <1>2
  <2> QED
    BY <2>1, <2>2, <2>3, <2>4 DEF MessagesAccounted, Books
<1>4. MessagesAccounted' <=> Books(queue', pushed', received', dropped')
  <2>1. (\A r, s \in Topics : r # s => Queued(r)' \cap Queued(s)' = {})
        <=> \A s1, s2 \in Topics : s1 # s2 => Elements(queue'[s1]) \cap Elements(queue'[s2]) = {}
    BY <1>1
  <2>2. pushed' = received' \cup dropped' \cup UNION {Queued(s)' : s \in Topics}
        <=> \A m : m \in pushed' <=>
              m \in received' \/ m \in dropped' \/ \E s \in Topics : m \in Elements(queue'[s])
    <3> DEFINE all == UNION {Queued(s)' : s \in Topics}
    <3>1. \A m : m \in all <=> \E s \in Topics : m \in Elements(queue'[s])
      BY <1>1
    <3> HIDE DEF all
    <3>2. pushed' = received' \cup dropped' \cup all
          <=> \A m : m \in pushed' <=> m \in received' \/ m \in dropped' \/ m \in all
      OBVIOUS
    <3> QED
      BY <3>1, <3>2 DEF all
  <2>3. (\A s \in Topics : Queued(s)' \cap (received' \cup dropped') = {})
        <=> \A s \in Topics : Elements(queue'[s]) \cap (received' \cup dropped') = {}
    BY <1>1
  <2>4. (\A s \in Topics : \A i, j \in 1..Len(queue'[s]) : queue'[s][i] = queue'[s][j] => i = j)
        <=> \A s \in Topics : NoRepeat(queue'[s])
    BY <1>2
  <2> QED
    BY <2>1, <2>2, <2>3, <2>4 DEF MessagesAccounted, Books
<1> QED
  BY <1>3, <1>4

LEMMA InitAccountInv == Init => AccountInv
<1> SUFFICES ASSUME Init PROVE AccountInv
  OBVIOUS
<1>1. \A s \in Topics : Elements(queue[s]) = {} /\ NoRepeat(queue[s])
  BY EmptyElements DEF Init
<1>2. MessagesAccounted
  BY <1>1, AccountedByBooks DEF Init, Books
<1>3. CarryInv
  BY DEF Init, CarryInv, At
<1> QED
  BY <1>2, <1>3 DEF AccountInv

\* A step that leaves the queues and the books alone.
LEMMA QuietStep ==
  ASSUME MessagesAccounted, UNCHANGED <<queue, pushed, received, dropped>>
  PROVE  MessagesAccounted'
BY AccountedByBooks

\* push puts a new message into one queue.
LEMMA PushAccounts ==
  ASSUME TypeInv, AccountInv, NEW t \in Threads, Push(t)
  PROVE  MessagesAccounted'
<1> DEFINE s == topic[t]
           m == msg[t]
<1>1. /\ s \in Topics /\ m \in Messages /\ m \notin pushed
      /\ queue' = [queue EXCEPT ![s] = Append(queue[s], m)]
      /\ pushed' = pushed \cup {m}
      /\ received' = received /\ dropped' = dropped
  BY DEF Push, Pushed, Locks, At, TypeInv, TypeOK, CallInv, AccountInv, CarryInv
<1> HIDE DEF s, m
<1>2. /\ \A r \in Topics : NoRepeat(queue[r])
      /\ \A r, q \in Topics : r # q => Elements(queue[r]) \cap Elements(queue[q]) = {}
      /\ \A x : x \in pushed <=>
                  x \in received \/ x \in dropped \/ \E r \in Topics : x \in Elements(queue[r])
      /\ received \cap dropped = {}
      /\ \A r \in Topics : Elements(queue[r]) \cap (received \cup dropped) = {}
  BY AccountedByBooks DEF AccountInv, Books
<1>3. \A r \in Topics : m \notin Elements(queue[r])
  BY <1>1, <1>2
<1>4. m \notin received /\ m \notin dropped
  BY <1>1, <1>2
<1>5. /\ Elements(queue'[s]) = Elements(queue[s]) \cup {m}
      /\ NoRepeat(queue'[s])
      /\ \A r \in Topics : r # s => queue'[r] = queue[r]
  <2>1. queue \in [Topics -> Seq(Messages)]
    BY DEF TypeInv, TypeOK
  <2>2. queue'[s] = Append(queue[s], m)
    BY <1>1, <2>1
  <2> QED
    BY <1>1, <1>2, <1>3, <2>1, <2>2, PushedElements
<1>6. \A x : (\E r \in Topics : x \in Elements(queue'[r])) <=>
              x = m \/ \E r \in Topics : x \in Elements(queue[r])
  BY <1>1, <1>5
<1>7. \A r \in Topics : Elements(queue'[r]) = Elements(queue[r]) \cup (IF r = s THEN {m} ELSE {})
  BY <1>5
<1>8. \A r, q \in Topics : r # q => Elements(queue'[r]) \cap Elements(queue'[q]) = {}
  BY <1>2, <1>3, <1>7
<1>9. \A r \in Topics : NoRepeat(queue'[r])
  BY <1>2, <1>5
<1>10. \A x : x \in pushed' <=>
               x \in received' \/ x \in dropped' \/ \E r \in Topics : x \in Elements(queue'[r])
  BY <1>1, <1>2, <1>6
<1>11. \A r \in Topics : Elements(queue'[r]) \cap (received' \cup dropped') = {}
  BY <1>1, <1>2, <1>4, <1>7
<1>12. received' \cap dropped' = {}
  BY <1>1, <1>2
<1> QED
  BY <1>8, <1>9, <1>10, <1>11, <1>12, AccountedByBooks DEF Books

\* consume takes the front of one queue.
LEMMA TakeAccounts ==
  ASSUME TypeInv, AccountInv, NEW t \in Threads, Take(t)
  PROVE  MessagesAccounted'
<1> DEFINE s == topic[t]
           m == Head(queue[s])
<1>1. /\ s \in Topics /\ queue[s] # <<>>
      /\ queue' = [queue EXCEPT ![s] = Tail(queue[s])]
      /\ received' = received \cup {m}
      /\ pushed' = pushed /\ dropped' = dropped
  BY DEF Take, Rest, Looks, Back, Valid, Locks, At, InCall, TypeInv, TypeOK, CallInv
<1>2. /\ \A r \in Topics : NoRepeat(queue[r])
      /\ \A r, q \in Topics : r # q => Elements(queue[r]) \cap Elements(queue[q]) = {}
      /\ \A x : x \in pushed <=>
                  x \in received \/ x \in dropped \/ \E r \in Topics : x \in Elements(queue[r])
      /\ received \cap dropped = {}
      /\ \A r \in Topics : Elements(queue[r]) \cap (received \cup dropped) = {}
  BY AccountedByBooks DEF AccountInv, Books
<1>3. /\ Elements(queue[s]) = Elements(queue'[s]) \cup {m}
      /\ m \in Elements(queue[s])
      /\ NoRepeat(queue'[s]) /\ m \notin Elements(queue'[s])
      /\ \A r \in Topics : r # s => queue'[r] = queue[r]
  <2>1. queue \in [Topics -> Seq(Messages)]
    BY DEF TypeInv, TypeOK
  <2>2. queue'[s] = Tail(queue[s])
    BY <1>1, <2>1
  <2> QED
    BY <1>1, <1>2, <2>1, <2>2, PoppedElements
<1> HIDE DEF s, m
<1>4. \A r \in Topics : Elements(queue'[r]) = Elements(queue[r]) \ {m}
  <2>1. Elements(queue'[s]) = Elements(queue[s]) \ {m}
    BY <1>3
  <2>2. ASSUME NEW r \in Topics, r # s
        PROVE  m \notin Elements(queue[r]) /\ queue'[r] = queue[r]
    BY <1>1, <1>2, <1>3, <2>2
  <2> QED
    BY <2>1, <2>2
<1>5. \A x : (\E r \in Topics : x \in Elements(queue[r])) <=>
              x = m \/ \E r \in Topics : x \in Elements(queue'[r])
  BY <1>1, <1>3, <1>4
<1>6. \A r, q \in Topics : r # q => Elements(queue'[r]) \cap Elements(queue'[q]) = {}
  BY <1>2, <1>4
<1>7. \A r \in Topics : NoRepeat(queue'[r])
  BY <1>2, <1>3
<1>8. \A x : x \in pushed' <=>
               x \in received' \/ x \in dropped' \/ \E r \in Topics : x \in Elements(queue'[r])
  BY <1>1, <1>2, <1>5
<1>9. \A r \in Topics : Elements(queue'[r]) \cap (received' \cup dropped') = {}
  BY <1>1, <1>2, <1>4
<1>10. received' \cap dropped' = {}
  BY <1>1, <1>2, <1>3
<1> QED
  BY <1>6, <1>7, <1>8, <1>9, <1>10, AccountedByBooks DEF Books

\* unsubscribe moves the whole queue of one topic to what is lost.
LEMMA UnsubscribeAccounts ==
  ASSUME TypeInv, AccountInv, NEW t \in Threads, Unsubscribe(t)
  PROVE  MessagesAccounted'
<1>1. PICK s \in subscribed :
        /\ dropped' = dropped \cup Elements(queue[s])
        /\ queue' = [queue EXCEPT ![s] = <<>>]
        /\ pushed' = pushed /\ received' = received
  BY QueuedElements DEF Unsubscribe, Remaining
<1>2. /\ \A r \in Topics : NoRepeat(queue[r])
      /\ \A r, q \in Topics : r # q => Elements(queue[r]) \cap Elements(queue[q]) = {}
      /\ \A x : x \in pushed <=>
                  x \in received \/ x \in dropped \/ \E r \in Topics : x \in Elements(queue[r])
      /\ received \cap dropped = {}
      /\ \A r \in Topics : Elements(queue[r]) \cap (received \cup dropped) = {}
  BY AccountedByBooks DEF AccountInv, Books
<1>3. /\ s \in Topics
      /\ Elements(queue'[s]) = {} /\ NoRepeat(queue'[s])
      /\ \A r \in Topics : r # s => queue'[r] = queue[r]
  <2>1. queue \in [Topics -> Seq(Messages)] /\ s \in Topics
    BY <1>1 DEF TypeInv, TypeOK
  <2>2. queue'[s] = <<>>
    BY <1>1, <2>1
  <2> QED
    BY <1>1, <2>1, <2>2, EmptyElements
<1>4. \A x : (\E r \in Topics : x \in Elements(queue[r])) <=>
              x \in Elements(queue[s]) \/ \E r \in Topics : x \in Elements(queue'[r])
  BY <1>3
<1>5. \A r, q \in Topics : r # q => Elements(queue'[r]) \cap Elements(queue'[q]) = {}
  BY <1>2, <1>3
<1>6. \A r \in Topics : NoRepeat(queue'[r])
  BY <1>2, <1>3
<1>7. \A x : x \in pushed' <=>
               x \in received' \/ x \in dropped' \/ \E r \in Topics : x \in Elements(queue'[r])
  BY <1>1, <1>2, <1>4
<1>8. \A r \in Topics : Elements(queue'[r]) \cap (received' \cup dropped') = {}
  <2>1. \A r \in Topics : r # s => Elements(queue[r]) \cap Elements(queue[s]) = {}
    BY <1>2, <1>3
  <2> QED
    BY <1>1, <1>2, <1>3, <2>1
<1>9. received' \cap dropped' = {}
  BY <1>1, <1>2, <1>3
<1> QED
  BY <1>5, <1>6, <1>7, <1>8, <1>9, AccountedByBooks DEF Books

LEMMA NextCarryInv ==
  ASSUME TypeInv, CarryInv, [Next]_vars
  PROVE  CarryInv'
<1> USE DEF TypeInv, TypeOK, CarryInv, At
<1>1. ASSUME NEW t \in Threads, StartPublish(t) PROVE CarryInv'
  <2>1. PICK s \in Topics, m \in Messages :
          m \notin pushed /\ (\A u \in Threads : msg[u] # m) /\ Enter(t, "publishing", s, m)
    BY <1>1 DEF StartPublish
  <2> QED
    BY <2>1 DEF Enter, Go, history
<1>2. ASSUME NEW t \in Threads, StartConsume(t) PROVE CarryInv'
  <2>1. PICK s \in Topics : Enter(t, "consuming", s, NoMessage)
    BY <1>2 DEF StartConsume
  <2> QED
    BY <2>1 DEF Enter, Go, history
<1>3. ASSUME NEW t \in Threads, Return(t), pushed' = pushed PROVE CarryInv'
  BY <1>3 DEF Return, Go
<1>4. ASSUME NEW t \in Threads, Push(t) PROVE CarryInv'
  <2>1. ASSUME NEW u \in Threads, At(u, "publishing")' PROVE msg'[u] \notin pushed'
    <3>1. u # t /\ At(u, "publishing") /\ pushed' = pushed \cup {msg[t]} /\ msg' = msg
      BY <1>4, <2>1 DEF Push, Go, call
    <3>2. msg[u] \in Messages
      BY <3>1 DEF CallInv
    <3> QED
      BY <3>1, <3>2, TopicsAssumption
  <2> QED
    BY <1>4, <2>1 DEF Push, call
<1>5. ASSUME NEW t \in Threads, NotifyAll(t) PROVE CarryInv'
  BY <1>5 DEF NotifyAll, Woken, Waiting, history
<1>6. ASSUME UNCHANGED <<msg, pushed>>,
             \A u \in Threads : At(u, "publishing")' => At(u, "publishing")
      PROVE  CarryInv'
  BY <1>6
<1>7. ASSUME NEW t \in Threads,
             \/ FindEmpty(t) \/ Block(t) \/ Timeout(t) \/ TouchErased(t) \/ TouchDestroyed(t)
             \/ Subscribe(t) \/ Unsubscribe(t)
      PROVE  CarryInv'
  BY <1>6, <1>7
    DEF FindEmpty, Block, Timeout, TouchErased, TouchDestroyed, Subscribe, Unsubscribe, Go,
        call, history
<1>8. CASE Destroy \/ UNCHANGED vars
  BY <1>6, <1>8 DEF Destroy, DtorStore, DtorNotifyAll, DtorEnd, vars, call, history
<1> QED
  BY <1>1, <1>2, <1>3, <1>4, <1>5, <1>7, <1>8
    DEF Next, Publish, Consume, Terminated, NoSubscribers, UnknownTopic, Take, TakeNothing, history

LEMMA NextAccountInv ==
  ASSUME TypeInv, AccountInv, [Next]_vars
  PROVE  AccountInv'
<1>1. ASSUME NEW t \in Threads, StartPublish(t) \/ NoSubscribers(t) \/ NotifyAll(t)
      PROVE  MessagesAccounted'
  BY <1>1, QuietStep DEF AccountInv, StartPublish, Enter, NoSubscribers, NotifyAll, history
<1>2. ASSUME NEW t \in Threads,
             \/ StartConsume(t) \/ UnknownTopic(t) \/ TakeNothing(t) \/ FindEmpty(t) \/ Block(t)
             \/ Timeout(t) \/ TouchErased(t)
      PROVE  MessagesAccounted'
  BY <1>2, QuietStep
    DEF AccountInv, StartConsume, Enter, UnknownTopic, TakeNothing, FindEmpty, Block, Timeout,
        TouchErased, history
<1>3. ASSUME NEW t \in Threads, Subscribe(t) \/ TouchDestroyed(t) PROVE MessagesAccounted'
  BY <1>3, QuietStep DEF AccountInv, Subscribe, TouchDestroyed, history
<1>4. ASSUME Destroy \/ UNCHANGED vars PROVE MessagesAccounted'
  <2>1. UNCHANGED <<queue, pushed, received, dropped>>
    BY <1>4 DEF Destroy, DtorStore, DtorNotifyAll, DtorEnd, vars, history
  <2> QED
    BY <2>1, QuietStep DEF AccountInv
<1>5. ASSUME NEW t \in Threads, Publish(t) \/ Consume(t) \/ Unsubscribe(t) PROVE MessagesAccounted'
  <2>1. ASSUME Push(t) \/ Take(t) \/ Unsubscribe(t) PROVE MessagesAccounted'
    BY <2>1, PushAccounts, TakeAccounts, UnsubscribeAccounts
  <2> QED
    BY <1>1, <1>2, <1>5, <2>1 DEF Publish, Consume
<1>6. MessagesAccounted'
  BY <1>1, <1>2, <1>3, <1>4, <1>5 DEF Next, Terminated
<1> QED
  BY <1>6, NextCarryInv DEF AccountInv

\* Every accepted message is in one place: queued once, consumed by one caller,
\* or erased with its queue.
THEOREM EachMessageOnce == Spec => []MessagesAccounted
<1>1. TypeInv /\ AccountInv /\ [Next]_vars => AccountInv'
  BY NextAccountInv
<1>2. AccountInv => MessagesAccounted
  BY DEF AccountInv
<1> QED
  BY InitTypeInv, NextTypeInv, InitAccountInv, <1>1, <1>2, PTL DEF Spec

--------------------------------------------------------------------------------
(* No consumer sleeps beside a message *)

\* A consumer whose predicate was false holds the mutex until it sleeps: its
\* queue is still there and still empty.
StillEmpty == \A t \in Threads : At(t, "blocking") => queue[topic[t]] = <<>>

SleepInv == StillEmpty /\ NoSleeperBesideMessage

LEMMA InitSleepInv == Init => SleepInv
  BY DEF Init, SleepInv, StillEmpty, NoSleeperBesideMessage, At

\* A consumer that sleeps beside a message.
Beside(t) == At(t, "waiting") /\ Valid(t) /\ Running /\ queue[topic[t]] # <<>>

\* A step that brings nobody to sleep beside a message, nor to the verge of it,
\* and takes no publisher from its notification.
LEMMA NobodySleeps ==
  ASSUME SleepInv,
         \A t \in Threads : At(t, "blocking")' => queue'[topic'[t]] = <<>>,
         \A t \in Threads : Beside(t)' => Beside(t),
         \A t \in Threads : At(t, "notifying") => At(t, "notifying")'
  PROVE  SleepInv'
<1>1. StillEmpty'
  BY DEF StillEmpty
<1>2. NoSleeperBesideMessage'
  BY DEF SleepInv, NoSleeperBesideMessage, Beside
<1> QED
  BY <1>1, <1>2 DEF SleepInv

\* One thread goes from a place where it notifies nobody to one where it does
\* not sleep, and nothing that the others look at changes.
LEMMA OneMoves ==
  ASSUME SleepInv, NEW t \in Threads, UNCHANGED <<subscribed, queue, subs, dtor>>,
         \A u \in Threads : u # t => topic'[u] = topic[u] /\ held'[u] = held[u] /\ pc'[u] = pc[u],
         pc[t] # "notifying", pc'[t] \notin {"blocking", "waiting"}
  PROVE  SleepInv'
<1>1. ASSUME NEW u \in Threads, At(u, "blocking")' PROVE queue'[topic'[u]] = <<>>
  BY <1>1 DEF SleepInv, StillEmpty, At
<1>2. ASSUME NEW u \in Threads, Beside(u)' PROVE Beside(u)
  BY <1>2 DEF Beside, Valid, Running, At
<1>3. ASSUME NEW u \in Threads, At(u, "notifying") PROVE At(u, "notifying")'
  BY <1>3 DEF At
<1> QED
  BY <1>1, <1>2, <1>3, NobodySleeps

LEMMA NextSleepInv ==
  ASSUME TypeInv, SleepInv, [Next]_vars
  PROVE  SleepInv'
<1> USE DEF TypeInv, TypeOK
<1>1. ASSUME NEW t \in Threads, NEW place, NEW s, NEW m, Enter(t, place, s, m),
             place \in {"publishing", "consuming"}
      PROVE  SleepInv'
  <2>1. \A u \in Threads : u # t => topic'[u] = topic[u] /\ held'[u] = held[u] /\ pc'[u] = pc[u]
    BY <1>1 DEF Enter, Go
  <2>2. pc[t] = "idle" /\ pc'[t] \notin {"blocking", "waiting"}
    BY <1>1 DEF Enter, Go, At
  <2>3. UNCHANGED <<subscribed, queue, subs, dtor>>
    BY <1>1 DEF Enter
  <2> HIDE DEF TypeInv, TypeOK
  <2> QED
    BY <2>1, <2>2, <2>3, OneMoves
<1>2. ASSUME NEW t \in Threads, Return(t), pc[t] # "notifying",
             UNCHANGED <<subscribed, queue, subs, dtor>>
      PROVE  SleepInv'
  <2>1. \A u \in Threads : u # t => topic'[u] = topic[u] /\ held'[u] = held[u] /\ pc'[u] = pc[u]
    BY <1>2 DEF Return, Go
  <2>2. pc'[t] = "idle"
    BY <1>2 DEF Return, Go
  <2> HIDE DEF TypeInv, TypeOK
  <2> QED
    BY <1>2, <2>1, <2>2, OneMoves
<1>3. ASSUME NEW t \in Threads, Push(t) PROVE SleepInv'
  <2>1. pc'[t] = "notifying" /\ \A u \in Threads : pc[u] # "blocking"
    BY <1>3 DEF Push, Locks, MutexFree, Go
  <2>2. \A u \in Threads : pc'[u] # "blocking"
    BY <1>3, <2>1 DEF Push, Go
  <2> QED
    BY <2>1, <2>2 DEF SleepInv, StillEmpty, NoSleeperBesideMessage, At
<1>4. ASSUME NEW t \in Threads, NotifyAll(t) PROVE SleepInv'
  <2>1. \A u \in Threads : pc'[u] # "waiting"
    BY <1>4 DEF NotifyAll, Woken, Waiting
  <2>2. \A u \in Threads : pc'[u] = "blocking" =>
          pc[u] = "blocking" /\ topic'[u] = topic[u] /\ queue' = queue
    BY <1>4 DEF NotifyAll, Woken, Waiting, At
  <2> QED
    BY <2>1, <2>2 DEF SleepInv, StillEmpty, NoSleeperBesideMessage, At
<1>5. ASSUME NEW t \in Threads, Take(t) PROVE SleepInv'
  <2>1. /\ pc[t] # "notifying" /\ pc'[t] = "idle"
        /\ \A u \in Threads : pc[u] # "blocking"
    BY <1>5 DEF Take, Looks, Back, Locks, MutexFree, At, Return, Go
  <2>2. \A u \in Threads : u # t => topic'[u] = topic[u] /\ held'[u] = held[u] /\ pc'[u] = pc[u]
    BY <1>5 DEF Take, Return, Go
  <2>3. topic[t] \in subscribed /\ queue[topic[t]] # <<>>
    BY <1>5 DEF Take, Looks, Valid
  <2>4. ASSUME NEW s \in Topics, queue'[s] # <<>> PROVE queue[s] # <<>>
    BY <1>5, <2>3, <2>4 DEF Take
  <2>5. /\ subscribed' = subscribed /\ subs' = subs /\ dtor' = dtor
    BY <1>5 DEF Take
  <2>6. \A u \in Threads : pc'[u] # "blocking"
    BY <2>1, <2>2
  <2>7. ASSUME NEW u \in Threads, Beside(u)' PROVE Beside(u)
    <3>1. u # t /\ topic'[u] \in Topics
      BY <2>1, <2>5, <2>7 DEF Beside, At, Valid
    <3> QED
      BY <2>2, <2>4, <2>5, <2>7, <3>1 DEF Beside, At, Valid, Running
  <2>8. \A u \in Threads : At(u, "notifying") => At(u, "notifying")'
    BY <2>1, <2>2 DEF At
  <2> HIDE DEF TypeInv, TypeOK
  <2> QED
    BY <2>6, <2>7, <2>8, NobodySleeps DEF At
<1>6. ASSUME NEW t \in Threads, FindEmpty(t) PROVE SleepInv'
  <2>1. /\ queue[topic[t]] = <<>> /\ pc'[t] = "blocking" /\ pc[t] # "notifying"
        /\ UNCHANGED <<subscribed, queue, subs, dtor, topic>>
    BY <1>6 DEF FindEmpty, Looks, Back, Locks, At, Go
  <2>2. \A u \in Threads : u # t => pc'[u] = pc[u] /\ held'[u] = held[u]
    BY <1>6 DEF FindEmpty, Go
  <2> HIDE DEF TypeInv, TypeOK
  <2>3. \A u \in Threads : At(u, "blocking")' => queue'[topic'[u]] = <<>>
    BY <2>1, <2>2 DEF SleepInv, StillEmpty, At
  <2>4. \A u \in Threads : Beside(u)' => Beside(u)
    BY <2>1, <2>2 DEF Beside, Valid, Running, At
  <2>5. \A u \in Threads : At(u, "notifying") => At(u, "notifying")'
    BY <2>1, <2>2 DEF At
  <2> QED
    BY <2>3, <2>4, <2>5, NobodySleeps
<1>7. ASSUME NEW t \in Threads, Block(t) PROVE SleepInv'
  <2>1. /\ queue[topic[t]] = <<>> /\ pc'[t] = "waiting" /\ pc[t] = "blocking"
        /\ UNCHANGED <<subscribed, queue, subs, dtor, topic, held>>
    BY <1>7 DEF Block, call, SleepInv, StillEmpty, At, Go
  <2>2. \A u \in Threads : u # t => pc'[u] = pc[u]
    BY <1>7 DEF Block, Go
  <2> HIDE DEF TypeInv, TypeOK
  <2>3. \A u \in Threads : At(u, "blocking")' => queue'[topic'[u]] = <<>>
    BY <2>1, <2>2 DEF SleepInv, StillEmpty, At
  <2>4. \A u \in Threads : Beside(u)' => Beside(u)
    BY <2>1, <2>2 DEF Beside, Valid, Running, At
  <2>5. \A u \in Threads : At(u, "notifying") => At(u, "notifying")'
    BY <2>1, <2>2 DEF At
  <2> QED
    BY <2>3, <2>4, <2>5, NobodySleeps
<1>8. ASSUME NEW t \in Threads, Timeout(t) \/ TouchErased(t) PROVE SleepInv'
  <2>1. \A u \in Threads : u # t => topic'[u] = topic[u] /\ held'[u] = held[u] /\ pc'[u] = pc[u]
    BY <1>8 DEF Timeout, TouchErased, Go, call
  <2>2. pc[t] # "notifying" /\ pc'[t] \notin {"blocking", "waiting"}
    BY <1>8 DEF Timeout, TouchErased, Back, Locks, At, Go
  <2>3. UNCHANGED <<subscribed, queue, subs, dtor>>
    BY <1>8 DEF Timeout, TouchErased
  <2> HIDE DEF TypeInv, TypeOK
  <2> QED
    BY <2>1, <2>2, <2>3, OneMoves
<1>9. ASSUME NEW t \in Threads, Subscribe(t) PROVE SleepInv'
  <2>1. /\ UNCHANGED <<queue, dtor, pc, topic, held>>
        /\ \A u \in Threads : queue[topic[u]] # <<>> /\ topic[u] \in subscribed'
             => topic[u] \in subscribed /\ subs'[topic[u]] = subs[topic[u]]
    BY <1>9 DEF Subscribe, call
  <2> QED
    BY <2>1 DEF SleepInv, StillEmpty, NoSleeperBesideMessage, Valid, Running, At
<1>10. ASSUME NEW t \in Threads, Unsubscribe(t) PROVE SleepInv'
  <2>1. PICK s \in subscribed : subscribed' = subscribed \ {s} /\ queue' = [queue EXCEPT ![s] = <<>>]
    BY <1>10 DEF Unsubscribe, Remaining
  <2>2. UNCHANGED <<subs, dtor, pc, topic, held>> /\ \A u \in Threads : pc[u] # "blocking"
    BY <1>10 DEF Unsubscribe, Locks, MutexFree, call
  <2>3. \A u \in Threads : topic[u] \in subscribed' => queue'[topic[u]] = queue[topic[u]]
    BY <2>1
  <2> QED
    BY <2>1, <2>2, <2>3 DEF SleepInv, StillEmpty, NoSleeperBesideMessage, Valid, Running, At
<1>11. CASE Destroy
  <2>1. ~Running'
    BY <1>11 DEF Destroy, DtorStore, DtorNotifyAll, DtorEnd, Running
  <2>2. /\ UNCHANGED <<queue, topic>>
        /\ \A u \in Threads : pc'[u] = "blocking" => pc[u] = "blocking"
    BY <1>11 DEF Destroy, DtorStore, DtorNotifyAll, DtorEnd, call
  <2> QED
    BY <2>1, <2>2 DEF SleepInv, StillEmpty, NoSleeperBesideMessage, At
<1>12. ASSUME NEW t \in Threads, TouchDestroyed(t) PROVE SleepInv'
  <2>1. ~Running'
    BY <1>12 DEF TouchDestroyed, Running
  <2>2. /\ UNCHANGED <<queue, topic>>
        /\ \A u \in Threads : pc'[u] = "blocking" => pc[u] = "blocking"
    BY <1>12 DEF TouchDestroyed, Go, call
  <2> QED
    BY <2>1, <2>2 DEF SleepInv, StillEmpty, NoSleeperBesideMessage, At
<1>13. CASE UNCHANGED vars
  <2>1. UNCHANGED <<subscribed, queue, subs, dtor, pc, topic, held>>
    BY <1>13 DEF vars
  <2> HIDE DEF TypeInv, TypeOK
  <2> QED
    BY <2>1 DEF SleepInv, StillEmpty, NoSleeperBesideMessage, Valid, Running, At
<1>14. ASSUME NEW t \in Threads, NoSubscribers(t) \/ UnknownTopic(t) \/ TakeNothing(t) PROVE SleepInv'
  BY <1>2, <1>14 DEF NoSubscribers, UnknownTopic, TakeNothing, Looks, Back, Locks, At
<1>15. ASSUME NEW t \in Threads, StartPublish(t) \/ StartConsume(t) PROVE SleepInv'
  BY <1>1, <1>15 DEF StartPublish, StartConsume
<1> QED
  BY <1>3, <1>4, <1>5, <1>6, <1>7, <1>8, <1>9, <1>10, <1>11, <1>12, <1>13, <1>14, <1>15
    DEF Next, Publish, Consume, Terminated

\* While the broker runs, no consumer sleeps beside a message of its queue unless
\* a publisher is about to notify.
THEOREM NobodyOversleeps == Spec => []NoSleeperBesideMessage
<1>1. TypeInv /\ SleepInv /\ [Next]_vars => SleepInv'
  BY NextSleepInv
<1>2. SleepInv => NoSleeperBesideMessage
  BY DEF SleepInv
<1> QED
  BY InitTypeInv, NextTypeInv, InitSleepInv, <1>1, <1>2, PTL DEF Spec

--------------------------------------------------------------------------------
(* The broker implements its contract *)

Sleeping == {"blocking", "waiting", "woken", "expired", "queue_gone"}
Fresh == {"idle", "publishing", "notifying", "consuming"}

\* A consumer has the number of its subscription from the moment it goes to
\* sleep until it returns, and no subscription has a number that is still to come.
HeldInv ==
  /\ \A t \in Threads :
       /\ pc[t] \in Sleeping => held[t] # 0
       /\ pc[t] \in Fresh => held[t] = 0
       /\ held[t] # 0 => topic[t] \in Topics /\ held[t] <= subs[topic[t]]
  /\ \A s \in subscribed : subs[s] # 0

LEMMA InitHeldInv == Init => HeldInv
  BY DEF Init, HeldInv, Sleeping

\* What a thread returns with does not matter to the others.
LEMMA ReturnHeld ==
  ASSUME TypeInv, HeldInv, NEW t \in Threads, Return(t), UNCHANGED <<subscribed, subs>>
  PROVE  HeldInv'
  BY DEF TypeInv, TypeOK, HeldInv, Return, Go, Sleeping, Fresh

\* A thread goes on inside its call, with what it holds.
LEMMA MoveHeld ==
  ASSUME TypeInv, HeldInv, UNCHANGED <<subscribed, subs, topic, held>>,
         \A u \in Threads : \/ pc'[u] = pc[u]
                            \/ pc[u] \in Sleeping /\ pc'[u] \in Sleeping
                            \/ pc[u] \in Fresh /\ pc'[u] \in Fresh
                            \/ pc'[u] = "broker_gone"
  PROVE  HeldInv'
<1>1. "broker_gone" \notin Sleeping /\ "broker_gone" \notin Fresh /\ Sleeping \cap Fresh = {}
  BY DEF Sleeping, Fresh
<1>2. ASSUME NEW u \in Threads
      PROVE  (pc'[u] \in Sleeping => held[u] # 0) /\ (pc'[u] \in Fresh => held[u] = 0)
  BY <1>1 DEF HeldInv
<1> QED
  BY <1>2 DEF HeldInv

LEMMA NextHeldInv ==
  ASSUME TypeInv, HeldInv, [Next]_vars
  PROVE  HeldInv'
<1> USE DEF TypeInv, TypeOK
<1>1. ASSUME NEW t \in Threads, NEW place \in {"publishing", "consuming"}, NEW s, NEW m,
             Enter(t, place, s, m)
      PROVE  HeldInv'
  BY <1>1 DEF HeldInv, Enter, At, Go, Sleeping, Fresh
<1>2. ASSUME NEW t \in Threads, StartPublish(t) \/ StartConsume(t) PROVE HeldInv'
  BY <1>1, <1>2 DEF StartPublish, StartConsume
<1>3. ASSUME NEW t \in Threads,
             NoSubscribers(t) \/ UnknownTopic(t) \/ Take(t) \/ TakeNothing(t)
      PROVE  HeldInv'
  <2>1. Return(t) /\ UNCHANGED <<subscribed, subs>>
    BY <1>3 DEF NoSubscribers, UnknownTopic, Take, TakeNothing
  <2> QED
    BY <2>1, ReturnHeld
<1>4. ASSUME NEW t \in Threads, NotifyAll(t) PROVE HeldInv'
  BY <1>4 DEF HeldInv, NotifyAll, Woken, Waiting, At, Sleeping, Fresh
<1>5. ASSUME NEW t \in Threads, FindEmpty(t) PROVE HeldInv'
  <2>1. topic[t] \in subscribed /\ topic[t] \in Topics
    BY <1>5 DEF FindEmpty, Looks, Valid
  <2>2. held' = [held EXCEPT ![t] = subs[topic[t]]] /\ pc' = [pc EXCEPT ![t] = "blocking"]
    BY <1>5 DEF FindEmpty, Go
  <2>3. UNCHANGED <<subscribed, subs, topic>>
    BY <1>5 DEF FindEmpty
  <2>4. subs[topic[t]] # 0 /\ subs[topic[t]] <= subs[topic[t]]
    BY <2>1, BoundsAssumption DEF HeldInv
  <2> QED
    BY <2>1, <2>2, <2>3, <2>4 DEF HeldInv, Sleeping, Fresh
<1>6. ASSUME NEW t \in Threads,
             Push(t) \/ Block(t) \/ Timeout(t) \/ TouchErased(t) \/ TouchDestroyed(t)
      PROVE  HeldInv'
  <2>1. UNCHANGED <<subscribed, subs, topic, held>>
    BY <1>6 DEF Push, Block, Timeout, TouchErased, TouchDestroyed, call
  <2>2. \A u \in Threads : \/ pc'[u] = pc[u]
                           \/ pc[u] \in Sleeping /\ pc'[u] \in Sleeping
                           \/ pc[u] \in Fresh /\ pc'[u] \in Fresh
                           \/ pc'[u] = "broker_gone"
    BY <1>6 DEF Push, Block, Timeout, TouchErased, TouchDestroyed, Back, Locks, At, Go, Sleeping, Fresh
  <2> HIDE DEF TypeInv
  <2> QED
    BY <2>1, <2>2, MoveHeld
<1>7. ASSUME NEW t \in Threads, Subscribe(t) PROVE HeldInv'
  <2>1. PICK s \in Topics \ subscribed :
          subs' = [subs EXCEPT ![s] = @ + 1] /\ subscribed' = subscribed \cup {s}
    BY <1>7 DEF Subscribe
  <2>2. \A r \in Topics : subs'[r] = subs[r] \/ (r = s /\ subs'[r] = subs[r] + 1)
    BY <2>1
  <2>3. UNCHANGED <<pc, topic, held>>
    BY <1>7 DEF Subscribe, call
  <2>4. \A r \in Topics : subs[r] \in Nat /\ subs'[r] \in Nat /\ subs[r] <= subs'[r]
    <3>1. \A r \in Topics : subs[r] \in Nat
      BY BoundsAssumption
    <3> HIDE DEF TypeInv, TypeOK
    <3> QED
      BY <2>2, <3>1
  <2>5. \A u \in Threads : held[u] \in Nat
    BY BoundsAssumption
  <2>6. \A r \in subscribed' : subs'[r] # 0
    BY <2>1, <2>2, <2>4 DEF HeldInv
  <2>7. \A u \in Threads : held'[u] # 0 => topic'[u] \in Topics /\ held'[u] <= subs'[topic'[u]]
    BY <2>3, <2>4, <2>5 DEF HeldInv
  <2> QED
    BY <2>3, <2>6, <2>7 DEF HeldInv
<1>8. ASSUME NEW t \in Threads, Unsubscribe(t) PROVE HeldInv'
  BY <1>8 DEF HeldInv, Unsubscribe, call
<1>9. CASE Destroy
  <2>1. UNCHANGED <<subscribed, subs, topic, held>>
    BY <1>9 DEF Destroy, DtorStore, DtorNotifyAll, DtorEnd, call
  <2>2. \A u \in Threads : \/ pc'[u] = pc[u]
                           \/ pc[u] \in Sleeping /\ pc'[u] \in Sleeping
    BY <1>9 DEF Destroy, DtorStore, DtorNotifyAll, DtorEnd, Sleeping
  <2> HIDE DEF TypeInv
  <2> QED
    BY <2>1, <2>2, MoveHeld
<1>10. CASE UNCHANGED vars
  BY <1>10 DEF HeldInv, vars
<1> QED
  BY <1>2, <1>3, <1>4, <1>5, <1>6, <1>7, <1>8, <1>9, <1>10
    DEF Next, Publish, Consume, Terminated

LEMMA RoleValues ==
  /\ Role("idle") = "idle" /\ Role("publishing") = "sending" /\ Role("notifying") = "accepted"
  /\ \A p \in {"consuming", "blocking", "waiting", "woken", "expired"} : Role(p) = "receiving"
  /\ Role("queue_gone") = "lost" /\ Role("broker_gone") = "lost"
  BY DEF Role

LEMMA RolesOf == \A t \in Threads : Roles[t] = Role(pc[t])
  BY DEF Roles

\* One thread moves: one caller plays another part, or goes on as before.
LEMMA MapMove ==
  ASSUME TypeInv, NEW t \in Threads, NEW place, Go(t, place)
  PROVE  /\ Roles' = [Roles EXCEPT ![t] = Role(place)]
         /\ Role(pc[t]) = Role(place) => Roles' = Roles
<1>1. pc \in [Threads -> Places] /\ pc' = [pc EXCEPT ![t] = place]
  BY DEF TypeInv, TypeOK, Go
<1> QED
  BY <1>1 DEF Roles

\* Nobody gets or loses a reference.
LEMMA MapSameReferences ==
  ASSUME UNCHANGED <<subscribed, subs, topic, held>>
  PROVE  Referring' = Referring /\ Orphaned' = Orphaned
  BY DEF Referring, Orphaned, Valid

LEMMA MapSameLife == UNCHANGED dtor => Life' = Life
  BY DEF Life, Running

\* A thread that returns has its answer, and is no orphan any more.
LEMMA MapReturn ==
  ASSUME TypeInv, HeldInv, NEW t \in Threads, Return(t), dtor # "gone",
         UNCHANGED <<subscribed, subs, dtor, dropped>>
  PROVE  Channels!Answer(t)
<1>1. Roles' = [Roles EXCEPT ![t] = "idle"]
  BY MapMove, RoleValues DEF Return
<1>2. /\ topic' = [topic EXCEPT ![t] = NoTopic] /\ held' = [held EXCEPT ![t] = 0]
      /\ msg' = [msg EXCEPT ![t] = NoMessage]
  BY DEF Return
<1>3. Referring' = Referring \ {t}
  BY <1>2 DEF Referring, TypeInv, TypeOK
<1>4. Orphaned' = Orphaned \ {t}
  <2>1. \A u \in Threads : u # t => topic'[u] = topic[u] /\ held'[u] = held[u]
    BY <1>2 DEF TypeInv, TypeOK
  <2>2. \A u \in Threads : u # t => (Valid(u)' <=> Valid(u))
    BY <2>1 DEF Valid
  <2> QED
    BY <1>3, <2>2 DEF Orphaned, Referring
<1>5. Life' = Life /\ Life # "gone"
  BY MapSameLife DEF Life, Running
<1> QED
  BY <1>1, <1>2, <1>3, <1>4, <1>5 DEF Channels!Answer

\* A consumer that may use its queue is no orphan, and its topic is open.
LEMMA LookingIsSafe ==
  ASSUME TypeInv, HeldInv, NEW t \in Threads, Looks(t)
  PROVE  /\ t \notin Orphaned /\ topic[t] \in subscribed /\ topic[t] \in Topics
         /\ Roles[t] = "receiving" /\ dtor # "gone"
         /\ At(t, "expired") => t \in Referring
<1>1. topic[t] \in subscribed /\ dtor # "gone"
  BY DEF Looks, Back, Locks, Valid
<1>2. t \notin Orphaned
  BY DEF Looks, Back, Locks, At, Orphaned, Referring, HeldInv, Fresh
<1>3. Roles[t] = "receiving"
  BY RolesOf, RoleValues DEF Looks, Back, Locks, At
<1>4. At(t, "expired") => t \in Referring
  BY DEF At, Referring, HeldInv, Sleeping
<1> QED
  BY <1>1, <1>2, <1>3, <1>4 DEF TypeInv, TypeOK

\* Open topics, channels and what became of the messages stay as they are.
Settled == UNCHANGED <<subscribed, queue, received, dropped>>

LEMMA InitChannels == Init => Channels!ChannelInit
<1> SUFFICES ASSUME Init PROVE Channels!ChannelInit
  OBVIOUS
<1>1. Roles = [t \in Threads |-> "idle"]
  BY RoleValues DEF Init, Roles
<1>2. Referring = {} /\ Orphaned = {}
  BY DEF Init, Referring, Orphaned
<1>3. Life = "up"
  BY DEF Init, Life, Running
<1> QED
  BY <1>1, <1>2, <1>3 DEF Init, Channels!ChannelInit

LEMMA NextChannels ==
  TypeInv /\ HeldInv /\ [Next]_vars => [Channels!ChannelNext]_(Channels!channelVars)
<1> SUFFICES ASSUME TypeInv, HeldInv, [Next]_vars
             PROVE  [Channels!ChannelNext]_(Channels!channelVars)
  OBVIOUS
<1> DEFINE Stutter == UNCHANGED Channels!channelVars
           Goal == Channels!ChannelNext \/ Stutter
\* Where no caller notices anything.
<1>1. ASSUME Settled, Roles' = Roles, UNCHANGED <<subs, topic, held, msg, dtor>>
      PROVE  Stutter
  <2>1. Referring' = Referring /\ Orphaned' = Orphaned /\ Life' = Life
    BY <1>1, MapSameReferences, MapSameLife DEF Settled
  <2> QED
    BY <1>1, <2>1 DEF Settled, Channels!channelVars
<1>2. ASSUME NEW t \in Threads, NEW s \in Topics, NEW m, NEW place \in {"publishing", "consuming"},
             Enter(t, place, s, m)
      PROVE  Channels!Ask(t, Role(place), s, m)
  <2>1. Roles[t] = "idle" /\ Roles' = [Roles EXCEPT ![t] = Role(place)]
    BY <1>2, RolesOf, RoleValues, MapMove DEF Enter, At
  <2>2. /\ topic' = [topic EXCEPT ![t] = s] /\ msg' = [msg EXCEPT ![t] = m]
        /\ Settled /\ UNCHANGED <<subs, dtor, held>>
    BY <1>2 DEF Enter, history, Settled
  <2>3. Life = "up" /\ Life' = "up"
    BY <1>2, <2>2 DEF Enter, Life, Running
  <2>4. held[t] = 0
    BY <1>2 DEF HeldInv, Enter, At, Fresh
  <2>5. Referring' = Referring
    BY <2>2 DEF Referring
  <2>6. Orphaned' = Orphaned
    <3>1. ASSUME NEW u \in Referring PROVE Valid(u)' <=> Valid(u)
      <4>1. u # t /\ topic'[u] = topic[u]
        BY <2>2, <2>4 DEF Referring, TypeInv, TypeOK
      <4> QED
        BY <2>2, <4>1 DEF Valid, Settled
    <3> QED
      BY <2>5, <3>1 DEF Orphaned
  <2> QED
    BY <2>1, <2>2, <2>3, <2>5, <2>6 DEF Channels!Ask, Settled
<1>3. ASSUME NEW t \in Threads, StartPublish(t) PROVE Goal
  <2>1. Channels!AskSend(t)
    BY <1>2, <1>3, RoleValues DEF StartPublish, Channels!AskSend
  <2> QED
    BY <2>1 DEF Channels!ChannelNext
<1>4. ASSUME NEW t \in Threads, StartConsume(t) PROVE Goal
  <2>1. Channels!AskReceive(t)
    BY <1>2, <1>4, RoleValues DEF StartConsume, Channels!AskReceive
  <2> QED
    BY <2>1 DEF Channels!ChannelNext
<1>5. ASSUME NEW t \in Threads, NoSubscribers(t) PROVE Goal
  <2>1. Roles[t] = "sending" /\ topic[t] \notin subscribed
    BY <1>5, RolesOf, RoleValues DEF NoSubscribers, Locks, At
  <2>2. Return(t) /\ dtor # "gone" /\ UNCHANGED <<subscribed, queue, subs, dtor, received, dropped>>
    BY <1>5 DEF NoSubscribers, Locks, history
  <2>3. Channels!Refuse(t)
    BY <2>1, <2>2, MapReturn DEF Channels!Refuse
  <2> QED
    BY <2>3 DEF Channels!ChannelNext
<1>6. ASSUME NEW t \in Threads, Push(t) PROVE Goal
  <2>1. Roles[t] = "sending" /\ topic[t] \in subscribed /\ Life # "gone"
    BY <1>6, RolesOf, RoleValues DEF Push, Locks, At, Life, Running
  <2>2. Roles' = [Roles EXCEPT ![t] = "accepted"]
    BY <1>6, MapMove, RoleValues DEF Push
  <2>3. /\ queue' = [queue EXCEPT ![topic[t]] = Append(queue[topic[t]], msg[t])]
        /\ UNCHANGED <<subscribed, subs, dtor, topic, held, msg, received, dropped>>
    BY <1>6 DEF Push, Pushed, call
  <2>4. Referring' = Referring /\ Orphaned' = Orphaned /\ Life' = Life
    BY <2>3, MapSameReferences, MapSameLife
  <2>5. Channels!Accept(t)
    BY <2>1, <2>2, <2>3, <2>4 DEF Channels!Accept
  <2> QED
    BY <2>5 DEF Channels!ChannelNext
<1>7. ASSUME NEW t \in Threads, NotifyAll(t) PROVE Goal
  <2>1. Roles[t] = "accepted" /\ Life # "gone"
    BY <1>7, RolesOf, RoleValues DEF NotifyAll, At, Life, Running
  <2>2. Roles' = [Roles EXCEPT ![t] = "idle"]
    <3>1. \A u \in Threads : Role(pc'[u]) = IF u = t THEN "idle" ELSE Role(pc[u])
      BY <1>7, RoleValues DEF NotifyAll, Woken, Waiting
    <3> QED
      BY <3>1 DEF Roles
  <2>3. /\ topic' = [topic EXCEPT ![t] = NoTopic] /\ msg' = [msg EXCEPT ![t] = NoMessage]
        /\ Settled /\ UNCHANGED <<subs, dtor, held>>
    BY <1>7 DEF NotifyAll, history, Settled
  <2>4. held[t] = 0
    BY <1>7 DEF HeldInv, NotifyAll, At, Fresh
  <2>5. Referring' = Referring \ {t} /\ Referring' = Referring /\ t \notin Orphaned
    BY <2>3, <2>4 DEF Referring, Orphaned
  <2>6. Orphaned' = Orphaned
    <3>1. ASSUME NEW u \in Referring PROVE Valid(u)' <=> Valid(u)
      <4>1. u # t /\ topic'[u] = topic[u]
        BY <2>3, <2>4 DEF Referring, TypeInv, TypeOK
      <4> QED
        BY <2>3, <4>1 DEF Valid, Settled
    <3> QED
      BY <2>5, <3>1 DEF Orphaned
  <2>7. Channels!Confirm(t)
    BY <2>1, <2>2, <2>3, <2>5, <2>6, MapSameLife DEF Channels!Confirm, Channels!Answer, Settled
  <2> QED
    BY <2>7 DEF Channels!ChannelNext
<1>8. ASSUME NEW t \in Threads, UnknownTopic(t) PROVE Goal
  <2>1. Roles[t] = "receiving" /\ topic[t] \notin subscribed
    BY <1>8, RolesOf, RoleValues DEF UnknownTopic, Locks, At
  <2>2. t \notin Referring
    BY <1>8 DEF UnknownTopic, Locks, At, Referring, HeldInv, Fresh
  <2>3. Return(t) /\ dtor # "gone" /\ UNCHANGED <<subscribed, queue, subs, dtor, received, dropped>>
    BY <1>8 DEF UnknownTopic, Locks, history
  <2>4. Channels!DeliverNothing(t)
    BY <2>1, <2>2, <2>3, MapReturn DEF Channels!DeliverNothing
  <2> QED
    BY <2>4 DEF Channels!ChannelNext
<1>9. ASSUME NEW t \in Threads, Take(t) PROVE Goal
  <2>1. /\ Looks(t) /\ Return(t) /\ Running /\ queue[topic[t]] # <<>>
        /\ received' = received \cup {Head(queue[topic[t]])}
        /\ queue' = [queue EXCEPT ![topic[t]] = Tail(queue[topic[t]])]
        /\ UNCHANGED <<subscribed, subs, dtor, dropped>>
    BY <1>9 DEF Take, Rest
  <2>2. /\ t \notin Orphaned /\ topic[t] \in subscribed /\ Roles[t] = "receiving"
        /\ dtor # "gone"
    BY <2>1, LookingIsSafe
  <2>3. Channels!Answer(t)
    BY <2>1, <2>2, MapReturn
  <2>4. Life = "up"
    BY <2>1 DEF Life
  <2>5. Channels!Deliver(t)
    BY <2>1, <2>2, <2>3, <2>4 DEF Channels!Deliver
  <2> QED
    BY <2>5 DEF Channels!ChannelNext
<1>10. ASSUME NEW t \in Threads, TakeNothing(t) PROVE Goal
  <2>1. /\ Looks(t) \/ (Back(t) /\ ~Running)
        /\ Return(t) /\ GivesUp(t) /\ (Running => queue[topic[t]] = <<>>)
        /\ UNCHANGED <<subscribed, queue, subs, dtor, received, dropped>>
    BY <1>10 DEF TakeNothing, history
  <2>2. Roles[t] = "receiving" /\ dtor # "gone"
    BY <2>1, RolesOf, RoleValues DEF Looks, Back, Locks, At
  <2>3. (t \in Referring \ Orphaned /\ queue[topic[t]] = <<>>) \/ Life = "closing"
    <3>1. CASE Running
      BY <2>1, <3>1, LookingIsSafe DEF GivesUp
    <3>2. CASE ~Running
      BY <2>2, <3>2 DEF Life
    <3> QED
      BY <3>1, <3>2
  <2>4. Channels!DeliverNothing(t)
    BY <2>1, <2>2, <2>3, MapReturn DEF Channels!DeliverNothing
  <2> QED
    BY <2>4 DEF Channels!ChannelNext
<1>11. ASSUME NEW t \in Threads, FindEmpty(t) PROVE Goal
  <2>1. /\ Looks(t) /\ Running /\ queue[topic[t]] = <<>>
        /\ held' = [held EXCEPT ![t] = subs[topic[t]]]
        /\ Go(t, "blocking") /\ Settled /\ UNCHANGED <<subs, dtor, topic, msg>>
    BY <1>11 DEF FindEmpty, GivesUp, history, Settled
  <2>2. /\ t \notin Orphaned /\ topic[t] \in subscribed /\ topic[t] \in Topics
        /\ Roles[t] = "receiving"
    BY <2>1, LookingIsSafe
  <2>3. Roles' = Roles
    BY <2>1, <2>2, MapMove, RolesOf, RoleValues
  <2>4. Referring' = Referring \cup {t}
    BY <2>1, <2>2 DEF Referring, HeldInv, TypeInv, TypeOK
  <2>5. Orphaned' = Orphaned
    <3>1. Valid(t)'
      BY <2>1, <2>2 DEF Valid, Settled, TypeInv, TypeOK
    <3>2. ASSUME NEW u \in Threads, u # t PROVE Valid(u)' <=> Valid(u)
      BY <2>1, <3>2 DEF Valid, Settled, TypeInv, TypeOK
    <3> QED
      BY <2>2, <2>4, <3>1, <3>2 DEF Orphaned, Referring
  <2>6. Life = "up" /\ Life' = Life
    BY <2>1, MapSameLife DEF Life
  <2>7. Channels!Wait(t)
    BY <2>1, <2>2, <2>3, <2>4, <2>5, <2>6 DEF Channels!Wait, Settled
  <2> QED
    BY <2>7 DEF Channels!ChannelNext
<1>12. ASSUME NEW t \in Threads, Block(t) \/ Timeout(t) PROVE Goal
  <2>1. Roles' = Roles
    BY <1>12, MapMove, RoleValues DEF Block, Timeout, At
  <2>2. Settled /\ UNCHANGED <<subs, topic, held, msg, dtor>>
    BY <1>12 DEF Block, Timeout, call, history, Settled
  <2> QED
    BY <1>1, <2>1, <2>2
<1>13. ASSUME NEW t \in Threads, TouchErased(t) \/ TouchDestroyed(t) PROVE Goal
  <2>1. Settled /\ UNCHANGED <<subs, topic, held, msg, dtor>>
    BY <1>13 DEF TouchErased, TouchDestroyed, call, history, Settled
  <2>2. Roles' = [Roles EXCEPT ![t] = "lost"]
    BY <1>13, MapMove, RoleValues DEF TouchErased, TouchDestroyed
  <2>3. Referring' = Referring /\ Orphaned' = Orphaned /\ Life' = Life
    BY <2>1, MapSameReferences, MapSameLife DEF Settled
  <2>4. \/ Life = "up" /\ t \in Orphaned /\ Roles[t] = "receiving"
        \/ Life = "gone" /\ Roles[t] \in {"sending", "accepted", "receiving"}
    <3>1. CASE TouchErased(t)
      BY <3>1, RolesOf, RoleValues
        DEF TouchErased, Back, Locks, At, Life, Orphaned, Referring, HeldInv, Sleeping
    <3>2. CASE TouchDestroyed(t)
      <4>1. pc[t] \in Places \ {"idle", "queue_gone", "broker_gone"}
        BY <3>2 DEF TouchDestroyed, InCall, TypeInv, TypeOK
      <4>2. Roles[t] \in {"sending", "accepted", "receiving"}
        BY <4>1, RolesOf, RoleValues DEF Places
      <4> QED
        BY <3>2, <4>2 DEF TouchDestroyed, Life, Running
    <3> QED
      BY <1>13, <3>1, <3>2
  <2>5. Channels!Lose(t)
    BY <2>1, <2>2, <2>3, <2>4 DEF Channels!Lose, Settled
  <2> QED
    BY <2>5 DEF Channels!ChannelNext
<1>14. ASSUME NEW t \in Threads, Subscribe(t) PROVE Goal
  <2>1. PICK s \in Topics \ subscribed :
          subs' = [subs EXCEPT ![s] = @ + 1] /\ subscribed' = subscribed \cup {s}
    BY <1>14 DEF Subscribe
  <2>2. /\ Life # "gone"
        /\ UNCHANGED <<queue, dtor, pc, topic, held, msg, received, dropped>>
    BY <1>14 DEF Subscribe, Locks, call, history, Life, Running
  <2>3. Roles' = Roles /\ Referring' = Referring /\ Life' = Life
    BY <2>2, MapSameLife DEF Roles, Referring
  <2>4. Orphaned' = Orphaned
    <3>1. ASSUME NEW u \in Referring PROVE Valid(u)' <=> Valid(u)
      <4>1. topic[u] \in Topics /\ held[u] <= subs[topic[u]]
        BY DEF Referring, HeldInv
      <4>2. CASE topic[u] = s
        <5>1. ~Valid(u)
          BY <2>1, <4>2 DEF Valid
        <5>2. held[u] \in Nat /\ subs[s] \in Nat /\ subs'[s] = subs[s] + 1
          BY <2>1, BoundsAssumption DEF Referring, TypeInv, TypeOK
        <5> QED
          BY <2>2, <4>1, <4>2, <5>1, <5>2 DEF Valid
      <4>3. CASE topic[u] # s
        BY <2>1, <2>2, <4>1, <4>3 DEF Valid, TypeInv, TypeOK
      <4> QED
        BY <4>2, <4>3
    <3> QED
      BY <2>3, <3>1 DEF Orphaned
  <2>5. Channels!Open
    BY <2>1, <2>2, <2>3, <2>4 DEF Channels!Open
  <2> QED
    BY <2>5 DEF Channels!ChannelNext
<1>15. ASSUME NEW t \in Threads, Unsubscribe(t) PROVE Goal
  <2>1. PICK s \in subscribed :
          /\ subscribed' = subscribed \ {s}
          /\ dropped' = dropped \cup Erased(s)
          /\ queue' = [queue EXCEPT ![s] = <<>>]
    BY <1>15 DEF Unsubscribe, Remaining
  <2>2. Life # "gone" /\ UNCHANGED <<subs, dtor, pc, topic, held, msg, received>>
    BY <1>15 DEF Unsubscribe, Locks, call, Life, Running
  <2>3. Roles' = Roles /\ Referring' = Referring /\ Life' = Life
    BY <2>2, MapSameLife DEF Roles, Referring
  <2>4. Orphaned' = Orphaned \cup {u \in Referring : topic[u] = s}
    <3>1. ASSUME NEW u \in Referring PROVE Valid(u)' <=> Valid(u) /\ topic[u] # s
      BY <2>1, <2>2 DEF Valid
    <3> QED
      BY <2>3, <3>1 DEF Orphaned
  <2>5. Channels!Contents(s) = Erased(s)
    BY DEF Channels!Contents, Erased
  <2>6. Channels!Close
    BY <2>1, <2>2, <2>3, <2>4, <2>5 DEF Channels!Close
  <2> QED
    BY <2>6 DEF Channels!ChannelNext
<1>16. ASSUME DtorStore \/ DtorEnd PROVE Goal
  <2>1. /\ Settled /\ UNCHANGED <<subs, pc, topic, held, msg>>
        /\ Life' = IF Life = "up" THEN "closing" ELSE "gone"
    BY <1>16 DEF DtorStore, DtorEnd, call, history, Settled, Life, Running
  <2>2. Roles' = Roles /\ Referring' = Referring /\ Orphaned' = Orphaned
    BY <2>1, MapSameReferences DEF Roles, Settled
  <2>3. Channels!ShutDown
    BY <2>1, <2>2 DEF Channels!ShutDown, Settled
  <2> QED
    BY <2>3 DEF Channels!ChannelNext
<1>17. ASSUME DtorNotifyAll PROVE Goal
  <2>1. Settled /\ UNCHANGED <<subs, topic, held, msg>>
    BY <1>17 DEF DtorNotifyAll, call, history, Settled
  <2>2. Roles' = Roles
    <3>1. \A u \in Threads : Role(pc'[u]) = Role(pc[u])
      BY <1>17, RoleValues DEF DtorNotifyAll
    <3> QED
      BY <3>1 DEF Roles
  <2>3. Referring' = Referring /\ Orphaned' = Orphaned /\ Life' = Life
    BY <1>17, <2>1, MapSameReferences DEF DtorNotifyAll, Settled, Life, Running
  <2> QED
    BY <2>1, <2>2, <2>3 DEF Settled, Channels!channelVars
<1>18. CASE UNCHANGED vars
  <2>1. Settled /\ UNCHANGED <<subs, topic, held, msg, dtor, pc>>
    BY <1>18 DEF vars, Settled
  <2> QED
    BY <1>1, <2>1 DEF Roles
<1> QED
  BY <1>3, <1>4, <1>5, <1>6, <1>7, <1>8, <1>9, <1>10, <1>11, <1>12, <1>13, <1>14, <1>15, <1>16,
     <1>17, <1>18
    DEF Next, Publish, Consume, Destroy, Terminated

\* The broker implements TopicChannels: first in, first out, and no caller left
\* without an answer but where a running broker's queue was erased under it, or the
\* broker itself was destroyed.
THEOREM Refinement == Spec => ImplementsChannels
<1>1. TypeInv /\ HeldInv /\ [Next]_vars => HeldInv'
  BY NextHeldInv
<1> QED
  BY InitTypeInv, NextTypeInv, InitHeldInv, <1>1, InitChannels, NextChannels, PTL
    DEF Spec, ImplementsChannels, Channels!ChannelSpec
================================================================================
