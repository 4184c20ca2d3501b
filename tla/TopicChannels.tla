----------------------------- MODULE TopicChannels -----------------------------
(***************************************************************************)
(* What the message broker promises its callers, without a mutex, a        *)
(* condition variable, timeouts or references: each open topic is a FIFO   *)
(* channel; a sender's message goes to the end of it, a receiver gets the  *)
(* front of it, and is told that there is nothing only after it has waited *)
(* beside a channel that is empty now.  Closing a topic destroys its       *)
(* channel and whatever waits there with it: its receivers are orphans,    *)
(* and nothing is promised to them while the broker is up; one that closes *)
(* answers them like everybody else.  One that is gone answers nobody.     *)
(* MessageBroker.tla implements it (src/src/infrastructure/messaging).     *)
(***************************************************************************)
EXTENDS Naturals, Sequences

CONSTANTS
  Callers,     \* threads that send and receive
  Topics,
  Messages,
  NoTopic,     \* the topic of a caller that asks for nothing
  NoMessage    \* the message of a caller that sends nothing

VARIABLES
  open,        \* the topics that have a channel
  channel,     \* the messages in the channel of each topic, oldest first
  life,        \* "up", "closing" or "gone"
  role,        \* what each caller is doing
  topic,       \* the topic it is about
  msg,         \* the message it sends
  waiting,     \* the receivers that found their channel empty
  orphans,     \* those whose channel was closed since
  delivered,   \* the messages handed to a receiver
  discarded    \* the messages that went with their channel

channelVars == <<open, channel, life, role, topic, msg, waiting, orphans, delivered, discarded>>

ChannelInit ==
  /\ open = {}
  /\ channel = [s \in Topics |-> <<>>]
  /\ life = "up"
  /\ role = [t \in Callers |-> "idle"]
  /\ topic = [t \in Callers |-> NoTopic]
  /\ msg = [t \in Callers |-> NoMessage]
  /\ waiting = {} /\ orphans = {}
  /\ delivered = {} /\ discarded = {}

Ask(t, r, s, m) ==
  /\ life = "up"
  /\ role[t] = "idle"
  /\ role' = [role EXCEPT ![t] = r]
  /\ topic' = [topic EXCEPT ![t] = s]
  /\ msg' = [msg EXCEPT ![t] = m]
  /\ UNCHANGED <<open, channel, life, waiting, orphans, delivered, discarded>>

AskSend(t) == \E s \in Topics, m \in Messages : Ask(t, "sending", s, m)
AskReceive(t) == \E s \in Topics : Ask(t, "receiving", s, NoMessage)

\* The caller has its answer.
Answer(t) ==
  /\ life # "gone"
  /\ role' = [role EXCEPT ![t] = "idle"]
  /\ topic' = [topic EXCEPT ![t] = NoTopic]
  /\ msg' = [msg EXCEPT ![t] = NoMessage]
  /\ waiting' = waiting \ {t}
  /\ orphans' = orphans \ {t}
  /\ UNCHANGED <<open, life, discarded>>

Accept(t) ==
  /\ life # "gone"
  /\ role[t] = "sending"
  /\ topic[t] \in open
  /\ channel' = [channel EXCEPT ![topic[t]] = Append(@, msg[t])]
  /\ role' = [role EXCEPT ![t] = "accepted"]
  /\ UNCHANGED <<open, life, topic, msg, waiting, orphans, delivered, discarded>>

Confirm(t) ==
  /\ role[t] = "accepted"
  /\ Answer(t)
  /\ UNCHANGED <<channel, delivered>>

Refuse(t) ==
  /\ role[t] = "sending"
  /\ topic[t] \notin open
  /\ Answer(t)
  /\ UNCHANGED <<channel, delivered>>

Wait(t) ==
  /\ life = "up"
  /\ role[t] = "receiving"
  /\ t \notin orphans
  /\ topic[t] \in open
  /\ channel[topic[t]] = <<>>
  /\ waiting' = waiting \cup {t}
  /\ UNCHANGED <<open, channel, life, role, topic, msg, orphans, delivered, discarded>>

Deliver(t) ==
  /\ life = "up"
  /\ role[t] = "receiving"
  /\ t \notin orphans
  /\ topic[t] \in open
  /\ channel[topic[t]] # <<>>
  /\ delivered' = delivered \cup {Head(channel[topic[t]])}
  /\ channel' = [channel EXCEPT ![topic[t]] = Tail(@)]
  /\ Answer(t)

\* No such topic, nothing while the receiver waited, or the broker is closing: then
\* orphans are answered, too.
DeliverNothing(t) ==
  /\ role[t] = "receiving"
  /\ \/ t \notin waiting /\ topic[t] \notin open
     \/ t \in waiting \ orphans /\ channel[topic[t]] = <<>>
     \/ life = "closing"
  /\ Answer(t)
  /\ UNCHANGED <<channel, delivered>>

\* Only an orphan of a broker that is up, or a caller of one that is gone, is never
\* answered.
Lose(t) ==
  /\ \/ life = "up" /\ t \in orphans /\ role[t] = "receiving"
     \/ life = "gone" /\ role[t] \in {"sending", "accepted", "receiving"}
  /\ role' = [role EXCEPT ![t] = "lost"]
  /\ UNCHANGED <<open, channel, life, topic, msg, waiting, orphans, delivered, discarded>>

Open ==
  /\ life # "gone"
  /\ \E s \in Topics \ open : open' = open \cup {s}
  /\ UNCHANGED <<channel, life, role, topic, msg, waiting, orphans, delivered, discarded>>

Contents(s) == {channel[s][i] : i \in 1..Len(channel[s])}

Close ==
  /\ life # "gone"
  /\ \E s \in open :
       /\ open' = open \ {s}
       /\ channel' = [channel EXCEPT ![s] = <<>>]
       /\ discarded' = discarded \cup Contents(s)
       /\ orphans' = orphans \cup {t \in waiting : topic[t] = s}
  /\ UNCHANGED <<life, role, topic, msg, waiting, delivered>>

ShutDown ==
  /\ life' = IF life = "up" THEN "closing" ELSE "gone"
  /\ UNCHANGED <<open, channel, role, topic, msg, waiting, orphans, delivered, discarded>>

ChannelNext ==
  \/ \E t \in Callers :
       \/ AskSend(t) \/ Accept(t) \/ Confirm(t) \/ Refuse(t)
       \/ AskReceive(t) \/ Wait(t) \/ Deliver(t) \/ DeliverNothing(t)
       \/ Lose(t)
  \/ Open \/ Close \/ ShutDown

ChannelSpec == ChannelInit /\ [][ChannelNext]_channelVars
================================================================================
