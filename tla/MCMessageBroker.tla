---------------------------- MODULE MCMessageBroker ----------------------------
(* Model-checking instances of MessageBroker. *)
EXTENDS MessageBroker, TLC

CONSTANTS a, b

\* One topic that is subscribed to again after an unsubscribe, or both.
OneAgain == (a :> 2) @@ (b :> 1)
BothAgain == [s \in {a, b} |-> 2]
================================================================================
