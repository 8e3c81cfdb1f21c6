-------------------------- MODULE MCEventDelivery --------------------------
(* EventSubscription for the two users of BaseNatsSubscriber: two pods on    *)
(* one durable consumer, and two gateways with an ephemeral consumer each.   *)
EXTENDS EventSubscription

CONSTANTS p1, p2, durable

SharedConsumer == [p \in Pod |-> durable]
OwnConsumer == [p \in Pod |-> p]
=============================================================================
