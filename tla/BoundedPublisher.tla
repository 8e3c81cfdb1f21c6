------------------------- MODULE BoundedPublisher -------------------------
(***************************************************************************)
(* BoundedPublisherService of libs/nats-jetstream-provisioner in one pod:  *)
(* a bounded queue of publish tasks, at most ConcurrencyLimit of them in   *)
(* flight, with part of the queue reserved for critical messages.          *)
(*                                                                         *)
(* Node runs one callback at a time: publishSafe has no await, so a call   *)
(* is one step, and a task moves on at each reply and each microtask of    *)
(* its promise chain.  Encoding the payload is left out: JSON.stringify of *)
(* the events the services publish does not throw.                         *)
(***************************************************************************)
EXTENDS Integers, Sequences, FiniteSets

CONSTANTS
    Message,            \* the calls of publishSafe
    CriticalMessage,    \* those with isCritical
    ConcurrencyLimit,   \* 100 in the code
    MaxNormalQueue,     \* 5000 in the code
    MaxCriticalQueue    \* 10000 in the code

ASSUME CriticalAreMessages == CriticalMessage \subseteq Message
ASSUME LimitsPositive ==
    /\ ConcurrencyLimit \in Nat \ {0}
    /\ MaxNormalQueue \in Nat \ {0}
    /\ MaxCriticalQueue \in Nat
    /\ MaxNormalQueue <= MaxCriticalQueue

VARIABLES
    operational,   \* has the provisioner a JetStream client?
    queue,         \* tasks waiting
    activeCount,   \* tasks in flight, as the service counts them
    stage,         \* where the task of each message is
    promise,       \* what the caller of publishSafe sees
    kept           \* messages that are in their stream or in the DLQ stream

netVars == <<operational, kept>>
publisherVars == <<operational, queue, activeCount, stage, promise, kept>>

InFlight == {"publishing", "dlq", "succeeded", "lost", "settled"}

PublisherTypeOK ==
    /\ operational \in BOOLEAN
    /\ queue \in Seq(Message)
    /\ activeCount \in Nat
    /\ stage \in [Message -> InFlight \cup {"new", "queued", "done", "refused"}]
    /\ promise \in [Message -> {"none", "pending", "resolved", "rejected"}]
    /\ kept \subseteq Message

PublisherInit ==
    /\ operational = FALSE
    /\ queue = <<>>
    /\ activeCount = 0
    /\ stage = [m \in Message |-> "new"]
    /\ promise = [m \in Message |-> "none"]
    /\ kept = {}

----------------------------------------------------------------------------
(* The queue limit that applies to m; the mutant has one limit for all. *)
SharedQuota(m) == MaxCriticalQueue
Quota(m) == IF m \in CriticalMessage THEN MaxCriticalQueue ELSE MaxNormalQueue

(* processNext with the queue q, the count n and the stages s: shift one     *)
(* task, which counts itself and publishes.  The mutant takes none.          *)
TakeNothing(q, n, s) == queue' = q /\ activeCount' = n /\ stage' = s
ProcessNext(q, n, s) ==
    IF q = <<>>
    THEN queue' = q /\ activeCount' = n /\ stage' = s
    ELSE /\ queue' = Tail(q)
         /\ activeCount' = n + 1
         /\ stage' = [s EXCEPT ![Head(q)] = "publishing"]

(* The capacity test of publishSafe; the mutant admits one task too many. *)
CapacityOffByOne == activeCount <= ConcurrencyLimit
Capacity == activeCount < ConcurrencyLimit

(* publishSafe *)
Enqueue(m) ==
    LET q == Append(queue, m)
        s == [stage EXCEPT ![m] = "queued"]
    IN  IF Capacity THEN ProcessNext(q, activeCount, s)
        ELSE queue' = q /\ stage' = s /\ UNCHANGED activeCount

PublishSafe(m) ==
    /\ stage[m] = "new"
    /\ operational
    /\ Len(queue) < Quota(m)
    /\ Enqueue(m)
    /\ promise' = [promise EXCEPT ![m] = IF m \in CriticalMessage THEN "pending" ELSE "resolved"]
    /\ UNCHANGED netVars

Refuse(m) ==
    /\ stage[m] = "new"
    /\ ~operational \/ Len(queue) >= Quota(m)
    /\ stage' = [stage EXCEPT ![m] = "refused"]
    /\ promise' = [promise EXCEPT ![m] = "rejected"]
    /\ UNCHANGED <<queue, activeCount, operational, kept>>

----------------------------------------------------------------------------
(* The promise chain of a task.  js.publish is acknowledged, or fails; a     *)
(* publish that fails (timeout, lost acknowledgement) may have been stored.  *)

PublishReply(m) ==
    /\ stage[m] = "publishing"
    /\ \/ /\ kept' = kept \cup {m}
          /\ \E s \in {"succeeded", "dlq"} : stage' = [stage EXCEPT ![m] = s]
       \/ /\ stage' = [stage EXCEPT ![m] = "dlq"]
          /\ UNCHANGED kept
    /\ UNCHANGED <<queue, activeCount, promise, operational>>

DlqPublishReply(m) ==
    /\ stage[m] = "dlq"
    /\ \/ /\ kept' = kept \cup {m}
          /\ \E s \in {"succeeded", "lost"} : stage' = [stage EXCEPT ![m] = s]
       \/ /\ stage' = [stage EXCEPT ![m] = "lost"]
          /\ UNCHANGED kept
    /\ UNCHANGED <<queue, activeCount, promise, operational>>

(* .then and .catch: a critical caller learns the outcome; the mutant tells  *)
(* it of success whatever happened.                                          *)
AlwaysResolve(m) == "resolved"
Outcome(m) == IF stage[m] = "succeeded" THEN "resolved" ELSE "rejected"

Settle(m) ==
    /\ stage[m] \in {"succeeded", "lost"}
    /\ stage' = [stage EXCEPT ![m] = "settled"]
    /\ promise' = IF m \in CriticalMessage THEN [promise EXCEPT ![m] = Outcome(m)] ELSE promise
    /\ UNCHANGED <<queue, activeCount, operational, kept>>

(* .finally: give the slot back and start the next task. *)
Finally(m) ==
    /\ stage[m] = "settled"
    /\ ProcessNext(queue, activeCount - 1, [stage EXCEPT ![m] = "done"])
    /\ UNCHANGED <<promise, operational, kept>>

(* The provisioner connects once. *)
ClientConnects ==
    /\ ~operational
    /\ operational' = TRUE
    /\ UNCHANGED <<queue, activeCount, stage, promise, kept>>

Task(m) == PublishReply(m) \/ DlqPublishReply(m) \/ Settle(m) \/ Finally(m)

AllDone ==
    /\ \A m \in Message : stage[m] \in {"done", "refused"}
    /\ UNCHANGED publisherVars

PublisherNext ==
    \/ \E m \in Message : PublishSafe(m) \/ Refuse(m) \/ Task(m)
    \/ ClientConnects
    \/ AllDone

PublisherSpec == PublisherInit /\ [][PublisherNext]_publisherVars

(* js.publish is answered or times out, and microtasks run. *)
FairPublisherSpec == PublisherSpec /\ \A m \in Message : WF_publisherVars(Task(m))

----------------------------------------------------------------------------
(* Properties *)

(* The count the service keeps is the number of tasks in flight, and never   *)
(* passes the limit, whatever a caller enqueues between a task's settling    *)
(* and its finally.                                                          *)
ConcurrencyBounded ==
    /\ activeCount = Cardinality({m \in Message : stage[m] \in InFlight})
    /\ activeCount <= ConcurrencyLimit

(* No lost wake-up: a task waits only while every slot is taken. *)
NoIdleSlot == queue # <<>> => activeCount >= ConcurrencyLimit

(* Normal messages never enter the part of the queue reserved for critical   *)
(* ones, so a critical message is dropped only when at least                 *)
(* MaxCriticalQueue - MaxNormalQueue critical messages are waiting.          *)
QuotaIsolation ==
    /\ Len(queue) <= MaxCriticalQueue
    /\ \A i \in 1..Len(queue) : queue[i] \notin CriticalMessage => i <= MaxNormalQueue

(* Every critical caller is answered, and with the truth: resolved means     *)
(* that the message is in its stream or in the DLQ.                          *)
CriticalIsAnswered ==
    \A m \in CriticalMessage :
        promise[m] = "pending" ~>
            promise[m] = "rejected" \/ (promise[m] = "resolved" /\ m \in kept)
=============================================================================
