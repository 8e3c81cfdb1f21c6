----------------------------- MODULE EventProofs -----------------------------
(***************************************************************************)
(* Proofs about the two ends of an event's way: BoundedPublisher, where a  *)
(* service publishes it, and EventDelivery with EventSubscription, where   *)
(* another one reads it.  Each is a specification of its own.              *)
(*                                                                         *)
(* For any messages and any limits: the publisher's in-flight count is     *)
(* exact and bounded, no slot idles while a task waits, and normal         *)
(* messages stay out of the reserved part of the queue.                    *)
(*                                                                         *)
(* For any pods, consumers and events, and any faults short of a handler   *)
(* that outlives its idempotency key: the key excludes two pods from       *)
(* acting on one event at a time.  The start of the readers implements     *)
(* their reading, so all of it holds from the start.                       *)
(***************************************************************************)
EXTENDS BoundedPublisher, EventSubscription, FiniteSetTheorems, SequenceTheorems, TLAPS

----------------------------------------------------------------------------
(* BoundedPublisher *)

Stages == InFlight \cup {"new", "queued", "done", "refused"}

(* The messages in flight when the stages are s. *)
Flying(s) == {m \in Message : s[m] \in InFlight}

(* q is a queue of waiting tasks under the stages s, each of them once. *)
WaitingIn(q, s) ==
    /\ q \in Seq(Message)
    /\ \A i \in 1..Len(q) : s[q[i]] = "queued"
    /\ \A i, j \in 1..Len(q) : q[i] = q[j] => i = j

WithinQuota(q) ==
    /\ Len(q) <= MaxCriticalQueue
    /\ \A i \in 1..Len(q) : q[i] \notin CriticalMessage => i <= MaxNormalQueue

CountsFlying(n, s) ==
    /\ IsFiniteSet(Flying(s))
    /\ n \in Nat
    /\ n = Cardinality(Flying(s))

PublisherInv ==
    /\ PublisherTypeOK
    /\ WaitingIn(queue, stage)
    /\ WithinQuota(queue)
    /\ CountsFlying(activeCount, stage)
    /\ activeCount <= ConcurrencyLimit
    /\ NoIdleSlot

----------------------------------------------------------------------------

LEMMA PublisherInitInv == PublisherInit => PublisherInv
<1> SUFFICES ASSUME PublisherInit PROVE PublisherInv
    OBVIOUS
<1> USE LimitsPositive DEF PublisherInit
<1>1. Flying(stage) = {}
    BY DEF Flying, InFlight
<1>2. CountsFlying(activeCount, stage)
    BY <1>1, FS_EmptySet DEF CountsFlying
<1>3. queue \in Seq(Message) /\ Len(queue) = 0 /\ 1..Len(queue) = {}
    BY EmptySeq
<1>4. PublisherTypeOK
    BY <1>3 DEF PublisherTypeOK
<1>5. WaitingIn(queue, stage) /\ WithinQuota(queue)
    BY <1>3 DEF WaitingIn, WithinQuota
<1>6. activeCount <= ConcurrencyLimit /\ NoIdleSlot
    BY DEF NoIdleSlot
<1>7. QED
    BY <1>2, <1>4, <1>5, <1>6 DEF PublisherInv

(* Starting a task: a waiting task takes the free slot, or there is none.    *)
LEMMA ProcessNextInv ==
    ASSUME NEW q, NEW n, NEW s \in [Message -> Stages],
           WaitingIn(q, s), CountsFlying(n, s), n < ConcurrencyLimit,
           WithinQuota(Tail(q)) \/ q = <<>>,
           Len(q) > 1 => n + 1 >= ConcurrencyLimit,
           ProcessNext(q, n, s)
    PROVE  /\ stage' \in [Message -> Stages]
           /\ activeCount' \in Nat
           /\ WaitingIn(queue', stage')
           /\ WithinQuota(queue')
           /\ CountsFlying(activeCount', stage')
           /\ activeCount' <= ConcurrencyLimit
           /\ NoIdleSlot'
<1> USE LimitsPositive
<1>1. CASE q = <<>>
    <2>1. queue' = q /\ activeCount' = n /\ stage' = s /\ Len(q) = 0
        BY <1>1 DEF ProcessNext
    <2>2. QED
        BY <1>1, <2>1 DEF WaitingIn, WithinQuota, CountsFlying, NoIdleSlot, Flying
<1>2. CASE q # <<>>
    <2> DEFINE h == Head(q)
    <2>1. queue' = Tail(q) /\ activeCount' = n + 1
          /\ stage' = [s EXCEPT ![h] = "publishing"]
        BY <1>2 DEF ProcessNext
    <2>2. /\ q \in Seq(Message) /\ Len(q) \in Nat /\ Len(q) >= 1 /\ h \in Message /\ h = q[1]
          /\ Tail(q) \in Seq(Message) /\ Len(Tail(q)) = Len(q) - 1
          /\ \A i \in 1..Len(Tail(q)) : Tail(q)[i] = q[i + 1] /\ i + 1 \in 1..Len(q)
        BY <1>2, HeadTailProperties DEF WaitingIn
    <2>3. s[h] = "queued"
        BY <2>2 DEF WaitingIn
    <2>4. stage' \in [Message -> Stages]
        BY <2>1, <2>2 DEF Stages, InFlight
    <2>5. WaitingIn(queue', stage')
        <3>1. \A i \in 1..Len(Tail(q)) : Tail(q)[i] # h /\ Tail(q)[i] \in Message
            BY <2>2 DEF WaitingIn
        <3>2. \A i \in 1..Len(Tail(q)) : stage'[Tail(q)[i]] = "queued"
            BY <2>1, <2>2, <3>1 DEF WaitingIn
        <3>3. \A i, j \in 1..Len(Tail(q)) : Tail(q)[i] = Tail(q)[j] => i = j
            BY <2>2 DEF WaitingIn
        <3>4. QED
            BY <2>1, <2>2, <3>2, <3>3 DEF WaitingIn
    <2>6. CountsFlying(activeCount', stage')
        <3>1. h \notin Flying(s)
            BY <2>3 DEF Flying, InFlight
        <3>2. Flying(stage') = Flying(s) \cup {h}
            BY <2>1, <2>2 DEF Flying, InFlight
        <3>3. IsFiniteSet(Flying(s)) /\ n \in Nat /\ n = Cardinality(Flying(s))
            BY DEF CountsFlying
        <3>4. /\ IsFiniteSet(Flying(s) \cup {h})
              /\ Cardinality(Flying(s) \cup {h}) = Cardinality(Flying(s)) + 1
            BY <3>1, <3>3, FS_AddElement
        <3>5. IsFiniteSet(Flying(stage')) /\ Cardinality(Flying(stage')) = n + 1
            BY <3>2, <3>3, <3>4
        <3>6. QED
            BY <2>1, <3>3, <3>5 DEF CountsFlying
    <2>7. WithinQuota(queue')
        BY <1>2, <2>1 DEF WithinQuota
    <2>8. activeCount' \in Nat /\ activeCount' <= ConcurrencyLimit
        BY <2>1 DEF CountsFlying
    <2>9. NoIdleSlot'
        BY <2>1, <2>2 DEF NoIdleSlot, CountsFlying
    <2>10. QED
        BY <2>4, <2>5, <2>6, <2>7, <2>8, <2>9
<1>3. QED
    BY <1>1, <1>2

(* publishSafe: the quota admits the task, and the task at the head starts   *)
(* if a slot is free - which it is only when nothing waited.                 *)
LEMMA PublishInv ==
    ASSUME PublisherInv, NEW m \in Message, PublishSafe(m)
    PROVE  PublisherInv'
<1> USE LimitsPositive, CriticalAreMessages
<1> DEFINE q == Append(queue, m)
           s == [stage EXCEPT ![m] = "queued"]
<1>1. s \in [Message -> Stages] /\ stage[m] = "new"
    BY DEF PublisherInv, PublisherTypeOK, PublishSafe, Stages
<1>2. /\ q \in Seq(Message) /\ Len(queue) \in Nat /\ Len(q) = Len(queue) + 1
      /\ \A i \in 1..Len(queue) : q[i] = queue[i] /\ queue[i] \in Message
      /\ q[Len(queue) + 1] = m
    BY AppendProperties DEF PublisherInv, PublisherTypeOK
<1>3. \A i \in 1..Len(queue) : queue[i] # m
    BY <1>1 DEF PublisherInv, WaitingIn
<1>4. WaitingIn(q, s)
    <2>1. \A i \in 1..Len(q) : s[q[i]] = "queued"
        BY <1>1, <1>2, <1>3 DEF PublisherInv, PublisherTypeOK, WaitingIn
    <2>2. \A i, j \in 1..Len(q) : q[i] = q[j] => i = j
        BY <1>2, <1>3 DEF PublisherInv, WaitingIn
    <2>3. QED
        BY <1>2, <2>1, <2>2 DEF WaitingIn
<1>5. CountsFlying(activeCount, s)
    <2>1. Flying(s) = Flying(stage)
        BY <1>1 DEF Flying, InFlight, PublisherInv, PublisherTypeOK
    <2>2. QED
        BY <2>1 DEF PublisherInv, CountsFlying
<1>6. WithinQuota(q)
    <2>1. Len(queue) < Quota(m)
        BY DEF PublishSafe
    <2>2. Len(q) <= MaxCriticalQueue
        BY <1>2, <2>1 DEF Quota
    <2>3. ASSUME NEW i \in 1..Len(q), q[i] \notin CriticalMessage PROVE i <= MaxNormalQueue
        BY <1>2, <2>1, <2>3 DEF Quota, PublisherInv, WithinQuota
    <2>4. QED
        BY <2>2, <2>3 DEF WithinQuota
<1>7. promise' \in [Message -> {"none", "pending", "resolved", "rejected"}]
      /\ UNCHANGED netVars
    BY DEF PublishSafe, PublisherInv, PublisherTypeOK
<1>8. CASE Capacity
    <2>1. ProcessNext(q, activeCount, s) /\ activeCount < ConcurrencyLimit
        BY <1>8 DEF PublishSafe, Enqueue, Capacity
    <2>2. queue = <<>>
        BY <2>1 DEF PublisherInv, NoIdleSlot, PublisherTypeOK
    <2>3. Tail(q) = <<>> /\ Len(q) = 1
        BY <1>2, <2>2, HeadTailProperties
    <2>4. WithinQuota(Tail(q))
        BY <2>3 DEF WithinQuota
    <2>5. /\ stage' \in [Message -> Stages] /\ activeCount' \in Nat
          /\ WaitingIn(queue', stage') /\ WithinQuota(queue')
          /\ CountsFlying(activeCount', stage')
          /\ activeCount' <= ConcurrencyLimit /\ NoIdleSlot'
        <3>1. s \in [Message -> Stages] /\ ~(Len(q) > 1)
            BY <1>1, <2>3
        <3> HIDE DEF q, s
        <3>2. QED
            BY <1>4, <1>5, <2>1, <2>4, <3>1, ProcessNextInv
    <2>6. PublisherTypeOK'
        BY <1>7, <2>5 DEF PublisherInv, PublisherTypeOK, WaitingIn, Stages, netVars
    <2>7. QED
        BY <2>5, <2>6 DEF PublisherInv
<1>9. CASE ~Capacity
    <2>1. queue' = q /\ stage' = s /\ activeCount' = activeCount
        BY <1>9 DEF PublishSafe, Enqueue
    <2>2. WaitingIn(queue', stage') /\ WithinQuota(queue') /\ CountsFlying(activeCount', stage')
        BY <1>4, <1>5, <1>6, <2>1 DEF WaitingIn, WithinQuota, CountsFlying, Flying
    <2>3. NoIdleSlot' /\ activeCount' <= ConcurrencyLimit
        BY <1>9, <2>1 DEF NoIdleSlot, Capacity, PublisherInv, PublisherTypeOK
    <2>4. PublisherTypeOK'
        BY <1>1, <1>2, <1>7, <2>1 DEF PublisherInv, PublisherTypeOK, Stages, netVars
    <2>5. QED
        BY <2>2, <2>3, <2>4 DEF PublisherInv
<1>10. QED
    BY <1>8, <1>9

(* .finally: one slot comes free and the next waiting task takes it. *)
LEMMA FinallyInv ==
    ASSUME PublisherInv, NEW m \in Message, Finally(m)
    PROVE  PublisherInv'
<1> USE LimitsPositive
<1> DEFINE s == [stage EXCEPT ![m] = "done"]
           n == activeCount - 1
<1>1. stage[m] = "settled" /\ ProcessNext(queue, n, s) /\ UNCHANGED <<promise, operational, kept>>
    BY DEF Finally
<1>2. s \in [Message -> Stages]
    BY DEF PublisherInv, PublisherTypeOK, Stages
<1>3. WaitingIn(queue, s)
    BY <1>1, ElementOfSeq DEF PublisherInv, PublisherTypeOK, WaitingIn
<1>4. CountsFlying(n, s)
    <2>1. m \in Flying(stage) /\ Flying(s) = Flying(stage) \ {m}
        BY <1>1 DEF Flying, InFlight, PublisherInv, PublisherTypeOK
    <2>2. /\ IsFiniteSet(Flying(stage)) /\ activeCount = Cardinality(Flying(stage))
          /\ activeCount \in Nat
        BY DEF PublisherInv, CountsFlying
    <2> HIDE DEF s
    <2>3. IsFiniteSet(Flying(s)) /\ Cardinality(Flying(s)) = activeCount - 1
        BY <2>1, <2>2, FS_RemoveElement
    <2>4. QED
        BY <2>3, FS_CardinalityType DEF CountsFlying
<1>5. n < ConcurrencyLimit /\ (Len(queue) > 1 => n + 1 >= ConcurrencyLimit)
    BY EmptySeq DEF PublisherInv, PublisherTypeOK, NoIdleSlot
<1>6. WithinQuota(Tail(queue)) \/ queue = <<>>
    BY HeadTailProperties DEF PublisherInv, PublisherTypeOK, WithinQuota
<1>7. /\ stage' \in [Message -> Stages] /\ activeCount' \in Nat
      /\ WaitingIn(queue', stage') /\ WithinQuota(queue')
      /\ CountsFlying(activeCount', stage')
      /\ activeCount' <= ConcurrencyLimit /\ NoIdleSlot'
    BY <1>1, <1>2, <1>3, <1>4, <1>5, <1>6, ProcessNextInv
<1>8. PublisherTypeOK'
    BY <1>1, <1>7 DEF PublisherInv, PublisherTypeOK, WaitingIn, Stages
<1>9. QED
    BY <1>7, <1>8 DEF PublisherInv

(* A step within a task, or a refusal, moves one message that was not        *)
(* waiting and leaves the set in flight alone.                               *)
LEMMA MoveInv ==
    ASSUME PublisherInv, PublisherTypeOK', NEW m \in Message, NEW t \in Stages \ {"queued"},
           stage[m] # "queued", stage[m] \in InFlight <=> t \in InFlight,
           stage' = [stage EXCEPT ![m] = t], UNCHANGED <<queue, activeCount>>
    PROVE  PublisherInv'
<1>1. Flying(stage') = Flying(stage)
    BY DEF Flying, PublisherInv, PublisherTypeOK
<1>2. WaitingIn(queue', stage')
    BY ElementOfSeq DEF PublisherInv, PublisherTypeOK, WaitingIn
<1>3. QED
    BY <1>1, <1>2 DEF PublisherInv, CountsFlying, WithinQuota, NoIdleSlot

LEMMA PublisherNextInv == PublisherInv /\ [PublisherNext]_publisherVars => PublisherInv'
<1> SUFFICES ASSUME PublisherInv, [PublisherNext]_publisherVars PROVE PublisherInv'
    OBVIOUS
<1>1. ASSUME NEW m \in Message, PublishSafe(m) PROVE PublisherInv'
    BY <1>1, PublishInv
<1>2. ASSUME NEW m \in Message, Refuse(m) PROVE PublisherInv'
    <2>1. PublisherTypeOK' /\ stage[m] \notin InFlight /\ stage[m] # "queued"
        BY <1>2 DEF Refuse, PublisherInv, PublisherTypeOK, InFlight
    <2>2. QED
        BY <1>2, <2>1, MoveInv DEF Refuse, Stages, InFlight
<1>3. ASSUME NEW m \in Message, PublishReply(m) PROVE PublisherInv'
    <2>1. PublisherTypeOK' /\ \E t \in {"succeeded", "dlq"} : stage' = [stage EXCEPT ![m] = t]
        BY <1>3 DEF PublishReply, PublisherInv, PublisherTypeOK, InFlight
    <2>2. QED
        BY <1>3, <2>1, MoveInv DEF PublishReply, Stages, InFlight
<1>4. ASSUME NEW m \in Message, DlqPublishReply(m) PROVE PublisherInv'
    <2>1. PublisherTypeOK' /\ \E t \in {"succeeded", "lost"} : stage' = [stage EXCEPT ![m] = t]
        BY <1>4 DEF DlqPublishReply, PublisherInv, PublisherTypeOK, InFlight
    <2>2. QED
        BY <1>4, <2>1, MoveInv DEF DlqPublishReply, Stages, InFlight
<1>5. ASSUME NEW m \in Message, Settle(m) PROVE PublisherInv'
    <2>1. PublisherTypeOK' /\ stage[m] \in InFlight /\ stage[m] # "queued"
        BY <1>5 DEF Settle, Outcome, PublisherInv, PublisherTypeOK, InFlight
    <2>2. QED
        BY <1>5, <2>1, MoveInv DEF Settle, Stages, InFlight
<1>6. ASSUME NEW m \in Message, Finally(m) PROVE PublisherInv'
    BY <1>6, FinallyInv
<1>7. CASE ClientConnects
    BY <1>7 DEF ClientConnects, PublisherInv, PublisherTypeOK, WaitingIn, WithinQuota, CountsFlying, Flying, NoIdleSlot
<1>8. CASE UNCHANGED publisherVars
    BY <1>8 DEF publisherVars, PublisherInv, PublisherTypeOK, WaitingIn, WithinQuota, CountsFlying, Flying, NoIdleSlot
<1>9. QED
    BY <1>1, <1>2, <1>3, <1>4, <1>5, <1>6, <1>7, <1>8 DEF PublisherNext, Task, AllDone

LEMMA PublisherInvariance == PublisherSpec => []PublisherInv
BY PublisherInitInv, PublisherNextInv, PTL DEF PublisherSpec

----------------------------------------------------------------------------

(* The slot counter never goes negative, and every task is in a known stage. *)
THEOREM PublisherTypeCorrect == PublisherSpec => []PublisherTypeOK
BY PublisherInvariance, PTL DEF PublisherInv

(* At most ConcurrencyLimit tasks are in flight, and the counter is exact.   *)
THEOREM ConcurrencyIsBounded == PublisherSpec => []ConcurrencyBounded
<1>1. PublisherInv => ConcurrencyBounded
    BY DEF PublisherInv, CountsFlying, Flying, ConcurrencyBounded
<1>2. QED
    BY <1>1, PublisherInvariance, PTL

(* A task never waits beside a free slot. *)
THEOREM NoLostWakeup == PublisherSpec => []NoIdleSlot
BY PublisherInvariance, PTL DEF PublisherInv

(* The reserved places of the queue hold critical messages only. *)
THEOREM QuotaIsIsolated == PublisherSpec => []QuotaIsolation
<1>1. PublisherInv => QuotaIsolation
    BY DEF PublisherInv, WithinQuota, QuotaIsolation
<1>2. QED
    BY <1>1, PublisherInvariance, PTL

----------------------------------------------------------------------------
(* EventDelivery and EventSubscription *)

Holding(p) == pc[p] \in {"apply", "unclaim"}

(* A pod that is not idle has an event in hand. *)
BusyHasEvent == \A p \in Pod : pc[p] # "idle" => cur[p] # None

Inv == TypeOK /\ BusyHasEvent /\ ExclusiveHandling

----------------------------------------------------------------------------
(* Lemmas on the steps of one pod *)

LEMMA NakType ==
    ASSUME TypeOK, NEW p \in Pod, NEW e \in Event, Nak(p, e) \/ Ack(p, e)
    PROVE  state' \in [Consumer -> [Event -> {"ready", "out", "acked"}]]
<1> DEFINE c == ConsumerOf[p]
<1>1. c \in Consumer
    BY ConfigurationIsSound
<1>2. state[c][e] \in {"ready", "out", "acked"}
    BY <1>1 DEF TypeOK
<1>3. PICK s \in {"ready", "out", "acked"} : state' = [state EXCEPT ![c][e] = s]
    BY <1>2 DEF Nak, Ack, SetState
<1>4. state[c] \in [Event -> {"ready", "out", "acked"}]
    BY <1>1 DEF TypeOK
<1> QED
    BY <1>1, <1>3, <1>4 DEF TypeOK

LEMMA FinishType ==
    ASSUME Inv, NEW p \in Pod, Finish(p)
    PROVE  /\ pc' \in [Pod -> {"idle", "claim", "apply", "unclaim"}]
           /\ cur' \in [Pod -> (Event \ Malformed) \cup {None}]
           /\ copy' \in [Pod -> 0..MaxDeliver]
           /\ BusyHasEvent'
<1>1. 0 \in 0..MaxDeliver
    BY DEF MaxDeliver
<1> QED
    BY <1>1 DEF Inv, TypeOK, BusyHasEvent, Finish

LEMMA ErrorType ==
    ASSUME Inv, NEW p \in Pod, cur[p] \in Event \ Malformed, HandleError(p)
    PROVE  /\ state' \in [Consumer -> [Event -> {"ready", "out", "acked"}]]
           /\ dead' \subseteq Pod \X (Event \ Malformed)
<1>1. CASE copy[p] >= MaxDeliver
    BY <1>1 DEF HandleError, Inv, TypeOK
<1>2. CASE ~(copy[p] >= MaxDeliver)
    <2>1. state' \in [Consumer -> [Event -> {"ready", "out", "acked"}]]
        BY <1>2, NakType DEF HandleError, Inv
    <2>2. dead' = dead
        BY <1>2 DEF HandleError
    <2> QED
        BY <2>1, <2>2 DEF Inv, TypeOK
<1> QED
    BY <1>1, <1>2

(* A pod that leaves its handling, and a key that goes only with it, keep    *)
(* the exclusion.                                                            *)
LEMMA LeavingIsSafe ==
    ASSUME Inv, NEW p \in Pod, Finish(p), faults' = faults,
           \A e \in keys : e \in keys' \/ (e = cur[p] /\ Holding(p))
    PROVE  ExclusiveHandling'
<1> SUFFICES ASSUME "stalled" \notin faults, NEW q \in Pod, NEW r \in Pod, Holding(q)'
             PROVE  /\ cur'[q] \in keys'
                    /\ pc'[r] \in {"apply", "unclaim"} /\ cur'[r] = cur'[q] => r = q
    BY DEF ExclusiveHandling, Holding
<1>1. q # p /\ pc[q] = pc'[q] /\ cur[q] = cur'[q]
    BY DEF Finish, Holding, Inv, TypeOK
<1>2. cur[q] \in keys
    BY <1>1 DEF Inv, ExclusiveHandling, Holding
<1>3. Holding(p) => cur[p] # cur[q]
    BY <1>1 DEF Inv, ExclusiveHandling, Holding
<1>4. cur'[q] \in keys'
    BY <1>1, <1>2, <1>3
<1>5. ASSUME pc'[r] \in {"apply", "unclaim"}, cur'[r] = cur'[q] PROVE r = q
    <2>1. r # p /\ pc[r] = pc'[r] /\ cur[r] = cur'[r]
        BY <1>5 DEF Finish, Inv, TypeOK
    <2> QED
        BY <1>1, <1>5, <2>1 DEF Inv, ExclusiveHandling, Holding
<1> QED
    BY <1>4, <1>5

----------------------------------------------------------------------------
(* The invariant is inductive *)

LEMMA InitInv == Init => Inv
<1> SUFFICES ASSUME Init PROVE Inv
    OBVIOUS
<1>1. 0 \in 0..MaxDeliver
    BY DEF MaxDeliver
<1>2. TypeOK
    BY <1>1, ConfigurationIsSound DEF Init, TypeOK
<1> QED
    BY <1>2 DEF Init, Inv, BusyHasEvent, ExclusiveHandling

LEMMA DeliverInv ==
    ASSUME Inv, NEW p \in Pod, NEW e \in Event, Deliver(p, e)
    PROVE  Inv'
<1> DEFINE c == ConsumerOf[p]
<1>1. c \in Consumer /\ e # None
    BY ConfigurationIsSound
<1>2. count[c] \in [Event -> 0..MaxDeliver] /\ count[c][e] \in 0..MaxDeliver
    BY <1>1 DEF Inv, TypeOK
<1>3. count[c][e] + 1 \in 0..MaxDeliver
    BY <1>2 DEF Deliver, MaxDeliver
<1>4. count' = [count EXCEPT ![c] = [count[c] EXCEPT ![e] = count[c][e] + 1]]
    BY DEF Deliver
<1>5. count' \in [Consumer -> [Event -> 0..MaxDeliver]]
    BY <1>1, <1>2, <1>3, <1>4 DEF Inv, TypeOK
<1>6. PICK s \in {"out", "acked"} : SetState(c, e, s)
    BY DEF Deliver
<1>7. state[c] \in [Event -> {"ready", "out", "acked"}]
    BY <1>1 DEF Inv, TypeOK
<1>8. state' \in [Consumer -> [Event -> {"ready", "out", "acked"}]]
    BY <1>1, <1>6, <1>7 DEF SetState, Inv, TypeOK
<1>9. CASE Valid(e)
    <2>1. /\ pc' = [pc EXCEPT ![p] = "claim"] /\ cur' = [cur EXCEPT ![p] = e]
          /\ copy' = [copy EXCEPT ![p] = count[c][e] + 1] /\ pc[p] = "idle"
          /\ UNCHANGED <<faults, stream, keys, dead, dlq, applied>>
        BY <1>9 DEF Deliver
    <2>2. copy' \in [Pod -> 0..MaxDeliver]
        BY <1>3, <2>1 DEF Inv, TypeOK
    <2>3. TypeOK'
        BY <1>5, <1>8, <1>9, <2>1, <2>2 DEF Valid, Inv, TypeOK
    <2>4. BusyHasEvent'
        BY <1>1, <2>1 DEF Inv, TypeOK, BusyHasEvent
    <2>5. ExclusiveHandling'
        BY <2>1 DEF Inv, TypeOK, ExclusiveHandling
    <2> QED
        BY <2>3, <2>4, <2>5 DEF Inv
<1>10. CASE ~Valid(e)
    <2>1. UNCHANGED <<podVars, faults, stream, keys, dead, dlq, applied>>
        BY <1>10 DEF Deliver
    <2> QED
        BY <1>5, <1>8, <2>1 DEF podVars, Inv, TypeOK, BusyHasEvent, ExclusiveHandling
<1> QED
    BY <1>9, <1>10

LEMMA ClaimInv == ASSUME Inv, NEW p \in Pod, Claim(p) PROVE Inv'
<1>1. /\ pc[p] = "claim" /\ cur[p] \in Event \ Malformed /\ cur[p] \notin keys
      /\ keys' = keys \cup {cur[p]} /\ pc' = [pc EXCEPT ![p] = "apply"]
      /\ UNCHANGED <<cur, copy, faults, stream, count, state, dead, dlq, applied>>
    BY DEF Claim, SetNx, GoOn, streamVars, Inv, TypeOK, BusyHasEvent
<1>2. TypeOK' /\ BusyHasEvent'
    BY <1>1 DEF Inv, TypeOK, BusyHasEvent
<1>3. ExclusiveHandling'
    <2> SUFFICES ASSUME "stalled" \notin faults, NEW q \in Pod, NEW r \in Pod,
                        pc'[q] \in {"apply", "unclaim"}
                 PROVE  /\ cur[q] \in keys'
                        /\ pc'[r] \in {"apply", "unclaim"} /\ cur[r] = cur[q] => r = q
        BY <1>1 DEF ExclusiveHandling
    <2>1. q # p => cur[q] \in keys /\ pc[q] \in {"apply", "unclaim"}
        BY <1>1 DEF Inv, TypeOK, ExclusiveHandling
    <2>2. pc'[r] \in {"apply", "unclaim"} /\ r # p => cur[r] \in keys /\ pc[r] \in {"apply", "unclaim"}
        BY <1>1 DEF Inv, TypeOK, ExclusiveHandling
    <2> QED
        BY <1>1, <2>1, <2>2 DEF Inv, ExclusiveHandling
<1> QED
    BY <1>2, <1>3 DEF Inv

LEMMA DuplicateInv == ASSUME Inv, NEW p \in Pod, Duplicate(p) PROVE Inv'
<1>1. cur[p] \in Event \ Malformed
    BY DEF Duplicate, Inv, TypeOK, BusyHasEvent
<1>2. state' \in [Consumer -> [Event -> {"ready", "out", "acked"}]]
    BY <1>1, NakType DEF Duplicate, Inv
<1>3. Finish(p) /\ UNCHANGED <<faults, stream, count, keys, dead, dlq, applied>>
    BY DEF Duplicate
<1> QED
    BY <1>2, <1>3, FinishType, LeavingIsSafe DEF Inv, TypeOK

LEMMA ClaimErrorInv == ASSUME Inv, NEW p \in Pod, ClaimError(p) PROVE Inv'
<1>1. cur[p] \in Event \ Malformed /\ keys' \in {keys, keys \cup {cur[p]}}
    BY DEF ClaimError, Inv, TypeOK, BusyHasEvent
<1>2. Finish(p) /\ HandleError(p) /\ UNCHANGED <<faults, stream, count, dlq, applied>>
    BY DEF ClaimError
<1>3. /\ state' \in [Consumer -> [Event -> {"ready", "out", "acked"}]]
      /\ dead' \subseteq Pod \X (Event \ Malformed)
    BY <1>1, <1>2, ErrorType
<1>4. ExclusiveHandling'
    BY <1>1, <1>2, LeavingIsSafe
<1> QED
    BY <1>1, <1>2, <1>3, <1>4, FinishType DEF Inv, TypeOK

LEMMA ApplyInv == ASSUME Inv, NEW p \in Pod, Apply(p) PROVE Inv'
<1>1. cur[p] \in Event \ Malformed /\ ConsumerOf[p] \in Consumer
    BY ConfigurationIsSound DEF Apply, Record, Inv, TypeOK, BusyHasEvent
<1>2. state' \in [Consumer -> [Event -> {"ready", "out", "acked"}]]
    BY <1>1, NakType DEF Apply, Record, Inv
<1>3. applied' \in [Consumer -> SUBSET (Event \ Malformed)]
    BY <1>1 DEF Apply, Record, Inv, TypeOK
<1>4. Finish(p) /\ UNCHANGED <<faults, stream, count, keys, dead, dlq>>
    BY DEF Apply, Record
<1> QED
    BY <1>2, <1>3, <1>4, FinishType, LeavingIsSafe DEF Inv, TypeOK

LEMMA ApplyErrorInv == ASSUME Inv, NEW p \in Pod, ApplyError(p) PROVE Inv'
<1>1. cur[p] \in Event \ Malformed /\ ConsumerOf[p] \in Consumer
    BY ConfigurationIsSound DEF ApplyError, Record, Inv, TypeOK, BusyHasEvent
<1>2. applied' \in [Consumer -> SUBSET (Event \ Malformed)]
    BY <1>1 DEF ApplyError, Record, Inv, TypeOK
<1>3. /\ pc[p] = "apply" /\ pc' = [pc EXCEPT ![p] = "unclaim"]
      /\ UNCHANGED <<cur, copy, faults, stream, count, state, keys, dead, dlq>>
    BY DEF ApplyError, Record, GoOn, streamVars
<1>4. TypeOK'
    BY <1>2, <1>3 DEF Inv, TypeOK
<1>5. BusyHasEvent'
    BY <1>1, <1>3, ConfigurationIsSound DEF Inv, TypeOK, BusyHasEvent
<1>6. ExclusiveHandling'
    BY <1>3 DEF Inv, TypeOK, ExclusiveHandling
<1> QED
    BY <1>4, <1>5, <1>6 DEF Inv

LEMMA UnclaimInv == ASSUME Inv, NEW p \in Pod, Unclaim(p) PROVE Inv'
<1>1. cur[p] \in Event \ Malformed /\ Holding(p) /\ keys' \in {keys, keys \ {cur[p]}}
    BY DEF Unclaim, ReleaseKey, Holding, Inv, TypeOK, BusyHasEvent
<1>2. Finish(p) /\ HandleError(p) /\ UNCHANGED <<faults, stream, count, dlq, applied>>
    BY DEF Unclaim
<1>3. /\ state' \in [Consumer -> [Event -> {"ready", "out", "acked"}]]
      /\ dead' \subseteq Pod \X (Event \ Malformed)
    BY <1>1, <1>2, ErrorType
<1>4. ExclusiveHandling'
    BY <1>1, <1>2, LeavingIsSafe
<1> QED
    BY <1>1, <1>2, <1>3, <1>4, FinishType DEF Inv, TypeOK

LEMMA DlqReplyInv == ASSUME Inv, NEW p \in Pod, NEW e \in Event, DlqReply(p, e) PROVE Inv'
<1>1. e \in Event \ Malformed /\ dead' \subseteq dead
    BY DEF DlqReply, Inv, TypeOK
<1>2. state' \in [Consumer -> [Event -> {"ready", "out", "acked"}]]
    BY NakType DEF DlqReply, Inv
<1>3. dlq' \subseteq dlq \cup {e} /\ UNCHANGED <<faults, stream, count, keys, podVars, applied>>
    BY DEF DlqReply
<1> QED
    BY <1>1, <1>2, <1>3 DEF podVars, Inv, TypeOK, BusyHasEvent, ExclusiveHandling

(* A dead pod loses its place: its key may stay without it. *)
LEMMA CrashInv == ASSUME Inv, NEW p \in Pod, Crash(p) PROVE Inv'
<1> DEFINE c == ConsumerOf[p]
<1>1. c \in Consumer /\ 0 \in 0..MaxDeliver
    BY ConfigurationIsSound DEF MaxDeliver
<1>2. Finish(p) /\ dead' \subseteq dead /\ UNCHANGED <<faults, stream, keys, dlq>>
    BY DEF Crash
<1>3. /\ count' \in [Consumer -> [Event -> 0..MaxDeliver]]
      /\ state' \in [Consumer -> [Event -> {"ready", "out", "acked"}]]
      /\ applied' \in [Consumer -> SUBSET (Event \ Malformed)]
    <2>1. CASE c \in Ephemeral
        <3>1. /\ count' = [count EXCEPT ![c] = [e \in Event |-> 0]]
              /\ state' = [state EXCEPT ![c] = [e \in Event |-> "ready"]]
              /\ applied' = [applied EXCEPT ![c] = {}]
            BY <2>1 DEF Crash
        <3>2. count' \in [Consumer -> [Event -> 0..MaxDeliver]]
            BY <1>1, <3>1 DEF Inv, TypeOK
        <3>3. state' \in [Consumer -> [Event -> {"ready", "out", "acked"}]]
            BY <1>1, <3>1 DEF Inv, TypeOK
        <3>4. applied' \in [Consumer -> SUBSET (Event \ Malformed)]
            BY <1>1, <3>1 DEF Inv, TypeOK
        <3> QED
            BY <3>2, <3>3, <3>4
    <2>2. CASE c \notin Ephemeral
        BY <2>2 DEF Crash, streamVars, Inv, TypeOK
    <2> QED
        BY <2>1, <2>2
<1> QED
    BY <1>2, <1>3, FinishType, LeavingIsSafe DEF Inv, TypeOK

(* A key expires only when no pod acts on its event, unless one is stalled.  *)
LEMMA KeyExpiresInv == ASSUME Inv, NEW e \in Event, KeyExpires(e) PROVE Inv'
<1>1. keys' = keys \ {e} /\ UNCHANGED <<faults, stream, count, state, pc, cur, copy, dead, dlq, applied>>
    BY DEF KeyExpires, streamVars, podVars
<1>2. TypeOK' /\ BusyHasEvent'
    BY <1>1 DEF Inv, TypeOK, BusyHasEvent
<1>3. ASSUME "stalled" \notin faults, NEW q \in Pod PROVE cur[q] # e
    <2>1. ~ \E c \in Consumer : Busy(c, e)
        BY <1>3 DEF KeyExpires
    <2> QED
        BY <2>1, ConfigurationIsSound DEF Busy
<1>4. ExclusiveHandling'
    BY <1>1, <1>3 DEF Inv, ExclusiveHandling
<1> QED
    BY <1>2, <1>4 DEF Inv

LEMMA AckTimeoutInv ==
    ASSUME Inv, NEW c \in Consumer, NEW e \in Event, AckTimeout(c, e)
    PROVE  Inv'
<1>1. state[c] \in [Event -> {"ready", "out", "acked"}]
    BY DEF Inv, TypeOK
<1>2. state' \in [Consumer -> [Event -> {"ready", "out", "acked"}]]
    BY <1>1 DEF AckTimeout, SetState, Inv, TypeOK
<1>3. UNCHANGED <<faults, stream, count, keys, pc, cur, copy, dead, dlq, applied>>
    BY DEF AckTimeout, podVars
<1> QED
    BY <1>2, <1>3 DEF Inv, TypeOK, BusyHasEvent, ExclusiveHandling

LEMMA NextInv == Inv /\ [Next]_vars => Inv'
<1> SUFFICES ASSUME Inv, [Next]_vars PROVE Inv'
    OBVIOUS
<1>1. ASSUME NEW e \in Event, Publish(e) PROVE Inv'
    BY <1>1 DEF Publish, streamVars, podVars, Inv, TypeOK, BusyHasEvent, ExclusiveHandling
<1>2. CASE UNCHANGED vars
    BY <1>2 DEF vars, streamVars, podVars, Inv, TypeOK, BusyHasEvent, ExclusiveHandling
<1>3. ASSUME NEW p \in Pod, Work(p) PROVE Inv'
    BY <1>3, ClaimInv, DuplicateInv, ClaimErrorInv, ApplyInv, ApplyErrorInv, UnclaimInv, DlqReplyInv
       DEF Work
<1> QED
    BY <1>1, <1>2, <1>3, DeliverInv, CrashInv, KeyExpiresInv, AckTimeoutInv DEF Next

LEMMA Invariance == Spec => []Inv
BY InitInv, NextInv, PTL DEF Spec

----------------------------------------------------------------------------

(* Malformed events reach neither the handlers nor the DLQ, and no consumer  *)
(* delivers an event more than MaxDeliver times.                             *)
THEOREM TypeCorrect == Spec => []TypeOK
BY Invariance, PTL DEF Inv

(* The idempotency key is a lock, whatever crashes and is redelivered.       *)
THEOREM KeyIsExclusive == Spec => []ExclusiveHandling
BY Invariance, PTL DEF Inv

----------------------------------------------------------------------------
(* One consumer, no faults in the handling but failing DLQ publications      *)

OneConsumer == \A c, d \in Consumer : c = d

InHand(p, e) == cur[p] = e \/ <<p, e>> \in dead

(* An event is in at most one pair of hands, and out of the consumer's; a    *)
(* key is that of an event being acted upon or handled.                      *)
HandsOut == \A p \in Pod, e \in Event : InHand(p, e) => state[ConsumerOf[p]][e] = "out"
OneHand ==
    /\ \A p, q \in Pod, e \in Event : InHand(p, e) /\ InHand(q, e) => p = q
    /\ \A p \in Pod : <<p, cur[p]>> \notin dead
KeyMeans ==
    \A c \in Consumer, e \in keys :
        Handled(c, e) \/ \E p \in Pod : Holding(p) /\ cur[p] = e

InTime == faults \subseteq {"dlq"} => HandsOut /\ OneHand /\ KeyMeans /\ AckedIsHandled

InTimeInv == Inv /\ InTime

LEMMA StepInTime ==
    ASSUME OneConsumer, InTimeInv, [Next]_vars, faults \subseteq {"dlq"}, Inv'
    PROVE  (HandsOut /\ OneHand /\ KeyMeans /\ AckedIsHandled)'
<1> USE DEF HandsOut, OneHand, KeyMeans, AckedIsHandled, InHand, Handled, Holding
<1>1. TypeOK /\ BusyHasEvent /\ HandsOut /\ OneHand /\ KeyMeans /\ AckedIsHandled
    BY DEF InTimeInv, InTime, Inv
<1>2. "crash" \notin faults /\ "redis" \notin faults /\ "late" \notin faults
    OBVIOUS
<1>3. \A p \in Pod, c \in Consumer : ConsumerOf[p] = c
    BY ConfigurationIsSound DEF OneConsumer
<1>4. /\ None \notin Event
      /\ \A p \in Pod : cur[p] \in (Event \ Malformed) \cup {None}
      /\ keys \subseteq Event
      /\ \A c \in Consumer : state[c] \in [Event -> {"ready", "out", "acked"}]
      /\ dead \subseteq Pod \X Event
    BY <1>1, ConfigurationIsSound DEF TypeOK
<1>5. CASE UNCHANGED vars
    BY <1>1, <1>5 DEF vars, streamVars, podVars
<1>6. ASSUME NEW e \in Event, Publish(e) PROVE (HandsOut /\ OneHand /\ KeyMeans /\ AckedIsHandled)'
    BY <1>1, <1>6 DEF Publish, streamVars, podVars
<1>7. ASSUME NEW e \in Event, KeyExpires(e) PROVE (HandsOut /\ OneHand /\ KeyMeans /\ AckedIsHandled)'
    BY <1>1, <1>7 DEF KeyExpires, streamVars, podVars
<1>8. ASSUME NEW c \in Consumer, NEW e \in Event, AckTimeout(c, e)
      PROVE  (HandsOut /\ OneHand /\ KeyMeans /\ AckedIsHandled)'
    <2>1. \A p \in Pod : ~InHand(p, e)
        BY <1>2, <1>3, <1>8 DEF AckTimeout, Busy
    <2>2. /\ \A d \in Consumer, f \in Event : f # e => state'[d][f] = state[d][f]
          /\ \A d \in Consumer : state'[d][e] = "ready"
        BY <1>1, <1>8 DEF AckTimeout, SetState, TypeOK, OneConsumer
    <2> QED
        BY <1>1, <1>8, <2>1, <2>2, ConfigurationIsSound DEF AckTimeout, podVars
<1>9. ASSUME NEW p \in Pod, NEW e \in Event, Deliver(p, e)
      PROVE  (HandsOut /\ OneHand /\ KeyMeans /\ AckedIsHandled)'
    <2>1. ConsumerOf[p] \in Consumer /\ \A q \in Pod : ~InHand(q, e)
        BY <1>1, <1>3, <1>9, ConfigurationIsSound DEF Deliver
    <2>2. CASE Valid(e)
        <3>1. /\ cur' = [cur EXCEPT ![p] = e] /\ pc' = [pc EXCEPT ![p] = "claim"]
              /\ state' = [state EXCEPT ![ConsumerOf[p]][e] = "out"]
              /\ pc[p] = "idle" /\ UNCHANGED <<keys, dead, dlq, applied>>
            BY <1>9, <2>2 DEF Deliver, SetState
        <3>2. /\ \A d \in Consumer, f \in Event : f # e => state'[d][f] = state[d][f]
              /\ \A d \in Consumer : state'[d][e] = "out"
            BY <1>1, <1>3, <2>1, <3>1 DEF TypeOK
        <3>3. cur \in [Pod -> (Event \ Malformed) \cup {None}] /\ pc \in [Pod -> {"idle", "claim", "apply", "unclaim"}]
            BY <1>1 DEF TypeOK
        <3>4. HandsOut' /\ OneHand'
            BY <1>1, <2>1, <3>1, <3>2, <3>3, ConfigurationIsSound
        <3>5. KeyMeans' /\ AckedIsHandled'
            BY <1>1, <2>1, <3>1, <3>2, <3>3
        <3> QED
            BY <3>4, <3>5
    <2>3. CASE ~Valid(e)
        <3>1. state' = [state EXCEPT ![ConsumerOf[p]][e] = "acked"]
              /\ UNCHANGED <<cur, pc, keys, dead, dlq, applied>> /\ e \in Malformed
            BY <1>9, <2>3 DEF Deliver, SetState, podVars, Valid
        <3>2. \A d \in Consumer, f \in Event : f # e => state'[d][f] = state[d][f]
            BY <1>1, <1>3, <2>1, <3>1 DEF TypeOK
        <3> QED
            BY <1>1, <2>1, <3>1, <3>2, ConfigurationIsSound
    <2> QED
        BY <2>2, <2>3
<1>10. ASSUME NEW p \in Pod, Work(p) PROVE (HandsOut /\ OneHand /\ KeyMeans /\ AckedIsHandled)'
    <2>1. ConsumerOf[p] \in Consumer /\ cur \in [Pod -> (Event \ Malformed) \cup {None}]
          /\ pc \in [Pod -> {"idle", "claim", "apply", "unclaim"}]
        BY <1>1, ConfigurationIsSound DEF TypeOK
    <2>2. pc[p] # "idle" =>
              cur[p] \in Event /\ \A q \in Pod : InHand(q, cur[p]) => q = p
        <3>1. pc[p] # "idle" => cur[p] \in Event
            BY <1>1, <2>1 DEF BusyHasEvent
        <3> QED
            BY <1>1, <3>1
    <2>3. CASE Claim(p)
        BY <1>1, <2>1, <2>2, <2>3 DEF Claim, SetNx, GoOn, streamVars
    <2>4. CASE ClaimError(p)
        BY <1>2, <2>4 DEF ClaimError
    <2>5. CASE Duplicate(p)
        <3>1. \A c \in Consumer : Handled(c, cur[p])
            <4>1. cur[p] \in Event /\ cur[p] \in keys /\ pc[p] = "claim" /\ KeyMeans
                BY <1>1, <2>2, <2>5 DEF Duplicate
            <4>2. \A q \in Pod : Holding(q) => cur[q] # cur[p]
                BY <2>2, <4>1
            <4> QED
                BY <4>1, <4>2
        <3>2. /\ state' = [state EXCEPT ![ConsumerOf[p]][cur[p]] = "acked"] /\ cur' = [cur EXCEPT ![p] = None]
              /\ pc' = [pc EXCEPT ![p] = "idle"] /\ pc[p] = "claim" /\ UNCHANGED <<keys, dead, dlq, applied>>
            BY <2>5 DEF Duplicate, Ack, SetState, Finish
        <3>3. \A d \in Consumer, f \in Event : f # cur[p] => state'[d][f] = state[d][f]
            BY <1>1, <1>3, <2>1, <2>2, <3>2 DEF TypeOK
        <3>4. HandsOut' /\ OneHand'
            BY <1>1, <1>4, <2>1, <2>2, <3>2, <3>3, ConfigurationIsSound
        <3> QED
            BY <1>1, <2>1, <2>2, <3>1, <3>2, <3>3, <3>4
    <2>6. CASE Apply(p)
        <3>1. /\ state' = [state EXCEPT ![ConsumerOf[p]][cur[p]] = "acked"] /\ cur' = [cur EXCEPT ![p] = None]
              /\ pc' = [pc EXCEPT ![p] = "idle"] /\ pc[p] = "apply" /\ UNCHANGED <<keys, dead, dlq>>
              /\ applied' = [applied EXCEPT ![ConsumerOf[p]] = @ \cup {cur[p]}]
            BY <2>6 DEF Apply, Record, Ack, SetState, Finish
        <3>2. \A d \in Consumer, f \in Event : f # cur[p] => state'[d][f] = state[d][f]
            BY <1>1, <1>3, <2>1, <2>2, <3>1 DEF TypeOK
        <3>3. \A c \in Consumer : applied'[c] = applied[c] \cup {cur[p]}
            BY <1>1, <1>3, <2>1, <3>1 DEF TypeOK
        <3>4. HandsOut' /\ OneHand'
            BY <1>1, <1>4, <2>1, <2>2, <3>1, <3>2, ConfigurationIsSound
        <3> QED
            BY <1>1, <2>1, <2>2, <3>1, <3>2, <3>3, <3>4
    <2>7. CASE ApplyError(p)
        <3>1. /\ pc[p] = "apply" /\ pc' = [pc EXCEPT ![p] = "unclaim"]
              /\ UNCHANGED <<cur, state, keys, dead, dlq>>
              /\ \A c \in Consumer : applied[c] \subseteq applied'[c]
            BY <1>1, <1>3, <2>1, <2>7 DEF ApplyError, Record, GoOn, streamVars, TypeOK
        <3> QED
            BY <1>1, <2>1, <3>1
    <2>8. CASE Unclaim(p)
        <3>1. /\ keys' = keys \ {cur[p]} /\ cur' = [cur EXCEPT ![p] = None] /\ pc' = [pc EXCEPT ![p] = "idle"]
              /\ pc[p] = "unclaim" /\ UNCHANGED <<dlq, applied>> /\ HandleError(p)
            BY <1>2, <2>8 DEF Unclaim, ReleaseKey, Finish
        <3>2. state[ConsumerOf[p]][cur[p]] = "out"
            <4>1. cur[p] \in Event /\ HandsOut
                BY <1>1, <2>2, <3>1
            <4> QED
                BY <4>1
        <3>3. CASE copy[p] >= MaxDeliver
            <4>1. dead' = dead \cup {<<p, cur[p]>>} /\ state' = state
                BY <3>1, <3>3 DEF HandleError
            <4>2. HandsOut'
                BY <1>1, <1>4, <2>1, <2>2, <3>1, <3>2, <4>1
            <4>3. OneHand'
                BY <1>1, <1>4, <2>1, <2>2, <3>1, <4>1
            <4> QED
                BY <1>1, <2>1, <2>2, <3>1, <4>1, <4>2, <4>3
        <3>4. CASE ~(copy[p] >= MaxDeliver)
            <4>1. dead' = dead /\ state' = [state EXCEPT ![ConsumerOf[p]][cur[p]] = "ready"]
                BY <3>1, <3>2, <3>4 DEF HandleError, Nak, SetState
            <4>2. \A d \in Consumer, f \in Event : f # cur[p] => state'[d][f] = state[d][f]
                BY <1>1, <1>3, <2>1, <2>2, <3>1, <4>1 DEF TypeOK
            <4>3. \A d \in Consumer : state'[d][cur[p]] = "ready"
                BY <1>1, <1>3, <2>1, <2>2, <3>1, <4>1 DEF TypeOK
            <4>4. HandsOut' /\ OneHand'
                BY <1>1, <1>4, <2>1, <2>2, <3>1, <4>1, <4>2, ConfigurationIsSound
            <4> QED
                BY <1>1, <2>1, <2>2, <3>1, <4>1, <4>2, <4>3, <4>4
        <3> QED
            BY <3>3, <3>4
    <2>9. ASSUME NEW f \in Event, DlqReply(p, f)
          PROVE  (HandsOut /\ OneHand /\ KeyMeans /\ AckedIsHandled)'
        <3>1. /\ <<p, f>> \in dead /\ dead' = dead \ {<<p, f>>}
              /\ UNCHANGED <<keys, cur, pc, applied>> /\ dlq \subseteq dlq'
            BY <2>9 DEF DlqReply, podVars
        <3>2. state[ConsumerOf[p]][f] = "out" /\ \A q \in Pod : InHand(q, f) => q = p
            BY <1>1, <3>1
        <3>3. PICK s \in {"ready", "acked"} :
                  /\ state' = [state EXCEPT ![ConsumerOf[p]][f] = s]
                  /\ s = "acked" => f \in dlq'
            BY <2>9, <3>2 DEF DlqReply, Ack, Nak, SetState
        <3>4. /\ \A d \in Consumer, g \in Event : g # f => state'[d][g] = state[d][g]
              /\ \A d \in Consumer : state'[d][f] = s
            BY <1>1, <1>3, <2>1, <3>3 DEF TypeOK
        <3>5. cur[p] # f
            BY <1>1, <3>1
        <3>6. \A q \in Pod : ~InHand(q, f)'
            BY <3>1, <3>2, <3>5
        <3>7. HandsOut' /\ OneHand'
            BY <1>1, <3>1, <3>4, <3>6, ConfigurationIsSound
        <3> QED
            BY <1>1, <3>1, <3>3, <3>4, <3>7
    <2> QED
        BY <1>10, <2>3, <2>4, <2>5, <2>6, <2>7, <2>8, <2>9 DEF Work
<1>11. ASSUME NEW p \in Pod, Crash(p) PROVE (HandsOut /\ OneHand /\ KeyMeans /\ AckedIsHandled)'
    BY <1>2, <1>11 DEF Crash
<1> QED
    BY <1>5, <1>6, <1>7, <1>8, <1>9, <1>10, <1>11 DEF Next

(* When the pods share one consumer and only handlers and DLQ publications   *)
(* fail, an event is acknowledged only once it was acted upon or is in the   *)
(* DLQ: a claim that is found taken belongs to an event already handled.     *)
THEOREM AckedMeansHandled == ASSUME OneConsumer PROVE Spec => []AckedIsHandledInTime
<1>1. Init => InTimeInv
    <2>1. ASSUME Init PROVE InTime
        BY <2>1, ConfigurationIsSound
           DEF Init, InTime, HandsOut, OneHand, KeyMeans, AckedIsHandled, InHand
    <2> QED
        BY <2>1, InitInv DEF InTimeInv
<1>2. InTimeInv /\ [Next]_vars => InTimeInv'
    <2>1. ASSUME InTimeInv, [Next]_vars PROVE Inv'
        BY <2>1, NextInv DEF InTimeInv
    <2>2. [Next]_vars => faults' = faults
        BY DEF Next, vars, Publish, KeyExpires, AckTimeout, Work, Claim, Duplicate, ClaimError, Apply,
               ApplyError, Unclaim, DlqReply, Crash, Deliver
    <2>3. ASSUME InTimeInv, [Next]_vars PROVE InTime'
        BY <2>1, <2>2, <2>3, StepInTime DEF InTime
    <2> QED
        BY <2>1, <2>3 DEF InTimeInv
<1>3. InTimeInv => AckedIsHandledInTime
    BY DEF InTimeInv, InTime, AckedIsHandledInTime
<1> QED
    BY <1>1, <1>2, <1>3, PTL DEF Spec

----------------------------------------------------------------------------
(* From the start of the services *)

LEMMA StartNextIsNext == [StartNext]_allVars => [Next]_vars
<1> SUFFICES ASSUME [StartNext]_allVars PROVE [Next]_vars
    OBVIOUS
<1>1. CASE UNCHANGED allVars
    BY <1>1 DEF allVars
<1>2. CASE Provision
    BY <1>2 DEF Provision
<1>3. ASSUME NEW p \in Pod, Subscribe(p) PROVE UNCHANGED vars
    BY <1>3 DEF Subscribe, Connect, Create, CreateFails, Open
<1>4. ASSUME NEW p \in Pod, Restart(p) PROVE Next
    BY <1>4 DEF Restart, Next
<1>5. ASSUME NEW p \in Pod, NEW e \in Event, Hear(p, e) PROVE Next
    BY <1>5 DEF Hear, Next
<1>6. ASSUME NEW e \in Event, PublishTo(e) PROVE Next
    BY <1>6 DEF PublishTo, Next
<1>7. ASSUME NEW p \in Pod, Work(p) PROVE Next
    BY <1>7 DEF Next
<1>8. ASSUME NEW e \in Event, KeyExpires(e) PROVE Next
    BY <1>8 DEF Next
<1>9. ASSUME NEW c \in Consumer, NEW e \in Event, AckTimeout(c, e) PROVE Next
    BY <1>9 DEF Next
<1> QED
    BY <1>1, <1>2, <1>3, <1>4, <1>5, <1>6, <1>7, <1>8, <1>9 DEF StartNext

(* The readers' start implements EventDelivery: a reader that is not there   *)
(* yet, or never, is one that does not take a message.                       *)
THEOREM StartImplementsDelivery == StartSpec => Spec
<1>1. StartInit => Init
    BY DEF StartInit
<1> QED
    BY <1>1, StartNextIsNext, PTL DEF StartSpec, Spec

StartInv == Inv /\ StartTypeOK

LEMMA StartStepType ==
    ASSUME StartInv, [StartNext]_allVars, TypeOK'
    PROVE  StartTypeOK'
<1>1. 0 \in 0..(MaxRetries - 1)
    BY SomeAttempt
<1>2. CASE UNCHANGED allVars
    BY <1>2 DEF allVars, startVars, vars, podVars, StartInv, StartTypeOK
<1>3. CASE Provision
    BY <1>3 DEF Provision, vars, podVars, StartInv, StartTypeOK
<1>4. ASSUME NEW p \in Pod, Subscribe(p) PROVE StartTypeOK'
    <2>1. pc' = pc /\ startFaults' = startFaults /\ provisioned' = provisioned
        BY <1>4 DEF Subscribe, Connect, Create, CreateFails, Open, vars, podVars
    <2>2. link[p] # "listening" /\ pc[p] = "idle"
        BY <1>4 DEF Subscribe, Connect, Create, CreateFails, Open, StartInv, StartTypeOK
    <2>3. PICK point \in {"create", "open", "listening", "deaf", "connect"} :
              link' = [link EXCEPT ![p] = point]
        BY <1>4 DEF Subscribe, Connect, Create, CreateFails, Open, Move, StartInv, StartTypeOK
    <2>4. attempts' \in [Pod -> 0..(MaxRetries - 1)]
        <3>1. CASE CreateFails(p)
            <4>1. attempts[p] \in 0..(MaxRetries - 1)
                BY DEF StartInv, StartTypeOK
            <4>2. CASE LastAttempt(p)
                BY <1>1, <3>1, <4>2 DEF CreateFails, StartInv, StartTypeOK
            <4>3. CASE ~LastAttempt(p)
                <5>1. attempts[p] + 1 \in 0..(MaxRetries - 1)
                    BY <4>1, <4>3, SomeAttempt DEF LastAttempt
                <5> QED
                    BY <3>1, <4>3, <5>1 DEF CreateFails, StartInv, StartTypeOK
            <4> QED
                BY <4>2, <4>3
        <3>2. CASE Connect(p) \/ Create(p) \/ Open(p)
            BY <1>1, <3>2 DEF Connect, Create, Open, StartInv, StartTypeOK
        <3> QED
            BY <1>4, <3>1, <3>2 DEF Subscribe
    <2> QED
        BY <2>1, <2>2, <2>3, <2>4 DEF StartInv, StartTypeOK
<1>5. ASSUME NEW p \in Pod, Restart(p) PROVE StartTypeOK'
    <2>1. /\ link' = [link EXCEPT ![p] = "connect"] /\ attempts' = [attempts EXCEPT ![p] = 0]
          /\ pc' = [pc EXCEPT ![p] = "idle"] /\ UNCHANGED <<startFaults, provisioned>>
        BY <1>5 DEF Restart, Crash, Finish, Move
    <2> QED
        BY <1>1, <2>1 DEF StartInv, StartTypeOK, TypeOK
<1>6. ASSUME NEW p \in Pod, NEW e \in Event, Hear(p, e) PROVE StartTypeOK'
    <2>1. link[p] = "listening" /\ UNCHANGED startVars
        BY <1>6 DEF Hear
    <2>2. \A q \in Pod : q # p => pc'[q] = pc[q]
        BY <1>6 DEF Hear, Deliver, podVars, StartInv, StartTypeOK, TypeOK
    <2> QED
        BY <2>1, <2>2 DEF startVars, StartInv, StartTypeOK
<1>7. ASSUME NEW e \in Event, PublishTo(e) PROVE StartTypeOK'
    BY <1>7 DEF PublishTo, Publish, startVars, podVars, StartInv, StartTypeOK
<1>8. ASSUME NEW p \in Pod, Work(p), UNCHANGED startVars PROVE StartTypeOK'
    <2>1. pc[p] # "idle" => link[p] = "listening"
        BY DEF StartInv, StartTypeOK
    <2>2. \A q \in Pod : pc'[q] # "idle" => pc[q] # "idle"
        BY <1>8 DEF Work, Claim, Duplicate, ClaimError, Apply, ApplyError, Unclaim, DlqReply,
                    GoOn, Finish, podVars, StartInv, StartTypeOK, TypeOK
    <2> QED
        BY <1>8, <2>1, <2>2 DEF startVars, StartInv, StartTypeOK
<1>9. ASSUME NEW e \in Event, KeyExpires(e), UNCHANGED startVars PROVE StartTypeOK'
    BY <1>9 DEF KeyExpires, startVars, podVars, StartInv, StartTypeOK
<1>10. ASSUME NEW c \in Consumer, NEW e \in Event, AckTimeout(c, e), UNCHANGED startVars
       PROVE  StartTypeOK'
    BY <1>10 DEF AckTimeout, startVars, podVars, StartInv, StartTypeOK
<1> QED
    BY <1>2, <1>3, <1>4, <1>5, <1>6, <1>7, <1>8, <1>9, <1>10 DEF StartNext

(* A reader handles messages only after its whole start, and it does not try *)
(* more often than MaxRetries to create its consumer.                        *)
THEOREM StartTypeCorrect == StartSpec => []StartTypeOK
<1>1. StartInit => StartInv
    <2>1. ASSUME StartInit PROVE Inv
        BY <2>1, InitInv DEF StartInit
    <2>2. ASSUME StartInit PROVE StartTypeOK
        <3>1. 0 \in 0..(MaxRetries - 1)
            BY SomeAttempt
        <3>2. TypeOK /\ \A p \in Pod : pc[p] = "idle"
            BY <2>1, <2>2 DEF StartInit, Init, Inv
        <3>3. startFaults \subseteq StartFaultKinds /\ provisioned \in BOOLEAN
            BY <2>2 DEF StartInit
        <3>4. /\ link \in [Pod -> {"connect", "create", "open", "listening", "deaf"}]
              /\ attempts \in [Pod -> 0..(MaxRetries - 1)]
            BY <2>2, <3>1 DEF StartInit
        <3> QED
            BY <3>2, <3>3, <3>4 DEF StartTypeOK
    <2> QED
        BY <2>1, <2>2 DEF StartInv
<1>2. StartInv /\ [StartNext]_allVars => StartInv'
    <2>1. ASSUME StartInv, [StartNext]_allVars PROVE Inv'
        BY <2>1, StartNextIsNext, NextInv DEF StartInv
    <2>2. ASSUME StartInv, [StartNext]_allVars PROVE StartTypeOK'
        BY <2>1, <2>2, StartStepType DEF Inv
    <2> QED
        BY <2>1, <2>2 DEF StartInv
<1>3. StartInv => StartTypeOK
    BY DEF StartInv
<1> QED
    BY <1>1, <1>2, <1>3, PTL DEF StartSpec

(* From the start of the services on, too, the idempotency key excludes two  *)
(* pods from acting on one event at a time.                                  *)
THEOREM KeyIsExclusiveFromTheStart == StartSpec => []ExclusiveHandling
BY StartImplementsDelivery, KeyIsExclusive, PTL
=============================================================================
