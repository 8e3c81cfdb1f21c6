--------------------------- MODULE EventDelivery ---------------------------
(***************************************************************************)
(* A JetStream stream read through BaseNatsSubscriber by the NatsEvents    *)
(* services: the pods of oceanchat-user share one durable consumer of      *)
(* AUTH_EVENTS and record logins in the database; each gateway pod has an  *)
(* ephemeral consumer of AUTH_STATE and records revoked tokens in its own  *)
(* memory.  Both claim an idempotency key in the shared Redis first, by    *)
(* the same code up to the names.                                          *)
(*                                                                         *)
(* `faults', fixed by the initial state, says what may go wrong besides    *)
(* the handler itself failing: "crash" of a pod, "redis" calls that fail   *)
(* or lose their reply, "late" handling that outlives the acknowledgement  *)
(* wait, "stalled" handling that outlives the key's 120 s, "dlq"           *)
(* publications that fail.                                                 *)
(***************************************************************************)
EXTENDS Integers, FiniteSets

CONSTANTS
    Event, Malformed,      \* the events published; those that validation rejects
    Pod, Consumer,
    Ephemeral,             \* the consumers that are ephemeral: one pod each
    ConsumerOf,            \* the consumer each pod reads
    None

MaxDeliver == 3            \* max_deliver of the base configuration
FaultKinds == {"crash", "redis", "late", "stalled", "dlq"}

ASSUME ConfigurationIsSound ==
    /\ Malformed \subseteq Event
    /\ Ephemeral \subseteq Consumer
    /\ None \notin Event
    /\ ConsumerOf \in [Pod -> Consumer]
    /\ \A p, q \in Pod : ConsumerOf[p] = ConsumerOf[q] /\ p # q => ConsumerOf[p] \notin Ephemeral

VARIABLES
    faults,
    stream,       \* events in the stream
    count,        \* count[c][e]: how often consumer c delivered e
    state,        \* state[c][e]: "ready" to be delivered, "out", or "acked"
    keys,         \* events whose idempotency key is in Redis
    pc, cur, copy,\* what a pod is doing, with which event, at which delivery count
    dead,         \* dead-letter publications under way, as <<pod, event>>
    dlq,          \* events in the DLQ stream
    applied       \* applied[c]: events the readers of c have acted upon

streamVars == <<count, state>>
podVars == <<pc, cur, copy>>
vars == <<faults, stream, streamVars, keys, podVars, dead, dlq, applied>>

Init ==
    /\ faults \in SUBSET FaultKinds
    /\ stream = {}
    /\ count = [c \in Consumer |-> [e \in Event |-> 0]]
    /\ state = [c \in Consumer |-> [e \in Event |-> "ready"]]
    /\ keys = {} /\ dead = {} /\ dlq = {}
    /\ pc = [p \in Pod |-> "idle"]
    /\ cur = [p \in Pod |-> None]
    /\ copy = [p \in Pod |-> 0]
    /\ applied = [c \in Consumer |-> {}]

----------------------------------------------------------------------------
(* The consumer of a stream (NATS): what ack and nak of a message do.  After *)
(* MaxDeliver deliveries a message that was not acked is left alone.         *)

SetState(c, e, s) == state' = [state EXCEPT ![c][e] = s]
Ack(p, e) == SetState(ConsumerOf[p], e, "acked")
Nak(p, e) ==
    SetState(ConsumerOf[p], e, IF state[ConsumerOf[p]][e] = "out" THEN "ready" ELSE state[ConsumerOf[p]][e])

Publish(e) ==
    /\ e \notin stream
    /\ stream' = stream \cup {e}
    /\ UNCHANGED <<faults, streamVars, keys, podVars, dead, dlq, applied>>

(* e is in the hands of a pod that reads c. *)
Busy(c, e) == \E p \in Pod : ConsumerOf[p] = c /\ (cur[p] = e \/ <<p, e>> \in dead)

AckTimeout(c, e) ==
    /\ state[c][e] = "out"
    /\ Busy(c, e) => "late" \in faults
    /\ SetState(c, e, "ready")
    /\ UNCHANGED <<faults, stream, count, keys, podVars, dead, dlq, applied>>

(* The 120 s of a key run out. *)
KeyExpires(e) ==
    /\ e \in keys
    /\ (\E c \in Consumer : Busy(c, e)) => "stalled" \in faults
    /\ keys' = keys \ {e}
    /\ UNCHANGED <<faults, stream, streamVars, podVars, dead, dlq, applied>>

----------------------------------------------------------------------------
(* The consume loop of a pod: one message at a time.                         *)

GoOn(p, step) == pc' = [pc EXCEPT ![p] = step] /\ UNCHANGED <<cur, copy>>
Finish(p) ==
    /\ pc' = [pc EXCEPT ![p] = "idle"]
    /\ cur' = [cur EXCEPT ![p] = None]
    /\ copy' = [copy EXCEPT ![p] = 0]

(* JSON.parse and validateOrReject; the mutant does not validate. *)
Unvalidated(e) == TRUE
Valid(e) == e \notin Malformed

(* A message arrives.  handleError acks a malformed one, to discard it.      *)
Deliver(p, e) ==
    LET c == ConsumerOf[p]
    IN  /\ pc[p] = "idle"
        /\ e \in stream
        /\ state[c][e] = "ready"
        /\ count[c][e] < MaxDeliver
        /\ count' = [count EXCEPT ![c][e] = @ + 1]
        /\ IF Valid(e)
           THEN /\ SetState(c, e, "out")
                /\ pc' = [pc EXCEPT ![p] = "claim"]
                /\ cur' = [cur EXCEPT ![p] = e]
                /\ copy' = [copy EXCEPT ![p] = count[c][e] + 1]
           ELSE SetState(c, e, "acked") /\ UNCHANGED podVars
        /\ UNCHANGED <<faults, stream, keys, dead, dlq, applied>>

(* handleError for an exception: nak, or at the last delivery start to       *)
(* publish to the DLQ, in the background.                                    *)
HandleError(p) ==
    IF copy[p] >= MaxDeliver
    THEN dead' = dead \cup {<<p, cur[p]>>} /\ UNCHANGED state
    ELSE Nak(p, cur[p]) /\ UNCHANGED dead

(* setnx of the idempotency key; the mutant claims a key that is there. *)
Overwrite(k, e) == k' = k \cup {e}
SetNx(k, e) == e \notin k /\ k' = k \cup {e}

Claim(p) ==
    /\ pc[p] = "claim"
    /\ SetNx(keys, cur[p])
    /\ GoOn(p, "apply")
    /\ UNCHANGED <<faults, stream, streamVars, dead, dlq, applied>>

(* "Return directly so BaseNatsSubscriber will ACK it" *)
Duplicate(p) ==
    /\ pc[p] = "claim"
    /\ cur[p] \in keys
    /\ Ack(p, cur[p])
    /\ Finish(p)
    /\ UNCHANGED <<faults, stream, count, keys, dead, dlq, applied>>

(* setnx throws: it did not happen, or its reply was lost. *)
ClaimError(p) ==
    /\ pc[p] = "claim"
    /\ "redis" \in faults
    /\ keys' \in {keys, keys \cup {cur[p]}}
    /\ HandleError(p)
    /\ Finish(p)
    /\ UNCHANGED <<faults, stream, count, dlq, applied>>

(* The blacklist's add in a gateway, addDevice in the user service: to do it *)
(* again changes nothing.  A token that has expired counts as recorded.      *)
Record(p) == applied' = [applied EXCEPT ![ConsumerOf[p]] = @ \cup {cur[p]}]

(* It returns; then the message is acked. *)
Apply(p) ==
    /\ pc[p] = "apply"
    /\ Record(p)
    /\ Ack(p, cur[p])
    /\ Finish(p)
    /\ UNCHANGED <<faults, stream, count, keys, dead, dlq>>

(* It throws; the update may have reached the database all the same. *)
ApplyError(p) ==
    /\ pc[p] = "apply"
    /\ Record(p) \/ UNCHANGED applied
    /\ GoOn(p, "unclaim")
    /\ UNCHANGED <<faults, stream, streamVars, keys, dead, dlq>>

(* The catch block deletes the key and throws on; the mutant keeps it. *)
KeyKept(e) == UNCHANGED keys
ReleaseKey(e) == keys' = keys \ {e}

Unclaim(p) ==
    /\ pc[p] = "unclaim"
    /\ \/ ReleaseKey(cur[p])
       \/ "redis" \in faults /\ UNCHANGED keys
    /\ HandleError(p)
    /\ Finish(p)
    /\ UNCHANGED <<faults, stream, count, dlq, applied>>

(* The publication to the DLQ is acknowledged, and the message acked; or it  *)
(* fails, and the message is naked, which does not bring it back.            *)
DlqReply(p, e) ==
    /\ <<p, e>> \in dead
    /\ dead' = dead \ {<<p, e>>}
    /\ \/ dlq' = dlq \cup {e} /\ Ack(p, e)
       \/ "dlq" \in faults /\ Nak(p, e) /\ dlq' \in {dlq, dlq \cup {e}}
    /\ UNCHANGED <<faults, stream, count, keys, podVars, applied>>

(* A pod dies and restarts.  A gateway comes back with an empty memory and a *)
(* new consumer that starts from the first message (DeliverPolicy.All).      *)
Crash(p) ==
    LET c == ConsumerOf[p]
    IN  /\ "crash" \in faults
        /\ Finish(p)
        /\ dead' = {d \in dead : d[1] # p}
        /\ IF c \in Ephemeral
           THEN /\ count' = [count EXCEPT ![c] = [e \in Event |-> 0]]
                /\ state' = [state EXCEPT ![c] = [e \in Event |-> "ready"]]
                /\ applied' = [applied EXCEPT ![c] = {}]
           ELSE UNCHANGED <<streamVars, applied>>
        /\ UNCHANGED <<faults, stream, keys, dlq>>

Work(p) ==
    \/ Claim(p) \/ Duplicate(p) \/ ClaimError(p)
    \/ Apply(p) \/ ApplyError(p) \/ Unclaim(p)
    \/ \E e \in Event : DlqReply(p, e)

Next ==
    \/ \E e \in Event : Publish(e) \/ KeyExpires(e)
    \/ \E c \in Consumer, e \in Event : AckTimeout(c, e)
    \/ \E p \in Pod : Work(p) \/ Crash(p) \/ \E e \in Event : Deliver(p, e)

Spec == Init /\ [][Next]_vars

----------------------------------------------------------------------------
(* Properties *)

(* Business logic only ever sees events that passed validation. *)
TypeOK ==
    /\ faults \subseteq FaultKinds
    /\ stream \subseteq Event
    /\ count \in [Consumer -> [Event -> 0..MaxDeliver]]
    /\ state \in [Consumer -> [Event -> {"ready", "out", "acked"}]]
    /\ keys \subseteq Event \ Malformed
    /\ pc \in [Pod -> {"idle", "claim", "apply", "unclaim"}]
    /\ cur \in [Pod -> (Event \ Malformed) \cup {None}]
    /\ copy \in [Pod -> 0..MaxDeliver]
    /\ dead \subseteq Pod \X (Event \ Malformed)
    /\ dlq \subseteq Event \ Malformed
    /\ applied \in [Consumer -> SUBSET (Event \ Malformed)]

Handled(c, e) == e \in applied[c] \cup dlq

(* An acknowledged event was acted upon or is in the DLQ, for each consumer. *)
AckedIsHandled ==
    \A c \in Consumer, e \in Event \ Malformed :
        state[c][e] = "acked" => Handled(c, e)

(* This holds while handlers may fail and DLQ publications may fail, but no  *)
(* pod crashes, Redis answers and handling is in time.                       *)
AckedIsHandledInTime == faults \subseteq {"dlq"} => AckedIsHandled

(* The idempotency key is a lock on the event: whatever crashes, whatever    *)
(* Redis loses and however often NATS redelivers, two pods never act on an   *)
(* event at the same time, and the key is there while one does, unless       *)
(* handling takes longer than the key lives.                                 *)
ExclusiveHandling ==
    "stalled" \notin faults =>
        \A p, q \in Pod :
            pc[p] \in {"apply", "unclaim"} =>
                /\ cur[p] \in keys
                /\ pc[q] \in {"apply", "unclaim"} /\ cur[q] = cur[p] => q = p

(* "Durable consumers are ideal for reliable processing": a durable consumer *)
(* does not drop an event because a pod restarts.                            *)
SurvivesRestart == faults \subseteq {"crash"} => AckedIsHandled

(* "Ephemeral consumers are ideal for fan-out patterns": with nothing going  *)
(* wrong, every gateway acts on each event it acknowledges.                  *)
FanOut == faults = {} => AckedIsHandled
=============================================================================
