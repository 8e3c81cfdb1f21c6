------------------------- MODULE EventSubscription -------------------------
(***************************************************************************)
(* EventDelivery from the start of the pods: oceanchat-auth provisions the *)
(* stream, and each reader's onModuleInit connects to NATS, creates its    *)
(* consumer, which takes the stream to exist, and opens it.  A reader that *)
(* fails goes on without reading.                                          *)
(*                                                                         *)
(* `startFaults', fixed by the initial state, says what may go wrong here: *)
(* a "broker" that does not answer, and a "late" start of oceanchat-auth,  *)
(* after the retries of the readers have run out.                          *)
(***************************************************************************)
EXTENDS EventDelivery

CONSTANT MaxRetries       \* MAX_RETRIES, 12 in the code

ASSUME SomeAttempt == MaxRetries \in Nat \ {0}

StartFaultKinds == {"broker", "late"}

VARIABLES
    startFaults,
    provisioned,  \* the stream exists
    link,         \* link[p]: how far the pod's onModuleInit is
    attempts      \* attempts[p]: failed attempts to create the consumer

startVars == <<startFaults, provisioned, link, attempts>>
allVars == <<vars, startVars>>

StartTypeOK ==
    /\ TypeOK
    /\ startFaults \subseteq StartFaultKinds
    /\ provisioned \in BOOLEAN
    /\ link \in [Pod -> {"connect", "create", "open", "listening", "deaf"}]
    /\ attempts \in [Pod -> 0..(MaxRetries - 1)]
    /\ \A p \in Pod : pc[p] # "idle" => link[p] = "listening"

StartInit ==
    /\ Init
    /\ startFaults \in SUBSET StartFaultKinds
    /\ provisioned = FALSE
    /\ link = [p \in Pod |-> "connect"]
    /\ attempts = [p \in Pod |-> 0]

Move(p, point) == link' = [link EXCEPT ![p] = point]

----------------------------------------------------------------------------

(* ensureStreams: a failure ends oceanchat-auth, which is started again.     *)
Provision ==
    /\ ~provisioned
    /\ provisioned' = TRUE
    /\ UNCHANGED <<vars, startFaults, link, attempts>>

Connect(p) ==
    /\ link[p] = "connect"
    /\ Move(p, "create") \/ ("broker" \in startFaults /\ Move(p, "deaf"))
    /\ UNCHANGED <<vars, startFaults, provisioned, attempts>>

(* info, then update or add of a durable consumer, add of an ephemeral one.  *)
(* A failing update of a consumer that is there does not matter.             *)
Create(p) ==
    /\ link[p] = "create"
    /\ provisioned
    /\ Move(p, "open")
    /\ attempts' = [attempts EXCEPT ![p] = 0]
    /\ UNCHANGED <<vars, startFaults, provisioned>>

(* What the error of the last attempt does: onModuleInit catches it.  The    *)
(* mutant catches the first one, too.                                        *)
AtOnce(p) == TRUE
LastAttempt(p) == attempts[p] + 1 >= MaxRetries

CreateFails(p) ==
    /\ link[p] = "create"
    /\ ~provisioned \/ "broker" \in startFaults
    /\ IF LastAttempt(p)
       THEN /\ Move(p, "deaf")
            /\ attempts' = [attempts EXCEPT ![p] = 0]
       ELSE /\ attempts' = [attempts EXCEPT ![p] = @ + 1]
            /\ UNCHANGED link
    /\ startFaults = {} => attempts[p] + 1 < MaxRetries    \* the stream is there in 60 s
    /\ UNCHANGED <<vars, startFaults, provisioned>>

(* consumers.get and consume. *)
Open(p) ==
    /\ link[p] = "open"
    /\ Move(p, "listening") \/ ("broker" \in startFaults /\ Move(p, "deaf"))
    /\ UNCHANGED <<vars, startFaults, provisioned, attempts>>

Subscribe(p) == Connect(p) \/ Create(p) \/ CreateFails(p) \/ Open(p)

----------------------------------------------------------------------------
(* EventDelivery with readers that have to listen first *)

PublishTo(e) == provisioned /\ Publish(e) /\ UNCHANGED startVars

Hear(p, e) == link[p] = "listening" /\ Deliver(p, e) /\ UNCHANGED startVars

(* A pod that restarts begins anew; a durable consumer is still there. *)
Restart(p) ==
    /\ Crash(p)
    /\ Move(p, "connect")
    /\ attempts' = [attempts EXCEPT ![p] = 0]
    /\ UNCHANGED <<startFaults, provisioned>>

StartNext ==
    \/ Provision
    \/ \E p \in Pod : Subscribe(p) \/ Restart(p) \/ \E e \in Event : Hear(p, e)
    \/ \E e \in Event : PublishTo(e)
    \/ /\ \/ \E p \in Pod : Work(p)
          \/ \E e \in Event : KeyExpires(e)
          \/ \E c \in Consumer, e \in Event : AckTimeout(c, e)
       /\ UNCHANGED startVars

StartSpec == StartInit /\ [][StartNext]_allVars

(* oceanchat-auth starts at last, and NATS answers or a call times out.      *)
FairStartSpec ==
    /\ StartSpec
    /\ WF_allVars(Provision)
    /\ \A p \in Pod : WF_allVars(Subscribe(p)) /\ WF_allVars(Work(p) /\ UNCHANGED startVars)
    /\ \A p \in Pod, e \in Event : WF_allVars(Hear(p, e))
    /\ \A c \in Consumer, e \in Event : WF_allVars(AckTimeout(c, e) /\ UNCHANGED startVars)

----------------------------------------------------------------------------
(* Properties *)

Heard(c) == \E p \in Pod : ConsumerOf[p] = c /\ link[p] = "listening"

(* With no fault in the handling, every event is acted upon or lands in the  *)
(* DLQ, however often its handler fails, in whatever order the services      *)
(* start; if they start with faults, as long as one reader listens.          *)
EveryEventIsHandled ==
    \A c \in Consumer, e \in Event \ Malformed :
        (faults = {} /\ e \in stream /\ (startFaults = {} \/ Heard(c))) ~> Handled(c, e)
=============================================================================
