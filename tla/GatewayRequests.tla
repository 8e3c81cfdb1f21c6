-------------------------- MODULE GatewayRequests --------------------------
(***************************************************************************)
(* An HTTP request through the API gateway: the guards, the idempotency    *)
(* interceptor, whose keys all pods share in Redis, the circuit breaker of *)
(* its RPC in its pod, the RPC, and the answer.                            *)
(*                                                                         *)
(* A client sends a request again with the key of the first; requests with *)
(* one key are for one route.  What the services do is one step, Serve,    *)
(* which may come after the gateway has given the RPC up.                  *)
(*                                                                         *)
(* `faults', fixed by the initial state, says what may go wrong: "redis"   *)
(* commands that throw, done or not; "late" RPCs, whose message or reply   *)
(* is lost or comes after the timeout; a "server" error, after the effect  *)
(* or before it; a "stall" that outlasts a marker's 60 s; a pod's "crash". *)
(***************************************************************************)
EXTENDS Naturals

CONSTANTS
    Request, Pod,
    Key,         \* idempotency keys
    None,
    Batches,     \* the requests to start with: each a [route, key, pod]
    FaultSets    \* the sets of faults to start with

FaultKinds == {"redis", "late", "server", "stall", "crash"}

Public == {"login", "register", "refresh"}      \* @SkipAuth
Post == Public \cup {"logout"}                  \* METHODS_TO_CHECK
Route == Post \cup {"me"}

ASSUME NoneIsNothing == None \notin Key \cup Request
ASSUME BatchesAreRequests ==
    Batches \subseteq [Request -> [route : Route, key : Key \cup {None}, pod : Pod]]
ASSUME FaultsAreKnown == FaultSets \subseteq SUBSET FaultKinds

VARIABLES
    faults,
    pc,          \* where each request is between two awaits, and its answer
    req,         \* req[r]: what r asks for, fixed by the initial state
    due,         \* due[r]: the answer r has while it frees its key
    rpc,         \* rpc[r]: its RPC at the service, and the reply
    took,        \* took[r]: the service acted on r
    marker,      \* marker[k]: the request that marked k as processing, or None
    record,      \* record[k]: the request whose completed response k holds
    breaker,     \* breaker[p][n]: pod p's breaker for route n
    lapsed       \* history: keys that Redis forgot while in use or completed

vars == <<faults, pc, req, due, rpc, took, marker, record, breaker, lapsed>>

Answered == {"ok", "replayed", "client", "conflict", "error", "refused"}
Owning == {"fire", "call", "record", "drop"}
Running == Owning \cup {"claim", "look"}

(* Redis has the key of the request: SET NX fails. *)
Taken(k) == marker[k] # None \/ record[k] # None

HasKey(r) == req[r].key # None
SameKey(q, r) == q # r /\ HasKey(q) /\ req[q].key = req[r].key

(* A GET and a request without a key pass the interceptor untouched. *)
Guarded(r) == req[r].route \in Post /\ HasKey(r)

----------------------------------------------------------------------------

TypeOK ==
    /\ faults \subseteq FaultKinds
    /\ pc \in [Request -> {"idle", "gone"} \cup Running \cup Answered]
    /\ req \in Batches
    /\ due \in [Request -> {"client", "error"}]
    /\ rpc \in [Request -> {"none", "sent", "ok", "client", "server", "lost"}]
    /\ took \in [Request -> BOOLEAN]
    /\ marker \in [Key -> Request \cup {None}]
    /\ record \in [Key -> Request \cup {None}]
    /\ \A k \in Key : marker[k] = None \/ record[k] = None
    /\ breaker \in [Pod -> [Route -> {"closed", "open", "halfOpen", "trial"}]]
    /\ lapsed \subseteq Key

Init ==
    /\ faults \in FaultSets
    /\ pc = [r \in Request |-> "idle"]
    /\ req \in Batches
    /\ \A q, r \in Request : SameKey(q, r) => req[q].route = req[r].route
    /\ due = [r \in Request |-> "error"]
    /\ rpc = [r \in Request |-> "none"]
    /\ took = [r \in Request |-> FALSE]
    /\ marker = [k \in Key |-> None]
    /\ record = [k \in Key |-> None]
    /\ breaker = [p \in Pod |-> [n \in Route |-> "closed"]]
    /\ lapsed = {}

Goto(r, point) == pc' = [pc EXCEPT ![r] = point]

----------------------------------------------------------------------------
(* The guards and the interceptor's beginning *)

(* The throttler may refuse any request, JwtAuthGuard one for a route that   *)
(* is not public, both before the interceptor.                               *)
Arrive(r) ==
    /\ pc[r] = "idle"
    /\ \/ Goto(r, IF Guarded(r) THEN "claim" ELSE "fire")
       \/ Goto(r, "refused")
    /\ UNCHANGED <<faults, req, due, rpc, took, marker, record, breaker, lapsed>>

(* SET NX EX 60; the mutant forgets NX. *)
Overwrite(k) == TRUE
IfAbsent(k) == ~Taken(k)

Claim(r) ==
    LET k == req[r].key
        Mark == /\ IfAbsent(k)
                /\ marker' = [marker EXCEPT ![k] = r]
                /\ record' = [record EXCEPT ![k] = None]
    IN  /\ pc[r] = "claim"
        /\ \/ Mark /\ Goto(r, "fire")
           \/ Taken(k) /\ Goto(r, "look") /\ UNCHANGED <<marker, record>>
           \/ /\ "redis" \in faults
              /\ Mark \/ UNCHANGED <<marker, record>>
              /\ Goto(r, "error")
        /\ UNCHANGED <<faults, req, due, rpc, took, breaker, lapsed>>

(* What a request does to a key that it finds processing; the mutant deletes *)
(* the key as if it were its own.                                            *)
ForgetKey(k) == marker' = [marker EXCEPT ![k] = None]
LeaveKey(k) == UNCHANGED marker

(* A completed response is given again; anything else is a conflict, a key   *)
(* that has gone since the SET included.                                     *)
Look(r) ==
    LET k == req[r].key
    IN  /\ pc[r] = "look"
        /\ \/ record[k] # None /\ Goto(r, "replayed") /\ UNCHANGED marker
           \/ record[k] = None /\ Goto(r, "conflict") /\ LeaveKey(k)
           \/ "redis" \in faults /\ Goto(r, "error") /\ UNCHANGED marker
        /\ UNCHANGED <<faults, req, due, rpc, took, record, breaker, lapsed>>

----------------------------------------------------------------------------
(* The controller, the breaker and the RPC *)

Breaker(r) == breaker[req[r].pod][req[r].route]
SetBreaker(r, state) == breaker' = [breaker EXCEPT ![req[r].pod][req[r].route] = state]

(* An error of the handler: the interceptor frees the key first.             *)
Fail(r, answer) ==
    IF Guarded(r)
    THEN Goto(r, "drop") /\ due' = [due EXCEPT ![r] = answer]
    ELSE Goto(r, answer) /\ UNCHANGED due

(* breaker.fire: 503 while it is open or its one trial runs.  A body that    *)
(* ValidationPipe rejects, of a login or a registration, and a refresh       *)
(* without a token are refused before.                                       *)
Fire(r) ==
    /\ pc[r] = "fire"
    /\ \/ /\ Breaker(r) \in {"closed", "halfOpen"}
          /\ rpc' = [rpc EXCEPT ![r] = "sent"]
          /\ Goto(r, "call")
          /\ SetBreaker(r, IF Breaker(r) = "halfOpen" THEN "trial" ELSE "closed")
          /\ UNCHANGED due
       \/ /\ Breaker(r) \in {"open", "trial"}
          /\ Fail(r, "error")
          /\ UNCHANGED <<rpc, breaker>>
       \/ /\ req[r].route \in Public
          /\ Fail(r, "client")
          /\ UNCHANGED <<rpc, breaker>>
    /\ UNCHANGED <<faults, req, took, marker, record, lapsed>>

(* The exceptions of a service come back as a DTO with a status, 4xx or 5xx. *)
Exceptions == {"client"} \cup ({"server"} \cap faults)

(* The service handles the message.  4xx comes instead of what was asked for *)
(* (what the replay of a refresh does besides is AuthSession's), 5xx before  *)
(* or after it.  Nobody hears a reply that comes after the caller has left.  *)
Serve(r) ==
    LET Reaches(reply) ==
            rpc' = [rpc EXCEPT ![r] = IF pc[r] = "call" THEN reply ELSE "none"]
        Acts == took' = [took EXCEPT ![r] = TRUE]
    IN  /\ rpc[r] = "sent"
        /\ \/ Reaches("ok") /\ Acts
           \/ \E x \in Exceptions : Reaches(x) /\ (UNCHANGED took \/ (x = "server" /\ Acts))
           \/ "late" \in faults /\ Reaches("lost") /\ (Acts \/ UNCHANGED took)
        /\ UNCHANGED <<faults, pc, req, due, marker, record, breaker, lapsed>>

(* A call that ends, with `success' as errorFilter has it.  Only a failure   *)
(* opens a breaker, at once while it is half open and otherwise when more    *)
(* than half of the calls of its window failed.                              *)
Settle(r, success) ==
    LET b == Breaker(r)
    IN  IF success
        THEN SetBreaker(r, IF b \in {"halfOpen", "trial"} THEN "closed" ELSE b)
        ELSE \/ SetBreaker(r, "open")
             \/ b \in {"closed", "open"} /\ UNCHANGED breaker

(* errorFilter; the mutant is opossum's default. *)
NoFilter(reply) == reply = "ok"
NotInfrastructure(reply) == reply \in {"ok", "client"}

(* catchError throws what it is told: a DTO's status, or 500 for all else.   *)
AnswerTo(reply) == IF reply = "client" THEN "client" ELSE "error"

Reply(r) ==
    /\ pc[r] = "call" /\ rpc[r] \in {"ok", "client", "server"}
    /\ Settle(r, NotInfrastructure(rpc[r]))
    /\ rpc' = [rpc EXCEPT ![r] = "none"]
    /\ IF rpc[r] = "ok"
       THEN /\ Goto(r, IF Guarded(r) THEN "record" ELSE "ok")
            /\ UNCHANGED due
       ELSE Fail(r, AnswerTo(rpc[r]))
    /\ UNCHANGED <<faults, req, took, marker, record, lapsed>>

(* timeout(5000) or timeout(9000), before the breaker's own or, of a logout, *)
(* with it; the service may still have the message.                          *)
Timeout(r) ==
    /\ pc[r] = "call"
    /\ "late" \in faults /\ rpc[r] \in {"sent", "lost"}
    /\ Settle(r, FALSE)
    /\ rpc' = [rpc EXCEPT ![r] = IF @ = "lost" THEN "none" ELSE @]
    /\ Fail(r, "error")
    /\ UNCHANGED <<faults, req, took, marker, record, lapsed>>

----------------------------------------------------------------------------
(* The interceptor's end *)

(* SET with EX replaces the marker by the completed response; the mutant     *)
(* stores it beside the marker.                                              *)
Beside(k, r) == record' = [record EXCEPT ![k] = r] /\ UNCHANGED marker
Complete(k, r) ==
    marker' = [marker EXCEPT ![k] = None] /\ record' = [record EXCEPT ![k] = r]

(* If it throws the key is deleted. *)
Record(r) ==
    LET k == req[r].key
    IN  /\ pc[r] = "record"
        /\ \/ Complete(k, r) /\ Goto(r, "ok") /\ UNCHANGED due
           \/ /\ "redis" \in faults
              /\ Complete(k, r) \/ UNCHANGED <<marker, record>>
              /\ Fail(r, "error")
        /\ UNCHANGED <<faults, req, rpc, took, breaker, lapsed>>

(* DEL, whoever's key it is now; its own failure is the answer. *)
Drop(r) ==
    LET k == req[r].key
        Del == /\ marker' = [marker EXCEPT ![k] = None]
               /\ record' = [record EXCEPT ![k] = None]
    IN  /\ pc[r] = "drop"
        /\ \/ Del /\ Goto(r, due[r])
           \/ /\ "redis" \in faults
              /\ Del \/ UNCHANGED <<marker, record>>
              /\ Goto(r, "error")
        /\ due' = [due EXCEPT ![r] = "error"]
        /\ UNCHANGED <<faults, req, rpc, took, breaker, lapsed>>

----------------------------------------------------------------------------

(* Every request in the pod is lost, and its breakers start anew. *)
Crash(p) ==
    /\ "crash" \in faults
    /\ \E r \in Request : pc[r] \in Running /\ req[r].pod = p
    /\ pc' = [r \in Request |->
                IF pc[r] \in Running /\ req[r].pod = p THEN "gone" ELSE pc[r]]
    /\ due' = [r \in Request |-> IF pc'[r] = "gone" THEN "error" ELSE due[r]]
    /\ rpc' = [r \in Request |->
                IF pc'[r] = "gone" /\ rpc[r] # "sent" THEN "none" ELSE rpc[r]]
    /\ breaker' = [breaker EXCEPT ![p] = [n \in Route |-> "closed"]]
    /\ UNCHANGED <<faults, req, took, marker, record, lapsed>>

(* resetTimeout, 10 s. *)
HalfOpen(p, n) ==
    /\ breaker[p][n] = "open"
    /\ breaker' = [breaker EXCEPT ![p][n] = "halfOpen"]
    /\ UNCHANGED <<faults, pc, req, due, rpc, took, marker, record, lapsed>>

(* A marker outlives every request that does not stall: 60 s against at most *)
(* 10 s of RPC and 2 s for each Redis command.  The mutant has no TTL.       *)
NeverExpires(k) == FALSE
MarkerDue(k) == "stall" \in faults \/ pc[marker[k]] \notin Owning

ExpireMarker(k) ==
    /\ marker[k] # None
    /\ MarkerDue(k)
    /\ marker' = [marker EXCEPT ![k] = None]
    /\ lapsed' = IF pc[marker[k]] \in Owning THEN lapsed \cup {k} ELSE lapsed
    /\ UNCHANGED <<faults, pc, req, due, rpc, took, record, breaker>>

ExpireRecord(k) ==
    /\ record[k] # None
    /\ record' = [record EXCEPT ![k] = None]
    /\ lapsed' = lapsed \cup {k}
    /\ UNCHANGED <<faults, pc, req, due, rpc, took, marker, breaker>>

Handle(r) ==
    Claim(r) \/ Look(r) \/ Fire(r) \/ Reply(r) \/ Timeout(r) \/ Record(r) \/ Drop(r)

Done ==
    /\ \A r \in Request : pc[r] \in Answered \cup {"gone"} /\ rpc[r] # "sent"
    /\ UNCHANGED vars

Next ==
    \/ \E r \in Request : Arrive(r) \/ Handle(r) \/ Serve(r)
    \/ \E p \in Pod : Crash(p) \/ \E n \in Route : HalfOpen(p, n)
    \/ \E k \in Key : ExpireMarker(k) \/ ExpireRecord(k)
    \/ Done

Spec == Init /\ [][Next]_vars

(* A pod answers what it took on, a service what reaches it, or the gateway  *)
(* times out; Redis expires a marker.  Expiry of records need not happen.    *)
FairSpec ==
    /\ Spec
    /\ \A r \in Request : WF_vars(Handle(r)) /\ WF_vars(Serve(r))
    /\ \A k \in Key : WF_vars(ExpireMarker(k))

----------------------------------------------------------------------------
(* Properties *)

(* Whoever got past the interceptor with a key holds that key to the end, so *)
(* it runs alone, and what it deletes is its own: unless Redis forgot it.    *)
KeyHeld ==
    \A r \in Request :
        pc[r] \in Owning /\ Guarded(r) =>
            \/ marker[req[r].key] = r
            \/ pc[r] = "drop" /\ record[req[r].key] = r
            \/ req[r].key \in lapsed

(* Two requests with one key take effect only if the client of one of them   *)
(* was told of an error or heard nothing, or Redis forgot the key.           *)
OnceUnlessError ==
    \A q, r \in Request :
        SameKey(q, r) /\ Guarded(r) /\ took[q] /\ took[r] =>
            \/ pc[q] \in {"error", "gone"} \/ pc[r] \in {"error", "gone"}
            \/ req[r].key \in lapsed

(* However many requests clients get wrong, and however often Redis fails,   *)
(* no breaker opens: only the services' own errors and silence open one.     *)
OnlyServicesOpenBreakers ==
    faults \cap {"late", "server"} = {} =>
        \A p \in Pod, n \in Route : breaker[p][n] = "closed"

(* A key is not stuck as processing: whatever crashed or failed with it, a   *)
(* request sent again is at last answered with more than a conflict.         *)
KeyFreed == \A k \in Key : marker[k] # None ~> marker[k] = None

(* "Identical requests with the same idempotency key are only processed once *)
(* by the backend microservices" (a test): with nothing but a late RPC, the  *)
(* timeout frees the key while the service works, and a retry is processed.  *)
ProcessedOnce ==
    faults \subseteq {"late", "stall"} /\ lapsed = {} =>
        \A q, r \in Request :
            SameKey(q, r) /\ Guarded(r) => ~(took[q] /\ took[r])
=============================================================================
