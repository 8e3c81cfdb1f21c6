----------------------- MODULE GatewayRequestsProofs -----------------------
(***************************************************************************)
(* For any requests, keys, pods and faults: a request that got past the    *)
(* interceptor holds its key to the end, so requests with one key take     *)
(* effect twice only around an error, and only the services' failures open *)
(* a circuit breaker.                                                      *)
(***************************************************************************)
EXTENDS GatewayRequests, TLAPS

(* Requests with one key are for one route. *)
RoutesAgree == \A q, r \in Request : SameKey(q, r) => req[q].route = req[r].route

(* How far a request is when its service may still act, or has acted.        *)
Calls ==
    \A r \in Request :
        /\ rpc[r] \in {"ok", "client", "server", "lost"} => pc[r] = "call"
        /\ rpc[r] = "sent" => ~took[r] /\ pc[r] \in {"call", "drop", "error", "gone"}
        /\ took[r] => pc[r] \in {"call", "record", "drop", "ok", "error", "gone"}
        /\ pc[r] = "drop" /\ (took[r] \/ rpc[r] = "sent") => due[r] = "error"
        /\ rpc[r] = "client" => ~took[r]
        /\ pc[r] \in {"claim", "look", "record", "drop"} => Guarded(r)

(* A request that took effect and was answered so has its response stored.   *)
Recorded ==
    \A q \in Request :
        Guarded(q) /\ took[q] /\ pc[q] = "ok" =>
            record[req[q].key] = q \/ req[q].key \in lapsed

Blameless ==
    faults \cap {"late", "server"} = {} =>
        /\ \A r \in Request : rpc[r] \notin {"server", "lost"}
        /\ \A p \in Pod, n \in Route : breaker[p][n] = "closed"

Held == RoutesAgree /\ Calls /\ KeyHeld /\ Recorded
Inv == TypeOK /\ Held /\ Blameless

LEMMA ReqType ==
    ASSUME TypeOK, NEW r \in Request
    PROVE  /\ req[r].route \in Route /\ req[r].key \in Key \cup {None} /\ req[r].pod \in Pod
           /\ Guarded(r) => req[r].key \in Key
BY BatchesAreRequests DEF TypeOK, Guarded, HasKey

(* Steps that leave Redis and the request's key alone.                       *)
LEMMA KeysAlone ==
    ASSUME Inv, TypeOK', Calls', UNCHANGED <<req, marker, record, lapsed>>,
           \A r \in Request : pc'[r] \in Owning /\ Guarded(r) =>
                pc[r] \in Owning /\ (pc[r] = "drop" => pc'[r] = "drop"),
           \A r \in Request : pc'[r] = "ok" /\ took'[r] /\ Guarded(r) => pc[r] = "ok" /\ took[r]
    PROVE  Held'
BY DEF Inv, Held, RoutesAgree, SameKey, HasKey, Guarded, KeyHeld, Recorded

LEMMA InitInv == Init => Inv
<1> SUFFICES ASSUME Init PROVE Inv
    OBVIOUS
<1>1. TypeOK
    BY FaultsAreKnown DEF Init, TypeOK, Running, Owning, Answered
<1> QED
    BY <1>1 DEF Init, Inv, Held, RoutesAgree, Calls, KeyHeld, Recorded, Blameless, Owning, Guarded

LEMMA ArriveInv == ASSUME Inv, NEW r \in Request, Arrive(r) PROVE Inv'
<1>1. PICK x \in {"claim", "fire", "refused"} :
          pc' = [pc EXCEPT ![r] = x] /\ (x = "claim" => Guarded(r)) /\ (x = "fire" => ~Guarded(r))
    BY DEF Arrive, Goto
<1>2. pc[r] = "idle" /\ UNCHANGED <<faults, req, due, rpc, took, marker, record, breaker, lapsed>>
    BY DEF Arrive
<1>3. TypeOK'
    BY <1>1, <1>2 DEF Inv, TypeOK, Running, Owning, Answered
<1>4. Calls'
    BY <1>1, <1>2 DEF Inv, Held, TypeOK, Calls, Guarded, HasKey
<1>5. Held'
    BY <1>1, <1>2, <1>3, <1>4, KeysAlone DEF Inv, TypeOK, Owning, Guarded, HasKey
<1> QED
    BY <1>2, <1>3, <1>5 DEF Inv, Blameless

(* SET NX finds the key free: nobody holds it.                               *)
LEMMA ClaimInv == ASSUME Inv, NEW r \in Request, Claim(r) PROVE Inv'
<1> DEFINE k == req[r].key
<1>1. pc[r] = "claim" /\ UNCHANGED <<faults, req, due, rpc, took, breaker, lapsed>>
    BY DEF Claim
<1>2. Guarded(r) /\ k \in Key /\ r # None
    BY <1>1, ReqType, NoneIsNothing DEF Inv, Held, Calls
<1>3. CASE /\ ~Taken(k) /\ marker' = [marker EXCEPT ![k] = r] /\ record' = [record EXCEPT ![k] = None]
           /\ pc' = [pc EXCEPT ![r] = "fire"] \/ pc' = [pc EXCEPT ![r] = "error"]
    <2>1. PICK x \in {"fire", "error"} : pc' = [pc EXCEPT ![r] = x]
        BY <1>3
    <2>2. TypeOK'
        BY <1>1, <1>2, <1>3, <2>1 DEF Inv, TypeOK, Running, Owning, Answered
    <2>3. Calls'
        BY <1>1, <2>1 DEF Inv, Held, TypeOK, Calls, Guarded, HasKey
    <2>4. KeyHeld'
        BY <1>1, <1>2, <1>3, <2>1, ReqType, NoneIsNothing
           DEF Inv, Held, TypeOK, KeyHeld, Taken, Owning, Guarded, HasKey
    <2>5. Recorded'
        BY <1>1, <1>2, <1>3, <2>1, ReqType, NoneIsNothing
           DEF Inv, Held, TypeOK, Recorded, Taken, Guarded, HasKey
    <2> QED
        BY <1>1, <2>2, <2>3, <2>4, <2>5 DEF Inv, Held, RoutesAgree, SameKey, HasKey, Blameless
<1>4. CASE /\ UNCHANGED <<marker, record>>
           /\ pc' = [pc EXCEPT ![r] = "look"] \/ pc' = [pc EXCEPT ![r] = "error"]
    <2>1. PICK x \in {"look", "error"} : pc' = [pc EXCEPT ![r] = x]
        BY <1>4
    <2>2. TypeOK'
        BY <1>1, <1>4, <2>1 DEF Inv, TypeOK, Running, Owning, Answered
    <2>3. Calls'
        BY <1>1, <1>2, <2>1 DEF Inv, Held, TypeOK, Calls, Guarded, HasKey
    <2>4. Held'
        BY <1>1, <1>4, <2>1, <2>2, <2>3, KeysAlone DEF Inv, TypeOK, Owning
    <2> QED
        BY <1>1, <2>2, <2>4 DEF Inv, Blameless
<1> QED
    BY <1>3, <1>4 DEF Claim, Goto, IfAbsent

LEMMA LookInv == ASSUME Inv, NEW r \in Request, Look(r) PROVE Inv'
<1>1. PICK x \in {"replayed", "conflict", "error"} : pc' = [pc EXCEPT ![r] = x]
    BY DEF Look, Goto
<1>2. pc[r] = "look" /\ UNCHANGED <<faults, req, due, rpc, took, marker, record, breaker, lapsed>>
    BY DEF Look, LeaveKey
<1>3. TypeOK'
    BY <1>1, <1>2 DEF Inv, TypeOK, Running, Owning, Answered
<1>4. Calls'
    BY <1>1, <1>2 DEF Inv, Held, TypeOK, Calls, Guarded, HasKey
<1>5. Held'
    BY <1>1, <1>2, <1>3, <1>4, KeysAlone DEF Inv, TypeOK, Owning
<1> QED
    BY <1>2, <1>3, <1>5 DEF Inv, Blameless

(* What the handler's error does to the request. *)
LEMMA FailType ==
    ASSUME Inv, NEW r \in Request, NEW answer \in {"client", "error"}, Fail(r, answer)
    PROVE  /\ pc' = [pc EXCEPT ![r] = IF Guarded(r) THEN "drop" ELSE answer]
           /\ due' = [due EXCEPT ![r] = IF Guarded(r) THEN answer ELSE due[r]]
           /\ pc' \in [Request -> {"idle", "gone"} \cup Running \cup Answered]
           /\ due' \in [Request -> {"client", "error"}]
BY DEF Fail, Goto, Inv, TypeOK, Running, Owning, Answered

LEMMA BreakerType ==
    ASSUME Inv, NEW r \in Request, NEW b \in {"closed", "open", "halfOpen", "trial"}, SetBreaker(r, b)
    PROVE  breaker' \in [Pod -> [Route -> {"closed", "open", "halfOpen", "trial"}]]
BY ReqType DEF SetBreaker, Inv, TypeOK

LEMMA FireInv == ASSUME Inv, NEW r \in Request, Fire(r) PROVE Inv'
<1>1. pc[r] = "fire" /\ UNCHANGED <<faults, req, took, marker, record, lapsed>>
    BY DEF Fire
<1>2. ~took[r] /\ rpc[r] = "none"
    BY <1>1 DEF Inv, Held, Calls, TypeOK
<1>3. CASE /\ Breaker(r) \in {"closed", "halfOpen"} /\ rpc' = [rpc EXCEPT ![r] = "sent"]
           /\ pc' = [pc EXCEPT ![r] = "call"] /\ due' = due
           /\ SetBreaker(r, IF Breaker(r) = "halfOpen" THEN "trial" ELSE "closed")
    <2>1. breaker' \in [Pod -> [Route -> {"closed", "open", "halfOpen", "trial"}]]
        BY <1>3, BreakerType
    <2>2. TypeOK'
        BY <1>1, <1>3, <2>1 DEF Inv, TypeOK, Running, Owning
    <2>3. Calls'
        BY <1>1, <1>2, <1>3 DEF Inv, Held, TypeOK, Calls, Guarded, HasKey
    <2>4. Held'
        BY <1>1, <1>3, <2>2, <2>3, KeysAlone DEF Inv, TypeOK, Owning
    <2>5. Blameless'
        <3>1. ASSUME faults \cap {"late", "server"} = {} PROVE breaker' = breaker
            BY <1>3, <3>1, ReqType DEF Inv, Blameless, Breaker, SetBreaker, TypeOK
        <3> QED
            BY <1>1, <1>3, <3>1 DEF Inv, Blameless, TypeOK
    <2> QED
        BY <2>2, <2>4, <2>5 DEF Inv
<1>4. ASSUME NEW a \in {"client", "error"}, Fail(r, a), UNCHANGED <<rpc, breaker>>
      PROVE  Inv'
    <2>1. TypeOK'
        BY <1>1, <1>4, FailType DEF Inv, TypeOK
    <2>2. Calls'
        BY <1>1, <1>2, <1>4, FailType DEF Inv, Held, TypeOK, Calls, Guarded, HasKey
    <2>3. Held'
        BY <1>1, <1>4, <2>1, <2>2, FailType, KeysAlone DEF Inv, TypeOK, Owning
    <2> QED
        BY <1>1, <1>4, <2>1, <2>3 DEF Inv, Blameless
<1> QED
    BY <1>3, <1>4 DEF Fire, Goto

LEMMA ServeInv == ASSUME Inv, NEW r \in Request, Serve(r) PROVE Inv'
<1>1. rpc[r] = "sent" /\ UNCHANGED <<faults, pc, req, due, marker, record, breaker, lapsed>>
    BY DEF Serve
<1>2. PICK x \in {"ok", "client", "server", "lost"}, t \in BOOLEAN :
          /\ rpc' = [rpc EXCEPT ![r] = IF pc[r] = "call" THEN x ELSE "none"]
          /\ took' = [took EXCEPT ![r] = t]
          /\ x = "client" => ~t
          /\ x = "server" => "server" \in faults
          /\ x = "lost" => "late" \in faults
    <2>1. took = [took EXCEPT ![r] = FALSE]
        BY <1>1 DEF Inv, Held, Calls, TypeOK
    <2> QED
        BY <2>1 DEF Serve, Exceptions
<1>3. TypeOK'
    BY <1>1, <1>2 DEF Inv, TypeOK
<1>4. Calls'
    BY <1>1, <1>2 DEF Inv, Held, TypeOK, Calls, Guarded, HasKey
<1>5. pc[r] # "ok"
    BY <1>1 DEF Inv, Held, Calls
<1>6. Held'
    BY <1>1, <1>2, <1>3, <1>4, <1>5, KeysAlone DEF Inv, TypeOK, Owning
<1>7. Blameless'
    BY <1>1, <1>2 DEF Inv, Blameless, TypeOK
<1> QED
    BY <1>3, <1>6, <1>7 DEF Inv

LEMMA SettleType ==
    ASSUME Inv, NEW r \in Request, NEW success \in BOOLEAN, Settle(r, success)
    PROVE  /\ breaker' \in [Pod -> [Route -> {"closed", "open", "halfOpen", "trial"}]]
           /\ success /\ Breaker(r) = "closed" => breaker' = breaker
<1>1. Breaker(r) \in {"closed", "open", "halfOpen", "trial"}
    BY ReqType DEF Inv, TypeOK, Breaker
<1>2. CASE success
    <2>1. PICK b \in {"closed", "open", "halfOpen", "trial"} :
              SetBreaker(r, b) /\ (Breaker(r) = "closed" => b = "closed")
        BY <1>1, <1>2 DEF Settle
    <2>2. Breaker(r) = "closed" => breaker' = breaker
        BY <2>1, ReqType DEF SetBreaker, Breaker, Inv, TypeOK
    <2> QED
        BY <2>1, <2>2, BreakerType
<1>3. CASE ~success
    BY <1>3, BreakerType DEF Settle, Inv, TypeOK
<1> QED
    BY <1>2, <1>3

LEMMA ReplyInv == ASSUME Inv, NEW r \in Request, Reply(r) PROVE Inv'
<1>1. /\ pc[r] = "call" /\ rpc[r] \in {"ok", "client", "server"}
      /\ rpc' = [rpc EXCEPT ![r] = "none"]
      /\ Settle(r, NotInfrastructure(rpc[r]))
      /\ UNCHANGED <<faults, req, took, marker, record, lapsed>>
    BY DEF Reply
<1>2. /\ breaker' \in [Pod -> [Route -> {"closed", "open", "halfOpen", "trial"}]]
      /\ NotInfrastructure(rpc[r]) /\ Breaker(r) = "closed" => breaker' = breaker
    <2>1. NotInfrastructure(rpc[r]) \in BOOLEAN
        BY DEF NotInfrastructure
    <2> QED
        BY <1>1, <2>1, SettleType
<1>3. Blameless'
    <2>1. ASSUME faults \cap {"late", "server"} = {} PROVE breaker' = breaker
        <3>1. rpc[r] # "server" /\ Breaker(r) = "closed"
            BY <2>1, ReqType DEF Inv, Blameless, Breaker
        <3> QED
            BY <1>1, <1>2, <3>1 DEF NotInfrastructure
    <2> QED
        BY <1>1, <2>1 DEF Inv, Blameless, TypeOK
<1>4. CASE rpc[r] = "ok"
    <2>1. pc' = [pc EXCEPT ![r] = IF Guarded(r) THEN "record" ELSE "ok"] /\ due' = due
        BY <1>4 DEF Reply, Goto
    <2>2. TypeOK'
        BY <1>1, <1>2, <2>1 DEF Inv, TypeOK, Running, Owning, Answered
    <2>3. Calls'
        BY <1>1, <2>1 DEF Inv, Held, TypeOK, Calls, Guarded, HasKey
    <2>4. Held'
        BY <1>1, <2>1, <2>2, <2>3, KeysAlone DEF Inv, TypeOK, Owning
    <2> QED
        BY <1>3, <2>2, <2>4 DEF Inv
<1>5. CASE rpc[r] # "ok"
    <2>1. PICK a \in {"client", "error"} : Fail(r, a) /\ (a = "client" => rpc[r] = "client")
        BY <1>5 DEF Reply, AnswerTo
    <2>2. TypeOK'
        BY <1>1, <1>2, <2>1, FailType DEF Inv, TypeOK
    <2>3. Calls'
        BY <1>1, <2>1, FailType DEF Inv, Held, TypeOK, Calls, Guarded, HasKey
    <2>4. Held'
        BY <1>1, <2>1, <2>2, <2>3, FailType, KeysAlone DEF Inv, TypeOK, Owning
    <2> QED
        BY <1>3, <2>2, <2>4 DEF Inv
<1> QED
    BY <1>4, <1>5

LEMMA TimeoutInv == ASSUME Inv, NEW r \in Request, Timeout(r) PROVE Inv'
<1>1. /\ pc[r] = "call" /\ "late" \in faults /\ rpc[r] \in {"sent", "lost"}
      /\ rpc' = [rpc EXCEPT ![r] = IF rpc[r] = "lost" THEN "none" ELSE rpc[r]]
      /\ Settle(r, FALSE) /\ Fail(r, "error")
      /\ UNCHANGED <<faults, req, took, marker, record, lapsed>>
    BY DEF Timeout
<1>2. TypeOK'
    BY <1>1, FailType, SettleType DEF Inv, TypeOK
<1>3. Calls'
    BY <1>1, FailType DEF Inv, Held, TypeOK, Calls, Guarded, HasKey
<1>4. Held'
    BY <1>1, <1>2, <1>3, FailType, KeysAlone DEF Inv, TypeOK, Owning
<1> QED
    BY <1>1, <1>2, <1>4 DEF Inv, Blameless

(* The response replaces the request's own marker; if the key had been lost, *)
(* it has lapsed for whoever holds it now.                                   *)
LEMMA RecordInv == ASSUME Inv, NEW r \in Request, Record(r) PROVE Inv'
<1> DEFINE k == req[r].key
<1>1. pc[r] = "record" /\ UNCHANGED <<faults, req, rpc, took, breaker, lapsed>>
    BY DEF Record
<1>2. Guarded(r) /\ k \in Key /\ r # None
    BY <1>1, ReqType, NoneIsNothing DEF Inv, Held, Calls
<1>3. PICK x \in {"ok", "drop"} :
          /\ pc' = [pc EXCEPT ![r] = x]
          /\ due' = [due EXCEPT ![r] = IF x = "drop" THEN "error" ELSE due[r]]
    BY <1>2, FailType DEF Record, Goto, Inv, TypeOK
<1>4. Calls'
    BY <1>1, <1>2, <1>3 DEF Inv, Held, TypeOK, Calls, Guarded, HasKey
<1>5. CASE Complete(k, r)
    <2>1. marker' = [marker EXCEPT ![k] = None] /\ record' = [record EXCEPT ![k] = r]
        BY <1>5 DEF Complete
    <2>2. TypeOK'
        BY <1>1, <1>2, <1>3, <2>1 DEF Inv, TypeOK, Running, Owning, Answered
    <2>3. marker[k] = r \/ k \in lapsed
        BY <1>1, <1>2 DEF Inv, Held, KeyHeld, Owning
    <2>4. KeyHeld'
        BY <1>1, <1>2, <1>3, <2>1, <2>3, ReqType
           DEF Inv, Held, TypeOK, KeyHeld, Owning, Guarded, HasKey
    <2>5. Recorded'
        BY <1>1, <1>2, <1>3, <2>1, <2>3, ReqType, NoneIsNothing
           DEF Inv, Held, TypeOK, Recorded, Guarded, HasKey
    <2> QED
        BY <1>1, <1>4, <2>2, <2>4, <2>5 DEF Inv, Held, RoutesAgree, SameKey, HasKey, Blameless
<1>6. CASE UNCHANGED <<marker, record>> /\ pc' = [pc EXCEPT ![r] = "drop"]
    <2>1. TypeOK'
        BY <1>1, <1>3, <1>6 DEF Inv, TypeOK, Running, Owning, Answered
    <2>2. Held'
        BY <1>1, <1>4, <1>6, <2>1, KeysAlone DEF Inv, TypeOK, Owning
    <2> QED
        BY <1>1, <2>1, <2>2 DEF Inv, Blameless
<1> QED
    BY <1>2, <1>5, <1>6 DEF Record, Fail, Goto

(* What a request deletes is its own, or has lapsed. *)
LEMMA DropInv == ASSUME Inv, NEW r \in Request, Drop(r) PROVE Inv'
<1> DEFINE k == req[r].key
<1>1. /\ pc[r] = "drop" /\ due' = [due EXCEPT ![r] = "error"]
      /\ UNCHANGED <<faults, req, rpc, took, breaker, lapsed>>
    BY DEF Drop
<1>2. Guarded(r) /\ k \in Key /\ r # None /\ due[r] \in {"client", "error"}
    BY <1>1, ReqType, NoneIsNothing DEF Inv, Held, Calls, TypeOK
<1>3. PICK x \in {"client", "error"} : pc' = [pc EXCEPT ![r] = x] /\ x \in {due[r], "error"}
    BY <1>2 DEF Drop, Goto
<1>4. Calls'
    BY <1>1, <1>3 DEF Inv, Held, TypeOK, Calls, Guarded, HasKey
<1>5. CASE marker' = [marker EXCEPT ![k] = None] /\ record' = [record EXCEPT ![k] = None]
    <2>1. TypeOK'
        BY <1>1, <1>2, <1>3, <1>5 DEF Inv, TypeOK, Running, Owning, Answered
    <2>2. marker[k] = r \/ record[k] = r \/ k \in lapsed
        BY <1>1, <1>2 DEF Inv, Held, KeyHeld, Owning
    <2>3. KeyHeld'
        BY <1>1, <1>2, <1>3, <1>5, <2>2, ReqType, NoneIsNothing
           DEF Inv, Held, TypeOK, KeyHeld, Owning, Guarded, HasKey
    <2>4. Recorded'
        BY <1>1, <1>2, <1>3, <1>5, <2>2, ReqType, NoneIsNothing
           DEF Inv, Held, TypeOK, Recorded, Guarded, HasKey
    <2> QED
        BY <1>1, <1>4, <2>1, <2>3, <2>4 DEF Inv, Held, RoutesAgree, SameKey, HasKey, Blameless
<1>6. CASE UNCHANGED <<marker, record>>
    <2>1. TypeOK'
        BY <1>1, <1>3, <1>6 DEF Inv, TypeOK, Running, Owning, Answered
    <2>2. Held'
        BY <1>1, <1>3, <1>4, <1>6, <2>1, KeysAlone DEF Inv, TypeOK, Owning
    <2> QED
        BY <1>1, <2>1, <2>2 DEF Inv, Blameless
<1> QED
    BY <1>5, <1>6 DEF Drop

LEMMA CrashInv == ASSUME Inv, NEW p \in Pod, Crash(p) PROVE Inv'
<1>1. /\ pc' = [r \in Request |->
                  IF pc[r] \in Running /\ req[r].pod = p THEN "gone" ELSE pc[r]]
      /\ due' = [r \in Request |-> IF pc'[r] = "gone" THEN "error" ELSE due[r]]
      /\ rpc' = [r \in Request |->
                  IF pc'[r] = "gone" /\ rpc[r] # "sent" THEN "none" ELSE rpc[r]]
      /\ breaker' = [breaker EXCEPT ![p] = [n \in Route |-> "closed"]]
      /\ UNCHANGED <<faults, req, took, marker, record, lapsed>>
    BY DEF Crash
<1>2. \A r \in Request :
          /\ pc'[r] # pc[r] => pc'[r] = "gone" /\ pc[r] \in Running
          /\ pc[r] = "call" /\ pc'[r] # "call" => rpc'[r] \in {"sent", "none"}
    BY <1>1 DEF Inv, TypeOK
<1>3. TypeOK'
    BY <1>1 DEF Inv, TypeOK
<1>4. Calls'
    BY <1>1, <1>2 DEF Inv, Held, TypeOK, Calls, Guarded, HasKey, Running, Owning
<1>5. Held'
    BY <1>1, <1>2, <1>3, <1>4, KeysAlone DEF Owning
<1>6. Blameless'
    BY <1>1 DEF Inv, Blameless, TypeOK
<1> QED
    BY <1>3, <1>5, <1>6 DEF Inv

(* A breaker that is closed does not become half open. *)
LEMMA HalfOpenInv == ASSUME Inv, NEW p \in Pod, NEW n \in Route, HalfOpen(p, n) PROVE Inv'
<1>1. /\ breaker[p][n] = "open" /\ breaker' = [breaker EXCEPT ![p][n] = "halfOpen"]
      /\ UNCHANGED <<faults, pc, req, due, rpc, took, marker, record, lapsed>>
    BY DEF HalfOpen
<1>2. TypeOK'
    BY <1>1 DEF Inv, TypeOK
<1>3. Held'
    BY <1>1 DEF Inv, Held, RoutesAgree, SameKey, HasKey, Calls, Guarded, KeyHeld, Recorded
<1> QED
    BY <1>1, <1>2, <1>3 DEF Inv, Blameless

LEMMA ExpireMarkerInv == ASSUME Inv, NEW k \in Key, ExpireMarker(k) PROVE Inv'
<1>1. /\ marker' = [marker EXCEPT ![k] = None] /\ marker[k] \in Request
      /\ lapsed' = IF pc[marker[k]] \in Owning THEN lapsed \cup {k} ELSE lapsed
      /\ UNCHANGED <<faults, pc, req, due, rpc, took, record, breaker>>
    BY DEF ExpireMarker, Inv, TypeOK
<1>2. TypeOK'
    BY <1>1 DEF Inv, TypeOK
<1>3. Calls' /\ RoutesAgree'
    BY <1>1 DEF Inv, Held, Calls, Guarded, HasKey, RoutesAgree, SameKey
<1>4. KeyHeld'
    BY <1>1, ReqType DEF Inv, Held, TypeOK, KeyHeld, Guarded, HasKey
<1>5. Recorded'
    BY <1>1 DEF Inv, Held, Recorded, Guarded, HasKey
<1> QED
    BY <1>1, <1>2, <1>3, <1>4, <1>5 DEF Inv, Held, Blameless

LEMMA ExpireRecordInv == ASSUME Inv, NEW k \in Key, ExpireRecord(k) PROVE Inv'
<1>1. /\ record' = [record EXCEPT ![k] = None] /\ lapsed' = lapsed \cup {k}
      /\ UNCHANGED <<faults, pc, req, due, rpc, took, marker, breaker>>
    BY DEF ExpireRecord
<1>2. TypeOK'
    BY <1>1 DEF Inv, TypeOK
<1>3. Calls' /\ RoutesAgree'
    BY <1>1 DEF Inv, Held, Calls, Guarded, HasKey, RoutesAgree, SameKey
<1>4. KeyHeld' /\ Recorded'
    BY <1>1, ReqType DEF Inv, Held, TypeOK, KeyHeld, Recorded, Guarded, HasKey
<1> QED
    BY <1>1, <1>2, <1>3, <1>4 DEF Inv, Held, Blameless

LEMMA NextInv == Inv /\ [Next]_vars => Inv'
<1> SUFFICES ASSUME Inv, [Next]_vars PROVE Inv'
    OBVIOUS
<1>1. CASE UNCHANGED vars
    BY <1>1 DEF vars, Inv, TypeOK, Held, RoutesAgree, SameKey, HasKey, Calls, Guarded, KeyHeld,
                Recorded, Blameless
<1>2. CASE Done
    BY <1>1, <1>2 DEF Done
<1>3. ASSUME NEW r \in Request, Handle(r) PROVE Inv'
    BY <1>3, ClaimInv, LookInv, FireInv, ReplyInv, TimeoutInv, RecordInv, DropInv DEF Handle
<1> QED
    BY <1>1, <1>2, <1>3, ArriveInv, ServeInv, CrashInv, HalfOpenInv, ExpireMarkerInv, ExpireRecordInv
       DEF Next

LEMMA Invariance == Spec => []Inv
BY InitInv, NextInv, PTL DEF Spec

----------------------------------------------------------------------------

(* Every request is where its handler can be, and a key of Redis is a marker *)
(* or a response, never both.                                                *)
THEOREM TypeCorrect == Spec => []TypeOK
BY Invariance, PTL DEF Inv

(* Nobody frees or fills another request's key, whatever crashes, fails or   *)
(* comes late, unless Redis forgot the key under its holder.                 *)
THEOREM OwnersHoldTheirKey == Spec => []KeyHeld
BY Invariance, PTL DEF Inv, Held

(* A second request with the key acts only around an error or a lost key.    *)
THEOREM SecondActNeedsError == Spec => []OnceUnlessError
<1>1. Inv => OnceUnlessError
    <2> SUFFICES ASSUME Inv, NEW q \in Request, NEW r \in Request, SameKey(q, r), Guarded(r),
                        took[q], took[r], pc[q] \notin {"error", "gone"},
                        pc[r] \notin {"error", "gone"}, req[r].key \notin lapsed
                 PROVE  FALSE
        BY DEF OnceUnlessError
    <2>1. Guarded(q) /\ req[q].key = req[r].key /\ q # r /\ req[r].key \in Key
        BY ReqType DEF SameKey, Guarded, HasKey, Inv, Held, RoutesAgree
    <2>2. ASSUME NEW s \in {q, r}
          PROVE  \/ marker[req[r].key] = s
                 \/ record[req[r].key] = s
        BY <2>1, <2>2 DEF Inv, Held, Calls, KeyHeld, Recorded, Owning
    <2> QED
        BY <2>1, <2>2, NoneIsNothing DEF Inv, TypeOK
<1> QED
    BY <1>1, Invariance, PTL

(* Errors of clients and of Redis open no breaker. *)
THEOREM BreakersBlameServices == Spec => []OnlyServicesOpenBreakers
<1>1. Inv => OnlyServicesOpenBreakers
    BY DEF Inv, Blameless, OnlyServicesOpenBreakers
<1> QED
    BY <1>1, Invariance, PTL
=============================================================================
