----------------------------- MODULE GetOrSet -----------------------------
(***************************************************************************)
(* RedisService.getOrSet on one key: cache-aside reading with a Redis lock *)
(* against stampedes, called by any number of readers in any pods.  A      *)
(* caller starts at "get" and ends at "returned" or "threw".               *)
(*                                                                         *)
(* The source of truth is a version number, and a value is the version it  *)
(* was read at.  A cached null is a value like any other here: Redis holds *)
(* it as the text null, apart from a missing key.                          *)
(*                                                                         *)
(* `faults', fixed by the initial state, says what may go wrong: "redis"   *)
(* commands that throw, done or not; a "source" that cannot be read; "slow"*)
(* calls under the lock, which outlive it; a "crash" of a pod.             *)
(***************************************************************************)
EXTENDS Naturals

CONSTANTS
    Reader,      \* the calls of getOrSet
    None,
    FaultSets    \* the sets of faults to start with

FaultKinds == {"redis", "source", "slow", "crash"}

ASSUME NoneIsNoValue == None \notin Nat \cup Reader
ASSUME FaultsAreKnown == FaultSets \subseteq SUBSET FaultKinds

VARIABLES
    faults,
    source,      \* the version the data source has now
    cached,      \* the version under the key in Redis, or None
    lock,        \* <key>:lock
    pc,          \* where each reader is between two awaits
    got          \* the version each reader carries; None also for null

cacheVars == <<faults, source, cached, lock, pc, got>>

Holding == {"fetch", "store", "release", "releaseThrow"}
Reading == Holding \cup {"get", "lock", "wait", "returned"}

Goto(r, point) == pc' = [pc EXCEPT ![r] = point]
Return(r, v) == Goto(r, "returned") /\ got' = [got EXCEPT ![r] = v]
Throw(r) == "redis" \in faults /\ Goto(r, "threw")

----------------------------------------------------------------------------

Get(r) ==
    /\ pc[r] = "get"
    /\ \/ cached # None /\ Return(r, cached)
       \/ cached = None /\ Goto(r, "lock") /\ UNCHANGED got
       \/ Throw(r) /\ UNCHANGED got
    /\ UNCHANGED <<faults, source, cached, lock>>

(* SET NX EX; the mutant forgets NX. *)
TakeOver(r) == lock' = r
TakeIfFree(r) == lock = None /\ lock' = r

TryLock(r) ==
    /\ pc[r] = "lock"
    /\ \/ TakeIfFree(r) /\ (Goto(r, "fetch") \/ Throw(r))
       \/ lock # None /\ Goto(r, "wait") /\ UNCHANGED lock
       \/ Throw(r) /\ UNCHANGED lock
    /\ UNCHANGED <<faults, source, cached, got>>

(* An RPC to the user service, for roles, or a query, for a setting, answers *)
(* with what is there now, or throws, whatever it was that failed.           *)
Callback(r) ==
    \/ got' = [got EXCEPT ![r] = source] /\ Goto(r, "store")
    \/ "source" \in faults /\ Goto(r, "releaseThrow") /\ UNCHANGED got

Fetch(r) ==
    /\ pc[r] = "fetch"
    /\ Callback(r)
    /\ UNCHANGED <<faults, source, cached, lock>>

Store(r) ==
    /\ pc[r] = "store"
    /\ \/ cached' = got[r] /\ Goto(r, "release") /\ UNCHANGED got
       \/ /\ "redis" \in faults
          /\ cached' \in {cached, got[r]}
          /\ Goto(r, "releaseThrow")
          /\ got' = [got EXCEPT ![r] = None]
    /\ UNCHANGED <<faults, source, lock>>

(* The finally block: a failing delIfEqual is logged and changes nothing. *)
Release(r) ==
    /\ \/ pc[r] = "release" /\ Goto(r, "returned")
       \/ pc[r] = "releaseThrow" /\ Goto(r, "threw")
    /\ \/ lock' = IF lock = r THEN None ELSE lock
       \/ "redis" \in faults /\ UNCHANGED lock
    /\ UNCHANGED <<faults, source, cached, got>>

(* The loop that looks for the other reader's value every 100 ms.            *)
Poll(r) ==
    /\ pc[r] = "wait"
    /\ cached # None
    /\ Return(r, cached)
    /\ UNCHANGED <<faults, source, cached, lock>>

(* It lasts 80% of the lock's TTL, longer than a fetch as long as nothing    *)
(* goes wrong.  The mutant waits for ever.                                   *)
EndlessWait == FALSE
WaitOver == faults # {} \/ \A q \in Reader : pc[q] \notin Holding

(* The last look finds nothing, or fails, and the answer is null. *)
GiveUp(r) ==
    /\ pc[r] = "wait"
    /\ WaitOver
    /\ cached = None \/ "redis" \in faults
    /\ Return(r, None)
    /\ UNCHANGED <<faults, source, cached, lock>>

Read(r) ==
    Get(r) \/ TryLock(r) \/ Fetch(r) \/ Store(r) \/ Release(r) \/ Poll(r) \/ GiveUp(r)

----------------------------------------------------------------------------
(* Redis expires the lock, under its holder only when that is slow, and the  *)
(* value, whose hours outlast any reader's call unless Redis evicts it: one  *)
(* that was missing when a reader looked does not expire before it is done.  *)

ExpireLock ==
    /\ lock # None
    /\ "slow" \in faults \/ pc[lock] \notin Holding
    /\ lock' = None
    /\ UNCHANGED <<faults, source, cached, pc, got>>

ExpireCached ==
    /\ cached # None
    /\ "redis" \in faults \/ \A r \in Reader : pc[r] \notin Holding \cup {"lock", "wait"}
    /\ cached' = None
    /\ UNCHANGED <<faults, source, lock, pc, got>>

----------------------------------------------------------------------------
(* The lock against stampedes: while it outlasts its holder, one reader at a *)
(* time asks the source and writes the cache, whatever crashes and whichever *)
(* replies are lost.                                                         *)
SingleFlight ==
    "slow" \notin faults =>
        \A q, r \in Reader : pc[q] \in Holding /\ pc[r] \in Holding => q = r
=============================================================================
