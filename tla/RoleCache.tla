----------------------------- MODULE RoleCache -----------------------------
(***************************************************************************)
(* RoleCacheService: the roles of one user (or of one permission, which    *)
(* the code treats alike) behind a memory cache per pod, the shared cache  *)
(* in Redis and the data source, with invalidation after a change.         *)
(*                                                                         *)
(* No operation uses two keys.  Another key matters only to the LRU of a   *)
(* pod, which may push this key out: the same as an early expiry.          *)
(***************************************************************************)
EXTENDS GetOrSet

CONSTANTS
    Pod,
    PodOf,       \* the pod each reader runs in
    Writer,      \* changes of the roles
    Empty        \* the answer []: no roles

ASSUME ReadersHavePods == PodOf \in [Reader -> Pod]
ASSUME EmptyIsNoVersion == Empty # None /\ Empty \notin Nat

VARIABLES
    l1,          \* l1[p]: the roles in the memory of pod p, or None
    cpc,         \* where each change is
    changed,     \* the version each change made
    overtaken    \* history: versions a reader was about to store at a DEL

ownRoleVars == <<l1, cpc, changed, overtaken>>
roleVars == <<cacheVars, ownRoleVars>>

RolesEnded == {"ok", "threw", "crashed"}

RolesTypeOK ==
    /\ faults \subseteq FaultKinds
    /\ source \in Nat
    /\ cached \in Nat \cup {None}
    /\ lock \in Reader \cup {None}
    /\ pc \in [Reader -> Reading \cup RolesEnded \cup {"idle"}]
    /\ got \in [Reader -> Nat \cup {None, Empty}]
    /\ \A r \in Reader : pc[r] = "store" => got[r] \in Nat
    /\ \A r \in Reader : pc[r] = "ok" => got[r] # None
    /\ l1 \in [Pod -> Nat \cup {None, Empty}]
    /\ cpc \in [Writer -> {"idle", "local", "shared", "done", "failed"}]
    /\ changed \in [Writer -> Nat]
    /\ overtaken \subseteq Nat

RolesInit ==
    /\ faults \in FaultSets
    /\ source = 0 /\ cached = None /\ lock = None
    /\ pc = [r \in Reader |-> "idle"]
    /\ got = [r \in Reader |-> None]
    /\ l1 = [p \in Pod |-> None]
    /\ cpc = [w \in Writer |-> "idle"]
    /\ changed = [w \in Writer |-> 0]
    /\ overtaken = {}

----------------------------------------------------------------------------
(* getUserGlobalRoles, getRolesForPermission *)

LookUp(r) ==
    /\ pc[r] = "idle"
    /\ IF l1[PodOf[r]] # None
       THEN Goto(r, "ok") /\ got' = [got EXCEPT ![r] = l1[PodOf[r]]]
       ELSE Goto(r, "get") /\ UNCHANGED got
    /\ UNCHANGED <<faults, source, cached, lock, l1, cpc, changed, overtaken>>

(* "Default to empty array if nothing found". *)
Roles(v) == IF v = None THEN Empty ELSE v

Finish(r) ==
    /\ pc[r] = "returned"
    /\ Goto(r, "ok")
    /\ got' = [got EXCEPT ![r] = Roles(got[r])]
    /\ l1' = [l1 EXCEPT ![PodOf[r]] = Roles(got[r])]
    /\ UNCHANGED <<faults, source, cached, lock, cpc, changed, overtaken>>

(* Ten seconds are over, or the LRU makes room. *)
DropL1(p) ==
    /\ l1[p] # None
    /\ l1' = [l1 EXCEPT ![p] = None]
    /\ UNCHANGED <<cacheVars, cpc, changed, overtaken>>

----------------------------------------------------------------------------
(* invalidateUserRoles, invalidatePermissionRoles, called after a change *)

Change(w) ==
    /\ cpc[w] = "idle"
    /\ source' = source + 1
    /\ changed' = [changed EXCEPT ![w] = source + 1]
    /\ cpc' = [cpc EXCEPT ![w] = "local"]
    /\ UNCHANGED <<faults, cached, lock, pc, got, l1, overtaken>>

ClearLocal(w, p) ==
    /\ cpc[w] = "local"
    /\ l1' = [l1 EXCEPT ![p] = None]
    /\ cpc' = [cpc EXCEPT ![w] = "shared"]
    /\ UNCHANGED <<cacheVars, changed, overtaken>>

(* DEL in Redis; the mutant leaves the shared cache to its TTL. *)
LeaveShared == UNCHANGED cached
DelShared == cached' = None

ClearShared(w) ==
    /\ cpc[w] = "shared"
    /\ \/ DelShared /\ cpc' = [cpc EXCEPT ![w] = "done"]
       \/ /\ "redis" \in faults
          /\ DelShared \/ UNCHANGED cached
          /\ cpc' = [cpc EXCEPT ![w] = "failed"]
    /\ overtaken' = overtaken \cup {got[r] : r \in {q \in Reader : pc[q] = "store"}}
    /\ UNCHANGED <<faults, source, lock, pc, got, l1, changed>>

----------------------------------------------------------------------------

Crash(p) ==
    /\ "crash" \in faults
    /\ LET Lost == {r \in Reader : PodOf[r] = p /\ pc[r] \in Reading} IN
          /\ pc' = [r \in Reader |-> IF r \in Lost THEN "crashed" ELSE pc[r]]
          /\ got' = [r \in Reader |-> IF r \in Lost THEN None ELSE got[r]]
    /\ l1' = [l1 EXCEPT ![p] = None]
    /\ UNCHANGED <<faults, source, cached, lock, cpc, changed, overtaken>>

(* The pod that makes a change dies before it has invalidated. *)
Abandon(w) ==
    /\ "crash" \in faults
    /\ cpc[w] \in {"local", "shared"}
    /\ cpc' = [cpc EXCEPT ![w] = "failed"]
    /\ UNCHANGED <<cacheVars, l1, changed, overtaken>>

RolesServed ==
    /\ \A r \in Reader : pc[r] \in RolesEnded
    /\ \A w \in Writer : cpc[w] \in {"done", "failed"}
    /\ UNCHANGED roleVars

(* getUserGlobalRoles; getRolesForPermission is its twin, step by step, with  *)
(* another key and a longer TTL.                                             *)
ServeRoles(r) == (Read(r) /\ UNCHANGED ownRoleVars) \/ Finish(r)

RolesNext ==
    \/ \E r \in Reader : LookUp(r) \/ ServeRoles(r)
    \/ \E w \in Writer :
          Change(w) \/ ClearShared(w) \/ Abandon(w) \/ \E p \in Pod : ClearLocal(w, p)
    \/ \E p \in Pod : DropL1(p) \/ Crash(p)
    \/ (ExpireLock \/ ExpireCached) /\ UNCHANGED ownRoleVars
    \/ RolesServed

RolesSpec == RolesInit /\ [][RolesNext]_roleVars

(* Every await of a reader whose pod lives is answered or times out. *)
FairRolesSpec == RolesSpec /\ \A r \in Reader : WF_roleVars(ServeRoles(r))

----------------------------------------------------------------------------
(* Properties *)

(* Change w is newer than version v and has not been seen through.           *)
Pending(w, v) == cpc[w] \in {"local", "shared", "failed"} /\ v < changed[w]

(* Redis holds outdated roles only between a change and the end of its       *)
(* invalidation, or when that failed, or when a reader that had asked the    *)
(* source before the change stored its answer after the DEL.  Nothing else,  *)
(* no lost reply, expired lock or second change, makes the hour-long cache   *)
(* outdated.                                                                 *)
StaleOnlyByRace ==
    cached # None /\ cached < source =>
        cached \in overtaken \/ \E w \in Writer : Pending(w, cached)

(* Every reader gets an answer or an exception, whoever crashes under the    *)
(* lock or loses the reply to taking it.                                     *)
EveryReadEnds == \A r \in Reader : pc[r] \in Reading ~> pc[r] \in RolesEnded

(* "after a permission change, there will be a 10-second delay in the worst  *)
(* case": once all changes are invalidated, what outlives the ten seconds of *)
(* the memory caches is up to date.                                          *)
DelayIsL1Only ==
    faults = {} /\ (\A w \in Writer : cpc[w] \in {"idle", "done"}) =>
        cached \in {source, None}
=============================================================================
