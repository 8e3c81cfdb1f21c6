--------------------------- MODULE AuthSession ---------------------------
(***************************************************************************)
(* The sessions of one user as apps/oceanchat-auth keeps them: a Redis     *)
(* hash from device to token pair, a Redis lock per device taken by a      *)
(* refresh, and any number of auth pods running login, logout and          *)
(* refreshToken, each interleaved at every await.                          *)
(*                                                                         *)
(* No operation reads or writes the keys of two users, so one user is the  *)
(* general case.  A call of generateTokens makes two fresh uuids; the pair *)
(* is named by the request that made it.  A Redis command that throws      *)
(* (commandTimeout 2s, connection lost) may or may not have taken effect.  *)
(***************************************************************************)
EXTENDS Naturals

CONSTANTS
    Device,       \* the device ids of the user
    Request,      \* the RPC requests the auth service receives
    None,         \* no pair, no holder, no token
    SlowHolders   \* may the 10s lock run out under a refresh still running?

ASSUME NoneIsNoRequest == None \notin Request
ASSUME SlowHoldersIsBoolean == SlowHolders \in BOOLEAN

VARIABLES
    session,     \* the hash at the user key: device -> stored pair or None
    lock,        \* auth:refresh:lock:<user>:<device>: holder or None
    pc,          \* where each request is between two awaits
    dev,         \* the device each request is about
    presented,   \* the refresh token each refresh was called with
    stored,      \* history: the pairs whose MULTI Redis has executed
    revoked,     \* the auth.jwt.revoke events given to the publisher
    gone         \* history: how each device's session was last removed

sessionVars == <<session, gone>>
vars == <<session, lock, pc, dev, presented, stored, revoked, gone>>

----------------------------------------------------------------------------
(* Control points.  A refresh is critical from the moment it knows it has  *)
(* the lock to the moment it has tried to give it back.                    *)

Critical == {"refresh.read", "refresh.sweep", "refresh.wipe", "refresh.user",
             "refresh.store", "refresh.revoke", "refresh.releaseOk",
             "refresh.releaseFailed"}
Running == Critical \cup {"login.store", "refresh.lock", "logout.read", "logout.remove"}
Ended == {"ok", "failed", "crashed"}
Reasons == {"logout", "replay", "rotation"}

(* The pairs a client has been sent: only these can be presented. *)
Issued == {t \in stored : pc[t] = "ok"}

(* The pairs in the hash now. *)
Live == {session[d] : d \in Device} \ {None}

TypeOK ==
    /\ session \in [Device -> Request \cup {None}]
    /\ lock \in [Device -> Request \cup {None}]
    /\ pc \in [Request -> Running \cup Ended \cup {"idle"}]
    /\ dev \in [Request -> Device \cup {None}]
    /\ \A r \in Request : pc[r] # "idle" => dev[r] \in Device
    /\ presented \in [Request -> Request \cup {None}]
    /\ stored \subseteq Request
    /\ revoked \subseteq Request \X Reasons
    /\ gone \in [Device -> {"live", "never", "logout", "replay", "family", "expired"}]

(* Redis starts empty. *)
Init ==
    /\ session = [d \in Device |-> None]
    /\ lock = [d \in Device |-> None]
    /\ pc = [r \in Request |-> "idle"]
    /\ dev = [r \in Request |-> None]
    /\ presented = [r \in Request |-> None]
    /\ stored = {}
    /\ revoked = {}
    /\ gone = [d \in Device |-> "never"]

Goto(r, point) == pc' = [pc EXCEPT ![r] = point]

----------------------------------------------------------------------------
(* Redis commands. *)

(* SET key value EX 10 NX; the mutant forgets NX. *)
SetOverwrites(d, r) == lock' = [lock EXCEPT ![d] = r]
SetIfAbsent(d, r) ==
    /\ lock[d] = None
    /\ lock' = [lock EXCEPT ![d] = r]

(* The delIfEqual script; the mutant is a plain DEL. *)
DelAlways(d, r) == lock' = [lock EXCEPT ![d] = None]
DelIfEqual(d, r) == lock' = IF lock[d] = r THEN [lock EXCEPT ![d] = None] ELSE lock

(* generateTokens: MULTI HSET EXPIRE EXEC with the pair r. *)
HsetPair(r) ==
    /\ session' = [session EXCEPT ![dev[r]] = r]
    /\ stored' = stored \cup {r}
    /\ gone' = [gone EXCEPT ![dev[r]] = "live"]

(* HDEL of one device, DEL of the whole key. *)
HdelDevice(d) ==
    /\ session' = [session EXCEPT ![d] = None]
    /\ gone' = [gone EXCEPT ![d] = IF session[d] = None THEN @ ELSE "logout"]
DelFamily(own) ==
    /\ session' = [d \in Device |-> None]
    /\ gone' = [d \in Device |-> IF d = own THEN "replay"
                                 ELSE IF session[d] = None THEN gone[d] ELSE "family"]

(* The stored pair of a device, if it has one; the mutant does not test it. *)
PairUntested(d) == {session[d]}
PairOf(d) == {session[d]} \ {None}

(* publishSafe of auth.jwt.revoke for the access token of each pair, not     *)
(* awaited.                                                                  *)
Publish(pairs, reason) == revoked' = revoked \cup (pairs \X {reason})

----------------------------------------------------------------------------
(* login: LocalAuthGuard has accepted the password. *)

Login(r, d) ==
    /\ pc[r] = "idle"
    /\ Goto(r, "login.store")
    /\ dev' = [dev EXCEPT ![r] = d]
    /\ UNCHANGED <<session, lock, presented, stored, revoked, gone>>

LoginStore(r) ==
    /\ pc[r] = "login.store"
    /\ \/ /\ HsetPair(r)
          /\ Goto(r, "ok") \/ Goto(r, "failed")
       \/ /\ Goto(r, "failed")
          /\ UNCHANGED <<session, stored, gone>>
    /\ UNCHANGED <<lock, dev, presented, revoked>>

----------------------------------------------------------------------------
(* logout: looks the session up to revoke its access token, whatever comes *)
(* of that, then removes it.  It takes no lock.                            *)

(* The gateway takes the device from an access token it has verified. *)
Logout(r, d) ==
    /\ pc[r] = "idle"
    /\ \E t \in Issued : dev[t] = d
    /\ Goto(r, "logout.read")
    /\ dev' = [dev EXCEPT ![r] = d]
    /\ UNCHANGED <<session, lock, presented, stored, revoked, gone>>

LogoutRead(r) ==
    /\ pc[r] = "logout.read"
    /\ Goto(r, "logout.remove")
    /\ Publish(PairOf(dev[r]), "logout") \/ UNCHANGED revoked
    /\ UNCHANGED <<session, lock, dev, presented, stored, gone>>

LogoutRemove(r) ==
    /\ pc[r] = "logout.remove"
    /\ \/ /\ HdelDevice(dev[r])
          /\ Goto(r, "ok") \/ Goto(r, "failed")
       \/ /\ Goto(r, "failed")
          /\ UNCHANGED sessionVars
    /\ UNCHANGED <<lock, dev, presented, stored, revoked>>

----------------------------------------------------------------------------
(* refreshToken *)

(* The token's signature and expiry are verified; its claims name the device. *)
Refresh(r, t) ==
    /\ pc[r] = "idle"
    /\ t \in Issued
    /\ Goto(r, "refresh.lock") \/ Goto(r, "failed")
    /\ dev' = [dev EXCEPT ![r] = dev[t]]
    /\ presented' = [presented EXCEPT ![r] = t]
    /\ UNCHANGED <<session, lock, stored, revoked, gone>>

(* The lock is taken, or taken without the reply arriving; or it is held by *)
(* another request, or the command never reached Redis.                     *)
RefreshLock(r) ==
    /\ pc[r] = "refresh.lock"
    /\ \/ /\ SetIfAbsent(dev[r], r)
          /\ Goto(r, "refresh.read") \/ Goto(r, "failed")
       \/ /\ Goto(r, "failed")
          /\ UNCHANGED lock
    /\ UNCHANGED <<session, dev, presented, stored, revoked, gone>>

(* HGET: no session, the presented pair, or another pair (a replay). *)
AfterRead(stored_pair, token) ==
    IF stored_pair = None THEN "refresh.releaseFailed"
    ELSE IF stored_pair = token THEN "refresh.user" ELSE "refresh.sweep"

RefreshRead(r) ==
    /\ pc[r] = "refresh.read"
    /\ \/ Goto(r, AfterRead(session[dev[r]], presented[r]))
       \/ Goto(r, "refresh.releaseFailed")
    /\ UNCHANGED <<session, lock, dev, presented, stored, revoked, gone>>

(* HGETALL, and a revocation for every session found in it. *)
RefreshSweep(r) ==
    /\ pc[r] = "refresh.sweep"
    /\ \/ /\ Publish(Live, "replay")
          /\ Goto(r, "refresh.wipe")
       \/ /\ Goto(r, "refresh.releaseFailed")
          /\ UNCHANGED revoked
    /\ UNCHANGED <<session, lock, dev, presented, stored, gone>>

RefreshWipe(r) ==
    /\ pc[r] = "refresh.wipe"
    /\ DelFamily(dev[r]) \/ UNCHANGED sessionVars
    /\ Goto(r, "refresh.releaseFailed")
    /\ UNCHANGED <<lock, dev, presented, stored, revoked>>

(* findOneById: a user, or null, a timeout or an error. *)
RefreshFindUser(r) ==
    /\ pc[r] = "refresh.user"
    /\ Goto(r, "refresh.store") \/ Goto(r, "refresh.releaseFailed")
    /\ UNCHANGED <<session, lock, dev, presented, stored, revoked, gone>>

RefreshStore(r) ==
    /\ pc[r] = "refresh.store"
    /\ \/ /\ HsetPair(r)
          /\ Goto(r, "refresh.revoke") \/ Goto(r, "refresh.releaseFailed")
       \/ /\ Goto(r, "refresh.releaseFailed")
          /\ UNCHANGED <<session, stored, gone>>
    /\ UNCHANGED <<lock, dev, presented, revoked>>

(* The pair whose access token the rotation revokes: the one read from the   *)
(* hash, which is the one presented.  The mutant revokes the new one.        *)
NewPair(r) == r
OldPair(r) == presented[r]

RefreshRevoke(r) ==
    /\ pc[r] = "refresh.revoke"
    /\ Publish({OldPair(r)}, "rotation")
    /\ Goto(r, "refresh.releaseOk")
    /\ UNCHANGED <<session, lock, dev, presented, stored, gone>>

(* The finally block: a failure of delIfEqual is logged and changes nothing. *)
RefreshRelease(r) ==
    /\ \/ pc[r] = "refresh.releaseOk" /\ Goto(r, "ok")
       \/ pc[r] = "refresh.releaseFailed" /\ Goto(r, "failed")
    /\ DelIfEqual(dev[r], r) \/ UNCHANGED lock
    /\ UNCHANGED <<session, dev, presented, stored, revoked, gone>>

----------------------------------------------------------------------------
(* The environment: TTLs run out, pods crash. *)

(* With SlowHolders FALSE the 10s outlast every refresh that is running.     *)
(* The mutant takes the lock without a TTL.                                 *)
LockWithoutTtl(d) == lock[d] # None /\ UNCHANGED vars
ExpireLock(d) ==
    /\ lock[d] # None
    /\ SlowHolders \/ pc[lock[d]] \notin Critical
    /\ lock' = [lock EXCEPT ![d] = None]
    /\ UNCHANGED <<session, pc, dev, presented, stored, revoked, gone>>

(* The TTL that generateTokens puts on the whole hash. *)
ExpireSessions ==
    /\ Live # {}
    /\ session' = [d \in Device |-> None]
    /\ gone' = [d \in Device |-> IF session[d] = None THEN gone[d] ELSE "expired"]
    /\ UNCHANGED <<lock, pc, dev, presented, stored, revoked>>

Crash(r) ==
    /\ pc[r] \in Running
    /\ Goto(r, "crashed")
    /\ UNCHANGED <<session, lock, dev, presented, stored, revoked, gone>>

(* Every request of the instance was served and every lock is free. *)
Served ==
    /\ \A r \in Request : pc[r] \in Ended
    /\ \A d \in Device : lock[d] = None
    /\ Live = {}
    /\ UNCHANGED vars

(* One step of the handler that serves r. *)
Serve(r) ==
    \/ LoginStore(r) \/ LogoutRead(r) \/ LogoutRemove(r)
    \/ RefreshLock(r) \/ RefreshRead(r) \/ RefreshSweep(r) \/ RefreshWipe(r)
    \/ RefreshFindUser(r) \/ RefreshStore(r) \/ RefreshRevoke(r) \/ RefreshRelease(r)

Next ==
    \/ \E r \in Request :
          \/ \E d \in Device : Login(r, d) \/ Logout(r, d)
          \/ \E t \in Request : Refresh(r, t)
          \/ Serve(r)
          \/ Crash(r)
    \/ \E d \in Device : ExpireLock(d)
    \/ ExpireSessions
    \/ Served

Spec == Init /\ [][Next]_vars

(* A pod keeps running the requests it accepted, and Redis expires keys. *)
FairSpec ==
    /\ Spec
    /\ \A r \in Request : WF_vars(Serve(r))
    /\ \A d \in Device : WF_vars(ExpireLock(d))

----------------------------------------------------------------------------
(* Properties *)

(* A refresh token is exchanged at most once, however many refreshes present *)
(* it at the same time and wherever they fail (the lock of refreshToken and  *)
(* its comparison with the stored refreshJti).                               *)
RefreshTokenSingleUse ==
    \A q, r \in stored : presented[q] # None /\ presented[q] = presented[r] => q = r

(* The access token a rotation revokes is never the one the hash holds: the  *)
(* new pair is stored before the old one is revoked, and no later login,     *)
(* refresh or failure brings the old pair back.                              *)
RotationRevokesOnlyDead ==
    \A t \in Request : <<t, "rotation">> \in revoked => t \notin Live

LoginRestores(d) == \E r \in Request : pc[r] = "login.store" /\ session'[d] = r

Replaced(d) == session[d] # None /\ session'[d] \notin {None, session[d]}

(* The pair that a refresh has put in the hash gives way to another one only *)
(* when it is exchanged itself or its user logs in again: a refresh that     *)
(* read an older pair, and still stores, does not overwrite it, so that its  *)
(* owner's next refresh is not taken for a replay.                           *)
RotationKept ==
    [][\A d \in Device :
          Replaced(d) /\ presented[session[d]] # None
              => LoginRestores(d) \/ presented[session'[d]] = session[d]]_vars

(* The same of every pair, those of logins included, which take no lock.     *)
SessionKept ==
    [][\A d \in Device :
          Replaced(d) => LoginRestores(d) \/ presented[session'[d]] = session[d]]_vars

(* After a replayed token has wiped the family, the device it was replayed   *)
(* on gets a session back by a login only: no refresh that was under way on  *)
(* that device can store its pair, because the replaying refresh held the    *)
(* device's lock.                                                            *)
ReplayedDeviceStaysOut ==
    [][\A d \in Device :
          gone[d] = "replay" /\ session'[d] # None => LoginRestores(d)]_vars

(* The documented promise of logout and of family revocation: a session they *)
(* removed comes back by a login only.                                       *)
RemovalIsFinal ==
    [][\A d \in Device :
          gone[d] \in {"logout", "replay", "family"} /\ session'[d] # None
              => LoginRestores(d)]_vars

(* A lock leaves its holder by the holder's own release or by its TTL, never *)
(* by the release of another refresh, whose own lock ran out before.         *)
LockReleasedByOwner ==
    [][\A d \in Device, r \in Request :
          lock[d] = r /\ lock'[d] # r => RefreshRelease(r) \/ ExpireLock(d)]_vars

(* A device's refresh lock does not stay with one request: the finally block *)
(* gives it back, or its TTL runs out when the holder crashed, lost the      *)
(* reply to its SET NX, or failed to release.                                *)
LockFreed ==
    \A d \in Device, r \in Request : lock[d] = r ~> lock[d] # r

(* Rotation implements the registry of single-use tokens. *)
Registry == INSTANCE RefreshTokenRegistry WITH
    Token <- Request,
    issued <- stored,
    exchanged <- {<<presented[r], r>> : r \in {q \in stored : presented[q] # None}}

ImplementsRegistry == Registry!RegistrySpec
=============================================================================
