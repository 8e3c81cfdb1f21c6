------------------------- MODULE AuthSessionProofs -------------------------
(***************************************************************************)
(* For any devices and any requests: what the session store and the        *)
(* refresh lock guarantee, and that rotation implements the registry of    *)
(* single-use tokens when the lock's TTL outlasts the refresh.             *)
(***************************************************************************)
EXTENDS AuthSession, TLAPS

(* A request that may still store its pair has not stored it, and only a     *)
(* refresh has presented a token.                                            *)
Fresh == {"idle", "login.store", "refresh.lock", "refresh.read", "refresh.sweep",
          "refresh.wipe", "refresh.user", "refresh.store", "logout.read", "logout.remove"}

FreshNotStored == \A r \in Request : pc[r] \in Fresh => r \notin stored

RefreshPresents ==
    \A r \in Request :
        /\ pc[r] \in {"idle", "login.store", "logout.read", "logout.remove"}
              => presented[r] = None
        /\ pc[r] \in Critical \cup {"refresh.lock"} => presented[r] # None
        /\ presented[r] # None => presented[r] \in stored /\ dev[r] = dev[presented[r]]

(* The pair in the hash was stored there by a request of that device. *)
SessionOwned ==
    \A d \in Device : session[d] # None => session[d] \in stored /\ dev[session[d]] = d

(* A pair that was exchanged has left the hash. *)
ExchangedDead ==
    \A r \in stored, d \in Device : presented[r] # None => session[d] # presented[r]

RevokeHasStored ==
    /\ \A r \in Request : pc[r] \in {"refresh.revoke", "refresh.releaseOk"} => r \in stored
    /\ \A t \in Request : <<t, "rotation">> \in revoked =>
          \E r \in stored : presented[r] = t

StoreInv == TypeOK /\ FreshNotStored /\ RefreshPresents /\ SessionOwned
            /\ ExchangedDead /\ RevokeHasStored

----------------------------------------------------------------------------

LEMMA InitStoreInv == Init => StoreInv
BY NoneIsNoRequest
   DEF Init, StoreInv, TypeOK, FreshNotStored, RefreshPresents, SessionOwned,
       ExchangedDead, RevokeHasStored, Fresh, Critical, Running, Ended, Live

LEMMA NextStoreInv == StoreInv /\ [Next]_vars => StoreInv'
<1> USE NoneIsNoRequest
    DEF Critical, Running, Ended, Reasons, Fresh, Goto
<1> SUFFICES ASSUME StoreInv, [Next]_vars PROVE StoreInv'
    OBVIOUS
<1> USE DEF StoreInv, TypeOK, FreshNotStored, RefreshPresents, SessionOwned,
            ExchangedDead, RevokeHasStored
<1>1. ASSUME NEW r \in Request, NEW d \in Device, Login(r, d) PROVE StoreInv'
    BY <1>1 DEF Login
<1>2. ASSUME NEW r \in Request, NEW d \in Device, Logout(r, d) PROVE StoreInv'
    BY <1>2 DEF Logout
<1>3. ASSUME NEW r \in Request, NEW t \in Request, Refresh(r, t) PROVE StoreInv'
    BY <1>3 DEF Refresh, Issued
<1>4. ASSUME NEW r \in Request, LoginStore(r) PROVE StoreInv'
    BY <1>4 DEF LoginStore, HsetPair
<1>5. ASSUME NEW r \in Request, LogoutRead(r) PROVE StoreInv'
    BY <1>5 DEF LogoutRead, Publish, PairOf
<1>6. ASSUME NEW r \in Request, LogoutRemove(r) PROVE StoreInv'
    BY <1>6 DEF LogoutRemove, HdelDevice, sessionVars
<1>7. ASSUME NEW r \in Request, RefreshLock(r) PROVE StoreInv'
    BY <1>7 DEF RefreshLock, SetIfAbsent
<1>8. ASSUME NEW r \in Request, RefreshRead(r) PROVE StoreInv'
    BY <1>8 DEF RefreshRead, AfterRead
<1>9. ASSUME NEW r \in Request, RefreshSweep(r) PROVE StoreInv'
    BY <1>9 DEF RefreshSweep, Publish, Live
<1>10. ASSUME NEW r \in Request, RefreshWipe(r) PROVE StoreInv'
    BY <1>10 DEF RefreshWipe, DelFamily, sessionVars
<1>11. ASSUME NEW r \in Request, RefreshFindUser(r) PROVE StoreInv'
    BY <1>11 DEF RefreshFindUser
<1>12. ASSUME NEW r \in Request, RefreshStore(r) PROVE StoreInv'
    BY <1>12 DEF RefreshStore, HsetPair
<1>13. ASSUME NEW r \in Request, RefreshRevoke(r) PROVE StoreInv'
    BY <1>13 DEF RefreshRevoke, Publish, OldPair
<1>14. ASSUME NEW r \in Request, RefreshRelease(r) PROVE StoreInv'
    BY <1>14 DEF RefreshRelease, DelIfEqual
<1>15. ASSUME NEW d \in Device, ExpireLock(d) PROVE StoreInv'
    BY <1>15 DEF ExpireLock
<1>16. CASE ExpireSessions
    BY <1>16 DEF ExpireSessions
<1>17. ASSUME NEW r \in Request, Crash(r) PROVE StoreInv'
    BY <1>17 DEF Crash
<1>18. CASE UNCHANGED vars
    BY <1>18 DEF vars
<1>19. QED
    BY <1>1, <1>2, <1>3, <1>4, <1>5, <1>6, <1>7, <1>8, <1>9, <1>10, <1>11, <1>12,
       <1>13, <1>14, <1>15, <1>16, <1>17, <1>18 DEF Next, Serve, Served

LEMMA StoreInvariant == Spec => []StoreInv
BY InitStoreInv, NextStoreInv, PTL DEF Spec

(* Every variable keeps its type, whatever fails and whatever expires. *)
THEOREM TypeCorrect == Spec => []TypeOK
BY StoreInvariant, PTL DEF StoreInv

(* Rotation never revokes the access token that the hash still serves, even  *)
(* when the lock runs out under its holder.                                  *)
THEOREM RotationSafe == Spec => []RotationRevokesOnlyDead
<1>1. StoreInv => RotationRevokesOnlyDead
    BY DEF StoreInv, TypeOK, RevokeHasStored, ExchangedDead, RotationRevokesOnlyDead, Live
<1>2. QED
    BY <1>1, StoreInvariant, PTL

(* A lock changes hands only through its owner or its TTL. *)
THEOREM LockOwnership == Spec => LockReleasedByOwner
<1>1. StoreInv /\ [Next]_vars =>
        [\A d \in Device, r \in Request :
            lock[d] = r /\ lock'[d] # r => RefreshRelease(r) \/ ExpireLock(d)]_vars
    <2> SUFFICES ASSUME StoreInv, Next, NEW d \in Device, NEW r \in Request,
                        lock[d] = r, lock'[d] # r
                 PROVE  RefreshRelease(r) \/ ExpireLock(d)
        OBVIOUS
    <2> USE NoneIsNoRequest DEF StoreInv, TypeOK
    <2>1. ASSUME NEW q \in Request, RefreshLock(q) PROVE FALSE
        BY <2>1 DEF RefreshLock, SetIfAbsent
    <2>2. ASSUME NEW q \in Request, RefreshRelease(q) PROVE q = r
        BY <2>2 DEF RefreshRelease, DelIfEqual, Critical
    <2>3. ASSUME NEW e \in Device, ExpireLock(e) PROVE e = d
        BY <2>3 DEF ExpireLock
    <2>4. lock' # lock
        OBVIOUS
    <2>5. QED
        BY <2>1, <2>2, <2>3, <2>4
           DEF Next, Serve, Login, Logout, Refresh, LoginStore, LogoutRead, LogoutRemove,
               RefreshRead, RefreshSweep, RefreshWipe, RefreshFindUser, RefreshStore,
               RefreshRevoke, ExpireSessions, Crash, Served, vars
<1>2. QED
    BY <1>1, StoreInvariant, PTL DEF Spec, LockReleasedByOwner

----------------------------------------------------------------------------
(* From here on the lock's TTL outlasts every refresh that is running. *)

(* Every critical refresh holds the lock of its device. *)
CriticalHoldsLock ==
    \A r \in Request : pc[r] \in Critical => lock[dev[r]] = r

(* A refresh that has matched its token is the first to exchange it. *)
MatchedIsUnspent ==
    \A r \in Request : pc[r] \in {"refresh.user", "refresh.store"} =>
        \A q \in stored : presented[q] # presented[r]

(* On a device a replay has closed there is no session and no refresh that   *)
(* could store one.                                                          *)
ReplayQuiet ==
    \A d \in Device : gone[d] = "replay" =>
        /\ session[d] = None
        /\ \A r \in Request :
              dev[r] = d => pc[r] \notin {"refresh.user", "refresh.store"}

(* While a refresh is between its read and its store, nothing but a removal  *)
(* or a login has changed what it read.                                      *)
MatchedIsCurrent ==
    \A r \in Request : pc[r] \in {"refresh.user", "refresh.store"} =>
        \/ session[dev[r]] \in {None, presented[r]}
        \/ presented[session[dev[r]]] = None

LockInv == CriticalHoldsLock /\ MatchedIsUnspent /\ MatchedIsCurrent /\ ReplayQuiet

LEMMA InitLockInv == Init => LockInv
BY DEF Init, LockInv, CriticalHoldsLock, MatchedIsUnspent, MatchedIsCurrent,
       ReplayQuiet, Critical

LEMMA NextLockInv ==
    ASSUME ~SlowHolders
    PROVE  StoreInv /\ LockInv /\ [Next]_vars => LockInv'
<1> USE NoneIsNoRequest DEF Critical, Running, Ended, Fresh, Goto
<1> SUFFICES ASSUME StoreInv, LockInv, [Next]_vars PROVE LockInv'
    OBVIOUS
<1> USE DEF StoreInv, TypeOK, FreshNotStored, RefreshPresents, SessionOwned,
            ExchangedDead, LockInv, CriticalHoldsLock, MatchedIsUnspent,
            MatchedIsCurrent, ReplayQuiet
<1>1. ASSUME NEW r \in Request, NEW d \in Device, Login(r, d) PROVE LockInv'
    BY <1>1 DEF Login
<1>2. ASSUME NEW r \in Request, NEW d \in Device, Logout(r, d) PROVE LockInv'
    BY <1>2 DEF Logout
<1>3. ASSUME NEW r \in Request, NEW t \in Request, Refresh(r, t) PROVE LockInv'
    BY <1>3 DEF Refresh, Issued
<1>4. ASSUME NEW r \in Request, LoginStore(r) PROVE LockInv'
    BY <1>4 DEF LoginStore, HsetPair
<1>5. ASSUME NEW r \in Request, LogoutRead(r) PROVE LockInv'
    BY <1>5 DEF LogoutRead, Publish, PairOf
<1>6. ASSUME NEW r \in Request, LogoutRemove(r) PROVE LockInv'
    BY <1>6 DEF LogoutRemove, HdelDevice, sessionVars
<1>7. ASSUME NEW r \in Request, RefreshLock(r) PROVE LockInv'
    BY <1>7 DEF RefreshLock, SetIfAbsent
<1>8. ASSUME NEW r \in Request, RefreshRead(r) PROVE LockInv'
    BY <1>8 DEF RefreshRead, AfterRead
<1>9. ASSUME NEW r \in Request, RefreshSweep(r) PROVE LockInv'
    BY <1>9 DEF RefreshSweep, Publish, Live
<1>10. ASSUME NEW r \in Request, RefreshWipe(r) PROVE LockInv'
    BY <1>10 DEF RefreshWipe, DelFamily, sessionVars
<1>11. ASSUME NEW r \in Request, RefreshFindUser(r) PROVE LockInv'
    BY <1>11 DEF RefreshFindUser
<1>12. ASSUME NEW r \in Request, RefreshStore(r) PROVE LockInv'
    BY <1>12 DEF RefreshStore, HsetPair
<1>13. ASSUME NEW r \in Request, RefreshRevoke(r) PROVE LockInv'
    BY <1>13 DEF RefreshRevoke, Publish
<1>14. ASSUME NEW r \in Request, RefreshRelease(r) PROVE LockInv'
    BY <1>14 DEF RefreshRelease, DelIfEqual
<1>15. ASSUME NEW d \in Device, ExpireLock(d) PROVE LockInv'
    BY <1>15, ~SlowHolders DEF ExpireLock
<1>16. CASE ExpireSessions
    BY <1>16 DEF ExpireSessions
<1>17. ASSUME NEW r \in Request, Crash(r) PROVE LockInv'
    BY <1>17 DEF Crash
<1>18. CASE UNCHANGED vars
    BY <1>18 DEF vars
<1>19. QED
    BY <1>1, <1>2, <1>3, <1>4, <1>5, <1>6, <1>7, <1>8, <1>9, <1>10, <1>11, <1>12,
       <1>13, <1>14, <1>15, <1>16, <1>17, <1>18 DEF Next, Serve, Served

LEMMA LockInvariant ==
    ASSUME ~SlowHolders
    PROVE  Spec => [](StoreInv /\ LockInv)
<1>1. StoreInv /\ LockInv /\ [Next]_vars => LockInv'
    BY NextLockInv
<1>2. QED
    BY <1>1, InitStoreInv, NextStoreInv, InitLockInv, PTL DEF Spec

(* A device closed by a replay is reopened by a login only. *)
THEOREM ReplayedStaysOut ==
    ASSUME ~SlowHolders
    PROVE  Spec => ReplayedDeviceStaysOut
<1>1. StoreInv /\ LockInv /\ [Next]_vars =>
        [\A d \in Device :
            gone[d] = "replay" /\ session'[d] # None => LoginRestores(d)]_vars
    <2> SUFFICES ASSUME StoreInv, LockInv, Next, NEW d \in Device,
                        gone[d] = "replay", session'[d] # None
                 PROVE  LoginRestores(d)
        OBVIOUS
    <2> USE NoneIsNoRequest DEF StoreInv, TypeOK, LockInv, ReplayQuiet
    <2>1. session[d] = None
        OBVIOUS
    <2>2. ASSUME NEW r \in Request, LoginStore(r) PROVE LoginRestores(d)
        BY <2>1, <2>2 DEF LoginStore, HsetPair, LoginRestores
    <2>3. ASSUME NEW r \in Request, RefreshStore(r) PROVE FALSE
        BY <2>1, <2>3 DEF RefreshStore, HsetPair
    <2>4. ASSUME NEW r \in Request, LogoutRemove(r) PROVE FALSE
        BY <2>1, <2>4 DEF LogoutRemove, HdelDevice, sessionVars
    <2>5. ASSUME NEW r \in Request, RefreshWipe(r) PROVE FALSE
        BY <2>1, <2>5 DEF RefreshWipe, DelFamily, sessionVars
    <2>6. ~ExpireSessions
        BY <2>1 DEF ExpireSessions
    <2>7. session' # session
        BY <2>1
    <2>8. QED
        BY <2>2, <2>3, <2>4, <2>5, <2>6, <2>7
           DEF Next, Serve, Login, Logout, Refresh, LogoutRead, RefreshLock, RefreshRead,
               RefreshSweep, RefreshFindUser, RefreshRevoke, RefreshRelease, ExpireLock,
               Crash, Served, vars
<1>2. QED
    BY <1>1, LockInvariant, PTL DEF Spec, ReplayedDeviceStaysOut

(* A rotated pair is replaced only by the pair it is exchanged for, or by a  *)
(* login's: a refresh that read an older pair does not overwrite it.         *)
THEOREM RotationIsKept ==
    ASSUME ~SlowHolders
    PROVE  Spec => RotationKept
<1>1. StoreInv /\ LockInv /\ [Next]_vars =>
        [\A d \in Device :
            Replaced(d) /\ presented[session[d]] # None
                => LoginRestores(d) \/ presented[session'[d]] = session[d]]_vars
    <2> SUFFICES ASSUME StoreInv, LockInv, Next, NEW d \in Device,
                        Replaced(d), presented[session[d]] # None
                 PROVE  LoginRestores(d) \/ presented[session'[d]] = session[d]
        OBVIOUS
    <2> USE NoneIsNoRequest DEF StoreInv, TypeOK, Replaced
    <2>1. ASSUME NEW r \in Request, LoginStore(r) PROVE LoginRestores(d)
        BY <2>1 DEF LoginStore, HsetPair, LoginRestores
    <2>2. ASSUME NEW r \in Request, RefreshStore(r)
          PROVE  presented[session'[d]] = session[d]
        <3>1. pc[r] = "refresh.store" /\ d = dev[r] /\ session'[d] = r
            BY <2>2 DEF RefreshStore, HsetPair
        <3>2. session[d] = presented[r]
            BY <3>1 DEF LockInv, MatchedIsCurrent
        <3>3. QED
            BY <3>1, <3>2
    <2>3. ASSUME NEW r \in Request, LogoutRemove(r) PROVE FALSE
        BY <2>3 DEF LogoutRemove, HdelDevice, sessionVars
    <2>4. ASSUME NEW r \in Request, RefreshWipe(r) PROVE FALSE
        BY <2>4 DEF RefreshWipe, DelFamily, sessionVars
    <2>5. ~ExpireSessions
        BY DEF ExpireSessions
    <2>6. session' # session
        OBVIOUS
    <2>7. QED
        BY <2>1, <2>2, <2>3, <2>4, <2>5, <2>6
           DEF Next, Serve, Login, Logout, Refresh, LogoutRead, RefreshLock, RefreshRead,
               RefreshSweep, RefreshFindUser, RefreshRevoke, RefreshRelease, ExpireLock,
               Crash, Served, vars
<1>2. QED
    BY <1>1, LockInvariant, PTL DEF Spec, RotationKept

----------------------------------------------------------------------------
(* Rotation implements the registry: storing a login's pair issues a token,  *)
(* storing a refresh's pair redeems the presented one, all else stutters.    *)

LEMMA RefinesInit == Init => Registry!RegistryInit
BY DEF Init, Registry!RegistryInit

LEMMA RefinesNext ==
    StoreInv /\ LockInv /\ [Next]_vars => [Registry!RegistryNext]_(Registry!registryVars)
<1> SUFFICES ASSUME StoreInv, LockInv, [Next]_vars
             PROVE  [Registry!RegistryNext]_(Registry!registryVars)
    OBVIOUS
<1> DEFINE exchanged == {<<presented[r], r>> : r \in {q \in stored : presented[q] # None}}
<1> USE NoneIsNoRequest DEF StoreInv, TypeOK, Registry!registryVars
<1>1. ASSUME NEW r \in Request, LoginStore(r), stored' # stored
      PROVE  Registry!Issue(r)
    <2>1. stored' = stored \cup {r} /\ r \notin stored /\ presented' = presented
        BY <1>1 DEF LoginStore, HsetPair, FreshNotStored, Fresh
    <2>2. presented[r] = None
        BY <1>1 DEF LoginStore, RefreshPresents
    <2>3. exchanged' = exchanged
        BY <2>1, <2>2
    <2>4. QED
        BY <2>1, <2>3 DEF Registry!Issue
<1>2. ASSUME NEW r \in Request, RefreshStore(r), stored' # stored
      PROVE  Registry!Redeem(presented[r], r)
    <2>1. stored' = stored \cup {r} /\ r \notin stored /\ presented' = presented
        BY <1>2 DEF RefreshStore, HsetPair, FreshNotStored, Fresh
    <2>2. presented[r] # None /\ presented[r] \in stored
        BY <1>2 DEF RefreshStore, RefreshPresents, Critical
    <2>3. \A x \in exchanged : x[1] # presented[r]
        BY <1>2 DEF RefreshStore, LockInv, MatchedIsUnspent
    <2>4. exchanged' = exchanged \cup {<<presented[r], r>>}
        BY <2>1, <2>2
    <2>5. QED
        BY <2>1, <2>2, <2>3, <2>4 DEF Registry!Redeem, Registry!Unspent
<1>3. ASSUME stored' = stored
      PROVE  exchanged' = exchanged
    <2>1. ASSUME NEW r \in stored PROVE presented'[r] = presented[r]
        <3>1. ASSUME NEW q \in Request, NEW t \in Request, Refresh(q, t)
              PROVE  presented'[r] = presented[r]
            BY <2>1, <3>1 DEF Refresh, FreshNotStored, Fresh
        <3>2. QED
            BY <3>1 DEF Next, Serve, Login, Logout, LoginStore, LogoutRead, LogoutRemove,
                   RefreshLock, RefreshRead, RefreshSweep, RefreshWipe, RefreshFindUser,
                   RefreshStore, RefreshRevoke, RefreshRelease, ExpireLock, ExpireSessions,
                   Crash, Served, vars
    <2>2. QED
        BY <1>3, <2>1
<1>4. CASE stored' = stored
    BY <1>3, <1>4
<1>5. CASE stored' # stored
    <2>1. \E r \in Request : LoginStore(r) \/ RefreshStore(r)
        BY <1>5 DEF Next, Serve, Login, Logout, Refresh, LogoutRead, LogoutRemove,
               RefreshLock, RefreshRead, RefreshSweep, RefreshWipe, RefreshFindUser,
               RefreshRevoke, RefreshRelease, ExpireLock, ExpireSessions, Crash, Served, vars
    <2>2. ASSUME NEW r \in Request, LoginStore(r) PROVE Registry!RegistryNext
        BY <1>1, <1>5, <2>2 DEF Registry!RegistryNext
    <2>3. ASSUME NEW r \in Request, RefreshStore(r) PROVE Registry!RegistryNext
        <3>1. Registry!Redeem(presented[r], r)
            BY <1>2, <1>5, <2>3
        <3>2. presented[r] \in Request
            BY <3>1 DEF Registry!Redeem
        <3>3. QED
            BY <3>1, <3>2 DEF Registry!RegistryNext
    <2>4. QED
        BY <2>1, <2>2, <2>3
<1>6. QED
    BY <1>4, <1>5

(* Under a lock that outlasts its holder, AuthSession is a registry of       *)
(* single-use tokens.                                                        *)
THEOREM RotationImplementsRegistry ==
    ASSUME ~SlowHolders
    PROVE  Spec => ImplementsRegistry
BY RefinesInit, RefinesNext, LockInvariant, PTL
   DEF Spec, ImplementsRegistry, Registry!RegistrySpec

(* A registry of single-use tokens exchanges no token twice. *)
THEOREM RegistryIsSingleUse == Registry!RegistrySpec => []Registry!ExchangedOnce
<1> DEFINE exchanged == {<<presented[r], r>> : r \in {q \in stored : presented[q] # None}}
<1>1. Registry!RegistryInit => Registry!ExchangedOnce
    BY DEF Registry!RegistryInit, Registry!ExchangedOnce
<1>2. Registry!ExchangedOnce /\ [Registry!RegistryNext]_(Registry!registryVars)
        => Registry!ExchangedOnce'
    <2> SUFFICES ASSUME Registry!ExchangedOnce,
                        [Registry!RegistryNext]_(Registry!registryVars)
                 PROVE  Registry!ExchangedOnce'
        OBVIOUS
    <2>1. \A x, y \in exchanged : x[1] = y[1] => x = y
        BY DEF Registry!ExchangedOnce
    <2>2. ASSUME exchanged' = exchanged PROVE Registry!ExchangedOnce'
        BY <2>1, <2>2 DEF Registry!ExchangedOnce
    <2>3. ASSUME NEW old \in Request, NEW new \in Request, Registry!Redeem(old, new)
          PROVE  Registry!ExchangedOnce'
        <3>1. exchanged' = exchanged \cup {<<old, new>>}
            BY <2>3 DEF Registry!Redeem
        <3>2. \A x \in exchanged : x[1] # old
            BY <2>3 DEF Registry!Redeem, Registry!Unspent
        <3> HIDE DEF exchanged
        <3>3. \A x, y \in exchanged' : x[1] = y[1] => x = y
            BY <2>1, <3>1, <3>2
        <3>4. QED
            BY <3>3 DEF exchanged, Registry!ExchangedOnce
    <2>4. QED
        BY <2>2, <2>3 DEF Registry!RegistryNext, Registry!Issue, Registry!registryVars
<1>3. QED
    BY <1>1, <1>2, PTL DEF Registry!RegistrySpec

(* Whatever crashes and whatever replies are lost, a refresh token is        *)
(* exchanged at most once: rotation is such a registry.                      *)
THEOREM SingleUse ==
    ASSUME ~SlowHolders
    PROVE  Spec => []RefreshTokenSingleUse
<1>1. Registry!ExchangedOnce => RefreshTokenSingleUse
    <2> SUFFICES ASSUME Registry!ExchangedOnce, NEW q \in stored, NEW r \in stored,
                        presented[q] # None, presented[q] = presented[r]
                 PROVE  q = r
        BY DEF RefreshTokenSingleUse
    <2>1. <<presented[q], q>>[1] = <<presented[r], r>>[1]
        OBVIOUS
    <2>2. <<presented[q], q>> = <<presented[r], r>>
        BY <2>1 DEF Registry!ExchangedOnce
    <2>3. QED
        BY <2>2
<1>2. QED
    BY <1>1, RotationImplementsRegistry, RegistryIsSingleUse, PTL DEF ImplementsRegistry
=============================================================================
