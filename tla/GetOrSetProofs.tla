--------------------------- MODULE GetOrSetProofs ---------------------------
(***************************************************************************)
(* Proofs about the two users of GetOrSet, RoleCache and SettingsCache,    *)
(* for any number of readers, pods, changes, updates and seeders.  Each    *)
(* user is a specification of its own; they share getOrSet's variables.    *)
(*                                                                         *)
(* SingleFlight is strengthened to LockHeld: while the lock outlasts its   *)
(* holder, whoever is under the lock is the one the key names.             *)
(*                                                                         *)
(* StaleOnlyByRace and OutdatedHasCause are strengthened to what is on its *)
(* way to Redis: RolesAccounted, Accounted.  Not only the value in Redis   *)
(* but every value that a reader or a seeder is about to write there is    *)
(* the source's version, or an older one with a cause.  A correction that  *)
(* succeeds forgets the causes of the versions before it, so that those    *)
(* still on their way need one of their own: Late.                         *)
(*                                                                         *)
(* NullIsFromSource is strengthened to a tally, Calm: without faults every *)
(* null that getOrSet makes up takes a deletion of its own.                *)
(***************************************************************************)
EXTENDS RoleCache, SettingsCache, FiniteSetTheorems, TLAPS

----------------------------------------------------------------------------
(* RoleCache *)

LockHeld == "slow" \notin faults => \A r \in Reader : pc[r] \in Holding => lock = r

RoleExplained(v) ==
    /\ v <= source
    /\ v < source => v \in overtaken \/ \E w \in Writer : Pending(w, v)

RolesAccounted ==
    /\ cached # None => RoleExplained(cached)
    /\ \A r \in Reader : pc[r] = "store" => RoleExplained(got[r])

----------------------------------------------------------------------------
(* The caller's state does not change while getOrSet runs, and a reader of   *)
(* getOrSet keeps the types.                                                 *)
LEMMA ReadType ==
    ASSUME RolesTypeOK, NEW r \in Reader, Read(r), UNCHANGED ownRoleVars
    PROVE  RolesTypeOK'
<1> USE NoneIsNoValue, EmptyIsNoVersion
<1>1. CASE Get(r)
  BY <1>1 DEF RolesTypeOK, Get, Return, Throw, Goto, Reading, Holding, RolesEnded, ownRoleVars
<1>2. CASE TryLock(r)
  BY <1>2
     DEF RolesTypeOK, TryLock, TakeIfFree, Throw, Goto, Reading, Holding, RolesEnded,
         ownRoleVars
<1>3. CASE Fetch(r)
  BY <1>3 DEF RolesTypeOK, Fetch, Callback, Goto, Reading, Holding, RolesEnded, ownRoleVars
<1>4. CASE Store(r)
  BY <1>4 DEF RolesTypeOK, Store, Goto, Reading, Holding, RolesEnded, ownRoleVars
<1>5. CASE Release(r)
  BY <1>5 DEF RolesTypeOK, Release, Goto, Reading, Holding, RolesEnded, ownRoleVars
<1>6. CASE Poll(r)
  BY <1>6 DEF RolesTypeOK, Poll, Return, Goto, Reading, Holding, RolesEnded, ownRoleVars
<1>7. CASE GiveUp(r)
  BY <1>7 DEF RolesTypeOK, GiveUp, Return, Goto, Reading, Holding, RolesEnded, ownRoleVars
<1> QED BY <1>1, <1>2, <1>3, <1>4, <1>5, <1>6, <1>7 DEF Read

(* Every variable keeps its type.  In particular a reader that answers ok    *)
(* carries roles, never the null of getOrSet.                                *)
THEOREM RolesTypeCorrect == RolesSpec => []RolesTypeOK
<1>1. RolesInit => RolesTypeOK
  BY FaultsAreKnown DEF RolesInit, RolesTypeOK, Reading, Holding, RolesEnded
<1>2. RolesTypeOK /\ [RolesNext]_roleVars => RolesTypeOK'
  <2> SUFFICES ASSUME RolesTypeOK, [RolesNext]_roleVars PROVE RolesTypeOK'
    OBVIOUS
  <2> USE NoneIsNoValue, EmptyIsNoVersion, ReadersHavePods DEF cacheVars
  <2>1. ASSUME NEW r \in Reader, LookUp(r) PROVE RolesTypeOK'
    BY <2>1 DEF RolesTypeOK, LookUp, Goto, Reading, Holding, RolesEnded
  <2>2. ASSUME NEW r \in Reader, Read(r), UNCHANGED ownRoleVars PROVE RolesTypeOK'
    BY <2>2, ReadType
  <2>3. ASSUME NEW r \in Reader, Finish(r) PROVE RolesTypeOK'
    BY <2>3 DEF RolesTypeOK, Finish, Goto, Roles, Reading, Holding, RolesEnded
  <2>4. ASSUME NEW w \in Writer, Change(w) PROVE RolesTypeOK'
    BY <2>4 DEF RolesTypeOK, Change
  <2>5. ASSUME NEW w \in Writer, NEW p \in Pod, ClearLocal(w, p) PROVE RolesTypeOK'
    BY <2>5 DEF RolesTypeOK, ClearLocal
  <2>6. ASSUME NEW w \in Writer, ClearShared(w) PROVE RolesTypeOK'
    <3>1. \A v \in {got[r] : r \in {q \in Reader : pc[q] = "store"}} : v \in Nat
      BY DEF RolesTypeOK
    <3>2. overtaken' \subseteq Nat
      BY <2>6, <3>1 DEF ClearShared, RolesTypeOK
    <3> QED BY <2>6, <3>2 DEF RolesTypeOK, ClearShared, DelShared
  <2>7. ASSUME NEW w \in Writer, Abandon(w) PROVE RolesTypeOK'
    BY <2>7 DEF RolesTypeOK, Abandon
  <2>8. ASSUME NEW p \in Pod, DropL1(p) PROVE RolesTypeOK'
    BY <2>8 DEF RolesTypeOK, DropL1
  <2>9. ASSUME NEW p \in Pod, Crash(p) PROVE RolesTypeOK'
    BY <2>9 DEF RolesTypeOK, Crash, Reading, Holding, RolesEnded
  <2>10. CASE ExpireLock /\ UNCHANGED ownRoleVars
    BY <2>10 DEF RolesTypeOK, ExpireLock, ownRoleVars
  <2>11. CASE ExpireCached /\ UNCHANGED ownRoleVars
    BY <2>11 DEF RolesTypeOK, ExpireCached, ownRoleVars
  <2>12. CASE UNCHANGED roleVars
    BY <2>12 DEF RolesTypeOK, roleVars, ownRoleVars
  <2> QED
    BY <2>1, <2>2, <2>3, <2>4, <2>5, <2>6, <2>7, <2>8, <2>9, <2>10, <2>11, <2>12
    DEF RolesNext, ServeRoles, RolesServed
<1> QED BY <1>1, <1>2, PTL DEF RolesSpec

----------------------------------------------------------------------------
(* No step of getOrSet and no expiry of the lock lets two readers under it,  *)
(* whoever calls.                                                            *)
LEMMA ReadHeld ==
    ASSUME NEW Point, pc \in [Reader -> Point], LockHeld,
           (\E r \in Reader : Read(r)) \/ ExpireLock
    PROVE  LockHeld'
<1> USE DEF LockHeld, Holding, Goto
<1>1. ASSUME NEW r \in Reader, Get(r) \/ Fetch(r) \/ Store(r) \/ Poll(r) \/ GiveUp(r)
      PROVE  LockHeld'
  BY <1>1 DEF Get, Fetch, Callback, Store, Poll, GiveUp, Return, Throw
<1>2. ASSUME NEW r \in Reader, TryLock(r) PROVE LockHeld'
  BY <1>2, NoneIsNoValue DEF TryLock, TakeIfFree, Throw
<1>3. ASSUME NEW r \in Reader, Release(r) PROVE LockHeld'
  BY <1>3 DEF Release
<1>4. CASE ExpireLock
  BY <1>4 DEF ExpireLock
<1> QED BY <1>1, <1>2, <1>3, <1>4 DEF Read

LEMMA HeldIsOne == LockHeld => SingleFlight
BY DEF LockHeld, SingleFlight

(* While the lock outlasts its holder, one reader at a time asks the source  *)
(* and writes Redis, for any number of readers in any number of pods.        *)
THEOREM OneFlight == RolesSpec => []SingleFlight
<1>1. RolesInit => LockHeld
  BY DEF RolesInit, LockHeld, Holding
<1>2. RolesTypeOK /\ LockHeld /\ [RolesNext]_roleVars => LockHeld'
  <2> SUFFICES ASSUME RolesTypeOK, LockHeld, [RolesNext]_roleVars PROVE LockHeld'
    OBVIOUS
  <2>1. pc \in [Reader -> Reading \cup RolesEnded \cup {"idle"}]
    BY DEF RolesTypeOK
  <2>2. CASE (\E r \in Reader : Read(r)) \/ ExpireLock
    BY <2>1, <2>2, ReadHeld
  <2> USE <2>1 DEF LockHeld, Holding, Goto, cacheVars
  <2>3. ASSUME NEW r \in Reader, LookUp(r) \/ Finish(r) PROVE LockHeld'
    BY <2>3 DEF LookUp, Finish
  <2>4. ASSUME NEW w \in Writer,
               Change(w) \/ ClearShared(w) \/ Abandon(w) \/ \E p \in Pod : ClearLocal(w, p)
        PROVE LockHeld'
    BY <2>4 DEF Change, ClearShared, Abandon, ClearLocal
  <2>5. ASSUME NEW p \in Pod, Crash(p) PROVE LockHeld'
    BY <2>5 DEF Crash
  <2>6. CASE (\E p \in Pod : DropL1(p)) \/ ExpireCached \/ UNCHANGED roleVars
    BY <2>6 DEF DropL1, ExpireCached, roleVars
  <2> QED
    BY <2>2, <2>3, <2>4, <2>5, <2>6 DEF RolesNext, ServeRoles, RolesServed
<1> QED BY <1>1, <1>2, HeldIsOne, RolesTypeCorrect, PTL DEF RolesSpec

----------------------------------------------------------------------------
(* Redis holds outdated roles only while a change is not seen through, or    *)
(* because a reader's read of the source was overtaken by a change.          *)
THEOREM OnlyRaceIsStale == RolesSpec => []StaleOnlyByRace
<1>1. RolesInit => RolesAccounted
  BY DEF RolesInit, RolesAccounted
<1>2. RolesTypeOK /\ RolesAccounted /\ [RolesNext]_roleVars => RolesAccounted'
  <2> SUFFICES ASSUME RolesTypeOK, RolesAccounted, [RolesNext]_roleVars PROVE RolesAccounted'
    OBVIOUS
  <2> USE NoneIsNoValue DEF cacheVars, ownRoleVars
  <2>1. CASE /\ UNCHANGED <<source, cached, cpc, changed, overtaken>>
             /\ \A r \in Reader : pc'[r] = "store" => pc[r] = "store" /\ got'[r] = got[r]
    BY <2>1 DEF RolesAccounted, RoleExplained, Pending
  <2>2. ASSUME NEW r \in Reader, LookUp(r) \/ Finish(r) PROVE RolesAccounted'
    BY <2>1, <2>2 DEF LookUp, Finish, Goto, RolesTypeOK
  <2>3. ASSUME NEW r \in Reader, UNCHANGED ownRoleVars,
               Get(r) \/ TryLock(r) \/ Release(r) \/ Poll(r) \/ GiveUp(r)
        PROVE RolesAccounted'
    BY <2>1, <2>3
       DEF Get, TryLock, TakeIfFree, Release, Poll, GiveUp, Return, Throw, Goto, RolesTypeOK
  <2>4. ASSUME NEW r \in Reader, UNCHANGED ownRoleVars, Fetch(r) PROVE RolesAccounted'
    <3>1. \A v \in Nat : RoleExplained(v) => RoleExplained(v)'
      BY <2>4 DEF Fetch, Callback, RoleExplained, Pending
    <3>2. RoleExplained(source)'
      BY <2>4 DEF Fetch, Callback, RoleExplained, RolesTypeOK
    <3> QED BY <2>4, <3>1, <3>2 DEF Fetch, Callback, Goto, RolesAccounted, RolesTypeOK, RoleExplained, Pending
  <2>5. ASSUME NEW r \in Reader, UNCHANGED ownRoleVars, Store(r) PROVE RolesAccounted'
    BY <2>5 DEF Store, Goto, RolesAccounted, RolesTypeOK, RoleExplained, Pending
  <2>6. ASSUME NEW w \in Writer, Change(w) PROVE RolesAccounted'
    <3>1. \A v \in Nat : RoleExplained(v) => RoleExplained(v)'
      BY <2>6 DEF Change, RoleExplained, Pending, RolesTypeOK
    <3>2. UNCHANGED <<cached, pc, got>>
      BY <2>6 DEF Change
    <3> QED BY <3>1, <3>2 DEF RolesAccounted, RolesTypeOK, RoleExplained, Pending
  <2>7. ASSUME NEW w \in Writer, (\E p \in Pod : ClearLocal(w, p)) \/ Abandon(w)
        PROVE RolesAccounted'
    <3>1. \A v \in Nat : RoleExplained(v) => RoleExplained(v)'
      BY <2>7 DEF ClearLocal, Abandon, RoleExplained, Pending, RolesTypeOK
    <3>2. UNCHANGED <<cached, pc, got>>
      BY <2>7 DEF ClearLocal, Abandon
    <3> QED BY <3>1, <3>2 DEF RolesAccounted, RolesTypeOK, RoleExplained, Pending
  <2>8. ASSUME NEW w \in Writer, ClearShared(w) PROVE RolesAccounted'
    <3>1. \A r \in Reader : pc'[r] = "store" => got'[r] \in overtaken' /\ got'[r] <= source'
      BY <2>8 DEF ClearShared, RolesAccounted, RoleExplained
    <3>2. CASE cached' = None
      BY <3>1, <3>2 DEF RolesAccounted, RoleExplained
    <3>3. CASE cached' = cached /\ cpc' = [cpc EXCEPT ![w] = "failed"]
      BY <2>8, <3>1, <3>3 DEF ClearShared, RolesAccounted, RoleExplained, Pending, RolesTypeOK
    <3> QED BY <2>8, <3>2, <3>3 DEF ClearShared, DelShared
  <2>9. ASSUME NEW p \in Pod, Crash(p) \/ DropL1(p) PROVE RolesAccounted'
    BY <2>1, <2>9 DEF Crash, DropL1
  <2>10. CASE ExpireLock /\ UNCHANGED ownRoleVars
    BY <2>1, <2>10 DEF ExpireLock
  <2>11. CASE ExpireCached /\ UNCHANGED ownRoleVars
    BY <2>11 DEF ExpireCached, RolesAccounted, RoleExplained, Pending
  <2>12. CASE UNCHANGED roleVars
    BY <2>1, <2>12 DEF roleVars
  <2> QED
    BY <2>2, <2>3, <2>4, <2>5, <2>6, <2>7, <2>8, <2>9, <2>10, <2>11, <2>12
    DEF RolesNext, ServeRoles, RolesServed, Read
<1>3. RolesTypeOK /\ RolesAccounted => StaleOnlyByRace
  BY DEF RolesAccounted, RoleExplained, StaleOnlyByRace
<1> QED BY <1>1, <1>2, <1>3, RolesTypeCorrect, PTL DEF RolesSpec

----------------------------------------------------------------------------
(* SettingsCache: an outdated value has a cause *)

(* On its way to Redis: the source's, to be corrected, or overtaken. *)
Late(v) ==
    /\ v <= source
    /\ v < source => v \in raced \/ UnderWay(v)

(* In Redis: the same, or left there. *)
Explained(v) ==
    /\ v <= source
    /\ v < source => v \in raced \cup left \/ UnderWay(v)

Accounted ==
    /\ cached # None => Explained(cached)
    /\ \A r \in Reader : pc[r] = "store" => Late(got[r])
    /\ \A s \in Seeder : spc[s] = "mset" => Late(found[s]) /\ found[s] > 0

(* A seeder that found the setting has seen it created. *)
Created == \A s \in Seeder : spc[s] \in {"find", "mset", "expire"} => source > 0

(* A value without a TTL is a pre-warming's. *)
Prewarmed == eternal => \E s \in Seeder : spc[s] \in {"expire", "halfway"}

Inv == TypeOK /\ Accounted /\ Created /\ Prewarmed

LEMMA InitInv == Init => Inv
<1> SUFFICES ASSUME Init PROVE Inv
    OBVIOUS
<1>1. 0 \in 0..(MaxTries - 1) /\ source \in Nat
    BY DEF Init, MaxTries, Missing
<1>2. TypeOK
    BY <1>1, FaultsAreKnown DEF Init, TypeOK, Reading, Holding, Ended
<1> QED
    BY <1>2 DEF Init, Inv, Accounted, Created, Prewarmed

----------------------------------------------------------------------------
(* getOrSet *)

(* The source is the same; a value that a step of getOrSet writes to Redis   *)
(* was carried, and one that it comes to carry at "store" is the source's.   *)
LEMMA ReadStep ==
    ASSUME TypeOK, NEW r \in Reader, Read(r)
    PROVE  /\ source' = source /\ faults' = faults
           /\ cached' = cached \/ (pc[r] = "store" /\ cached' = got[r])
           /\ \A q \in Reader : q # r => pc'[q] = pc[q] /\ got'[q] = got[q]
           /\ pc'[r] = "store" => got'[r] = source
           /\ lock' \in Reader \cup {None}
           /\ pc' \in [Reader -> Reading \cup Ended \cup {"idle"}]
           /\ got' \in [Reader -> Nat \cup {None}]
<1> USE DEF TypeOK, Goto, Reading, Holding, Ended
<1>1. CASE Get(r)
    BY <1>1 DEF Get, Return, Throw
<1>2. CASE TryLock(r)
    BY <1>2 DEF TryLock, TakeIfFree, Throw
<1>3. CASE Fetch(r)
    BY <1>3 DEF Fetch, Callback
<1>4. CASE Store(r)
    BY <1>4 DEF Store
<1>5. CASE Release(r)
    BY <1>5 DEF Release
<1>6. CASE Poll(r)
    BY <1>6 DEF Poll, Return
<1>7. CASE GiveUp(r)
    BY <1>7 DEF GiveUp, Return
<1> QED
    BY <1>1, <1>2, <1>3, <1>4, <1>5, <1>6, <1>7 DEF Read

LEMMA AskInv == ASSUME Inv, NEW r \in Reader, Ask(r) PROVE Inv'
<1>1. Read(r) /\ UNCHANGED <<wpc, made, spc, found, raced, left, blank>>
    BY DEF Ask
<1>2. hit' \in [Reader -> BOOLEAN] /\ eternal' \in BOOLEAN /\ tries' \in [Reader -> 0..(MaxTries - 1)]
    <2>1. hit' \in [Reader -> BOOLEAN]
        <3>1. hit' = [hit EXCEPT ![r] = pc[r] \in {"get", "wait"} /\ got'[r] # None]
            BY DEF Ask
        <3>2. (pc[r] \in {"get", "wait"} /\ got'[r] # None) \in BOOLEAN
            OBVIOUS
        <3> QED
            BY <3>1, <3>2 DEF Inv, TypeOK
    <2>2. eternal' \in BOOLEAN
        BY DEF Ask, Inv, TypeOK
    <2>3. tries' \in [Reader -> 0..(MaxTries - 1)]
        <3>1. tries' = [tries EXCEPT ![r] = IF pc'[r] = "threw" THEN 0 ELSE tries[r]]
            BY DEF Ask
        <3>2. 0 \in 0..(MaxTries - 1) /\ tries[r] \in 0..(MaxTries - 1)
            BY DEF Inv, TypeOK, MaxTries
        <3> QED
            BY <3>1, <3>2 DEF Inv, TypeOK
    <2> QED
        BY <2>1, <2>2, <2>3
<1>3. cached' \in Nat \cup {None} /\ \A q \in Reader : pc'[q] = "store" => got'[q] \in Nat
    BY <1>1, ReadStep DEF Inv, TypeOK
<1>4. TypeOK'
    BY <1>1, <1>2, <1>3, ReadStep DEF Inv, TypeOK
<1>5. \A v : UnderWay(v)' <=> UnderWay(v)
    BY <1>1 DEF UnderWay
<1>6. Accounted'
    <2>1. \A v : (Explained(v) => Explained(v)') /\ (Late(v) => Late(v)' /\ Explained(v)')
        BY <1>1, <1>5, ReadStep DEF Explained, Late, Inv
    <2>2. Late(source)'
        BY <1>1, ReadStep DEF Late, Inv, TypeOK
    <2>3. cached' # None => Explained(cached)'
        BY <1>1, <2>1, ReadStep DEF Inv, Accounted
    <2>4. \A q \in Reader : pc'[q] = "store" => Late(got[q])'
        BY <1>1, <2>1, <2>2, ReadStep DEF Inv, Accounted
    <2>5. \A s \in Seeder : spc'[s] = "mset" => Late(found[s])' /\ found'[s] > 0
        BY <1>1, <2>1 DEF Inv, Accounted
    <2> QED
        BY <2>3, <2>4, <2>5 DEF Accounted
<1>7. Created'
    BY <1>1, ReadStep DEF Inv, Created
<1>8. Prewarmed'
    BY <1>1 DEF Ask, Inv, Prewarmed
<1> QED
    BY <1>4, <1>6, <1>7, <1>8 DEF Inv

(* Steps that write neither the source nor Redis, and leave what is under    *)
(* way and what is on its way to Redis.                                      *)
LEMMA Aside ==
    ASSUME Inv, TypeOK', UNCHANGED <<source, wpc, made, raced, left>>, cached' \in {cached, None},
           eternal' => eternal,
           \A q \in Reader : pc'[q] = "store" => pc[q] = "store" /\ got'[q] = got[q],
           \A s \in Seeder :
              /\ spc[s] \in {"find", "mset"} => spc'[s] \in {"find", "mset"}
              /\ spc[s] \in {"expire", "halfway"} /\ eternal' => spc'[s] \in {"expire", "halfway"}
              /\ spc'[s] \in {"find", "mset", "expire"} => spc[s] \in {"find", "mset", "expire"}
              /\ spc'[s] = "mset" => found'[s] > 0 /\
                    (found'[s] = source \/ (spc[s] = "mset" /\ found'[s] = found[s]))
    PROVE  Inv'
<1>1. \A v : (Explained(v) => Explained(v)') /\ (Late(v) => Late(v)')
    BY DEF Explained, Late, UnderWay
<1>2. Late(source)'
    BY DEF Late, Inv, TypeOK
<1>3. Accounted'
    <2>1. cached' # None => Explained(cached)'
        BY <1>1 DEF Inv, Accounted
    <2>2. \A q \in Reader : pc'[q] = "store" => Late(got[q])'
        BY <1>1 DEF Inv, Accounted
    <2>3. \A s \in Seeder : spc'[s] = "mset" => Late(found[s])' /\ found'[s] > 0
        BY <1>1, <1>2 DEF Inv, Accounted
    <2> QED
        BY <2>1, <2>2, <2>3 DEF Accounted
<1>4. Created' /\ Prewarmed'
    BY DEF Inv, Created, Prewarmed
<1> QED
    BY <1>3, <1>4 DEF Inv

LEMMA BeginInv == ASSUME Inv, NEW r \in Reader, Begin(r) PROVE Inv'
<1>1. TypeOK'
    BY DEF Begin, ownVars, Goto, Inv, TypeOK, Reading, Holding, Ended
<1> QED
    BY <1>1, Aside DEF Begin, ownVars, Goto, Inv, Accounted, TypeOK

LEMMA AnswerInv == ASSUME Inv, NEW r \in Reader, Answer(r) PROVE Inv'
<1>1. PICK x \in {"null", "value", "get"} : pc' = [pc EXCEPT ![r] = x]
    BY DEF Answer, Goto
<1>2. /\ pc[r] = "returned"
      /\ hit' = [hit EXCEPT ![r] = FALSE]
      /\ UNCHANGED <<faults, source, cached, lock, eternal, wpc, made, spc, found, raced, left>>
      /\ blank' \subseteq Reader
    BY DEF Answer, Inv, TypeOK
<1>3. got' \in [Reader -> Nat \cup {None}] /\ \A q \in Reader : q # r => got'[q] = got[q]
    BY DEF Answer, Inv, TypeOK
<1>4. tries' \in [Reader -> 0..(MaxTries - 1)]
    <2>1. PICK n \in {0, tries[r] + 1} :
              tries' = [tries EXCEPT ![r] = n] /\ (n # 0 => TriesLeft(r))
        BY DEF Answer
    <2>2. tries[r] \in 0..(MaxTries - 1)
        BY DEF Inv, TypeOK
    <2>3. n \in 0..(MaxTries - 1)
        BY <2>1, <2>2 DEF TriesLeft, MaxTries
    <2> QED
        BY <2>1, <2>3 DEF Inv, TypeOK
<1>5. TypeOK'
    BY <1>1, <1>2, <1>3, <1>4 DEF Inv, TypeOK, Reading, Holding, Ended
<1> QED
    BY <1>1, <1>2, <1>3, <1>5, Aside DEF Inv, Accounted, TypeOK

----------------------------------------------------------------------------
(* Updates *)

(* A correction of the versions before n, successful or not.  It keeps what  *)
(* is under way for later ones; what it finds on its way is overtaken, and   *)
(* what stays in Redis is left, so that everything has a cause again.        *)
LEMMA Correction ==
    ASSUME Inv, NEW n \in Nat, Corrected(n) \/ NotCorrected(n), source' \in Nat,
           source' = source \/ (source' = n /\ source < n),
           UNCHANGED <<pc, got>>,
           \A v \in Nat : v >= n /\ UnderWay(v) => UnderWay(v)',
           \A s \in Seeder : spc'[s] = "mset" => spc[s] = "mset" /\ found'[s] = found[s],
           \/ cached' = None
           \/ cached' = cached /\ NotCorrected(n)
           \/ \E s \in Seeder : spc[s] = "mset" /\ cached' = found[s] /\ found[s] >= n
    PROVE  Accounted' /\ raced' \subseteq Nat /\ left' \subseteq Nat
<1>1. source \in Nat /\ cached \in Nat \cup {None} /\ None \notin Nat
      /\ raced \subseteq Nat /\ left \subseteq Nat
      /\ (\A r \in Reader : pc[r] = "store" => got[r] \in Nat) /\ (\A s \in Seeder : found[s] \in Nat)
    BY NoneIsNoValue DEF Inv, TypeOK
<1>2. /\ \A v \in Nat : v >= n /\ v \in raced => v \in raced'
      /\ OnTheWay(n) \subseteq raced' /\ raced' \subseteq raced \cup OnTheWay(n)
      /\ NotCorrected(n) => left \subseteq left' /\ (cached' \in Nat /\ cached' < n => cached' \in left')
    BY <1>1 DEF Corrected, NotCorrected, From
<1>3. \A v \in Nat : v < n /\ ((\E r \in Reader : pc[r] = "store" /\ got[r] = v)
                              \/ (\E s \in Seeder : spc[s] = "mset" /\ found[s] = v)) => v \in OnTheWay(n)
    BY DEF OnTheWay
<1>4. raced' \subseteq Nat /\ left' \subseteq Nat
    <2>1. OnTheWay(n) \subseteq Nat
        BY <1>1 DEF OnTheWay
    <2>2. \A v \in left' : v \in left \/ (v = cached' /\ v # None)
        BY DEF Corrected, NotCorrected, From
    <2>3. cached' \in Nat \cup {None}
        BY <1>1
    <2> QED
        BY <1>1, <1>2, <2>1, <2>2, <2>3
<1>5. cached' # None => Explained(cached)'
    <2>1. ASSUME NEW s \in Seeder, spc[s] = "mset", cached' = found[s], found[s] >= n
          PROVE  Explained(cached)'
        <3>1. Late(found[s]) /\ found[s] >= n /\ found[s] \in Nat
            BY <1>1, <2>1 DEF Inv, Accounted
        <3> QED
            BY <1>1, <1>2, <2>1, <3>1 DEF Late, Explained
    <2>2. ASSUME cached' = cached, NotCorrected(n), cached # None PROVE Explained(cached)'
        <3>1. cached \in Nat /\ Explained(cached) /\ raced \subseteq raced' /\ left \subseteq left'
            BY <1>1, <1>2, <2>2 DEF Inv, Accounted, NotCorrected
        <3> QED
            BY <1>1, <1>2, <2>2, <3>1 DEF Explained
    <2> QED
        BY <2>1, <2>2
<1>6. \A r \in Reader : pc'[r] = "store" => Late(got[r])'
    <2> SUFFICES ASSUME NEW r \in Reader, pc'[r] = "store" PROVE Late(got[r])'
        OBVIOUS
    <2>1. pc[r] = "store" /\ got'[r] = got[r] /\ got[r] \in Nat /\ Late(got[r])
        BY <1>1 DEF Inv, Accounted
    <2>2. got[r] < n => got[r] \in OnTheWay(n)
        BY <1>3, <2>1
    <2> QED
        BY <1>1, <1>2, <2>1, <2>2 DEF Late
<1>7. \A s \in Seeder : spc'[s] = "mset" => Late(found[s])' /\ found'[s] > 0
    <2> SUFFICES ASSUME NEW s \in Seeder, spc'[s] = "mset" PROVE Late(found[s])' /\ found'[s] > 0
        OBVIOUS
    <2>1. spc[s] = "mset" /\ found'[s] = found[s] /\ found[s] \in Nat /\ Late(found[s]) /\ found[s] > 0
        BY <1>1 DEF Inv, Accounted
    <2>2. found[s] < n => found[s] \in OnTheWay(n)
        BY <1>3, <2>1
    <2> QED
        BY <1>1, <1>2, <2>1, <2>2 DEF Late
<1> QED
    BY <1>4, <1>5, <1>6, <1>7 DEF Accounted

(* An update will delete all versions before its own, unless it fails.       *)
LEMMA UpsertInv == ASSUME Inv, NEW w \in Setter, Upsert(w) PROVE Inv'
<1>1. /\ wpc[w] = "idle" /\ source \in Nat /\ source + 1 \in Nat
      /\ UNCHANGED <<faults, cached, lock, pc, got, tries, hit, eternal, spc, found, blank>>
    BY DEF Upsert, Inv, TypeOK
<1>2. CASE /\ source' = source + 1
           /\ made' = [made EXCEPT ![w] = source + 1] /\ wpc' = [wpc EXCEPT ![w] = "del"]
           /\ UNCHANGED <<raced, left>>
    <2>1. TypeOK'
        BY <1>1, <1>2 DEF Inv, TypeOK
    <2>2. \A v \in Nat : v <= source => Late(v)' /\ Explained(v)'
        <3> SUFFICES ASSUME NEW v \in Nat, v <= source PROVE v <= source' /\ UnderWay(v)'
            BY DEF Explained, Late
        <3>1. wpc'[w] = "del" /\ made'[w] = source + 1
            BY <1>2 DEF Inv, TypeOK
        <3> QED
            BY <1>1, <1>2, <3>1 DEF UnderWay
    <2>3. cached' # None => Explained(cached)'
        BY <1>1, <2>2 DEF Inv, Accounted, TypeOK, Explained
    <2>4. \A r \in Reader : pc'[r] = "store" => Late(got[r])'
        BY <1>1, <2>2 DEF Inv, Accounted, TypeOK, Late
    <2>5. \A s \in Seeder : spc'[s] = "mset" => Late(found[s])' /\ found'[s] > 0
        BY <1>1, <2>2 DEF Inv, Accounted, TypeOK, Late
    <2>6. Created' /\ Prewarmed'
        BY <1>1, <1>2 DEF Inv, Created, Prewarmed
    <2> QED
        BY <2>1, <2>3, <2>4, <2>5, <2>6 DEF Inv, Accounted
<1>3. CASE /\ wpc' = [wpc EXCEPT ![w] = "failed"] /\ made' = made
           /\ source' = source + 1 /\ NotCorrected(source')
    <2>1. \A v : UnderWay(v) => UnderWay(v)'
        BY <1>1, <1>3 DEF UnderWay, Inv, TypeOK
    <2>2. NotCorrected(source + 1)
        BY <1>3
    <2>3. Accounted' /\ raced' \subseteq Nat /\ left' \subseteq Nat
        BY <1>1, <1>3, <2>1, <2>2, Correction
    <2>4. TypeOK'
        BY <1>1, <1>3, <2>3 DEF Inv, TypeOK
    <2>5. Created' /\ Prewarmed'
        BY <1>1, <1>3 DEF Inv, Created, Prewarmed
    <2> QED
        BY <2>3, <2>4, <2>5 DEF Inv
<1>4. CASE /\ wpc' = [wpc EXCEPT ![w] = "failed"]
           /\ UNCHANGED <<source, made, raced, left>>
    <2>1. TypeOK'
        BY <1>1, <1>4 DEF Inv, TypeOK
    <2>2. \A v : UnderWay(v) => UnderWay(v)'
        BY <1>1, <1>4 DEF UnderWay, Inv, TypeOK
    <2>3. Accounted' /\ Created' /\ Prewarmed'
        BY <1>1, <1>4, <2>2 DEF Inv, Accounted, Explained, Late, Created, Prewarmed
    <2> QED
        BY <2>1, <2>3 DEF Inv
<1> QED
    BY <1>2, <1>3, <1>4 DEF Upsert

LEMMA InvalidateInv == ASSUME Inv, NEW w \in Setter, Invalidate(w) PROVE Inv'
<1>1. /\ wpc[w] = "del"
      /\ UNCHANGED <<faults, source, lock, pc, got, tries, hit, made, spc, found, blank>>
    BY DEF Invalidate
<1>2. PICK x \in {"done", "failed"} :
          /\ wpc' = [wpc EXCEPT ![w] = x]
          /\ cached' = None \/ (cached' = cached /\ NotCorrected(made[w]))
          /\ eternal' = FALSE \/ eternal' = eternal
          /\ Corrected(made[w]) \/ NotCorrected(made[w])
    BY DEF Invalidate, Del
<1>3. made[w] \in Nat /\ source \in Nat
    BY DEF Inv, TypeOK
<1>4. \A v \in Nat : v >= made[w] /\ UnderWay(v) => UnderWay(v)'
    <2> SUFFICES ASSUME NEW v \in Nat, v >= made[w], UnderWay(v) PROVE UnderWay(v)'
        OBVIOUS
    <2>1. CASE v = Missing /\ \E s \in Seeder : spc[s] \in {"find", "mset"}
        BY <1>1, <2>1 DEF UnderWay
    <2>2. CASE \E u \in Setter : wpc[u] = "del" /\ v < made[u]
        <3>1. PICK u \in Setter : wpc[u] = "del" /\ v < made[u]
            BY <2>2
        <3>2. u # w
            BY <1>3, <3>1
        <3>3. wpc'[u] = "del" /\ made'[u] = made[u]
            BY <1>1, <1>2, <3>1, <3>2 DEF Inv, TypeOK
        <3> QED
            BY <3>1, <3>3 DEF UnderWay
    <2> QED
        BY <2>1, <2>2 DEF UnderWay
<1>5. Accounted' /\ raced' \subseteq Nat /\ left' \subseteq Nat
    BY <1>1, <1>2, <1>3, <1>4, Correction
<1>6. TypeOK'
    <2>1. cached' \in Nat \cup {None} /\ eternal' \in BOOLEAN
        BY <1>2 DEF Inv, TypeOK
    <2>2. wpc' \in [Setter -> {"idle", "del", "done", "failed"}]
        BY <1>2 DEF Inv, TypeOK
    <2> QED
        BY <1>1, <1>5, <2>1, <2>2 DEF Inv, TypeOK
<1>7. Created' /\ Prewarmed'
    BY <1>1, <1>2 DEF Inv, Created, Prewarmed
<1> QED
    BY <1>5, <1>6, <1>7 DEF Inv

----------------------------------------------------------------------------
(* The seeder *)

(* What is under way for later versions than 0 are updates.                  *)
LEMMA SettersStay ==
    ASSUME UNCHANGED <<wpc, made>>
    PROVE  \A v \in Nat : v >= 1 /\ UnderWay(v) => UnderWay(v)'
BY DEF UnderWay, Missing

LEMMA CreateInv == ASSUME Inv, NEW s \in Seeder, CreateIfNotExists(s) PROVE Inv'
<1>1. /\ spc[s] = "create"
      /\ UNCHANGED <<faults, cached, lock, pc, got, tries, hit, eternal, wpc, made, found, blank>>
    BY DEF CreateIfNotExists
<1>2. source' = IF source = 0 THEN 1 ELSE source
    BY DEF CreateIfNotExists, Missing, Inv, TypeOK
<1>3. source \in Nat /\ source' \in Nat /\ source' > 0 /\ (source' = source \/ (source' = 1 /\ source < 1))
    BY <1>2 DEF Inv, TypeOK
<1>4. CASE spc' = [spc EXCEPT ![s] = "find"] /\ UNCHANGED <<raced, left>>
    <2>1. TypeOK'
        BY <1>1, <1>3, <1>4 DEF Inv, TypeOK
    <2>2. UnderWay(0)' /\ \A v : UnderWay(v) => UnderWay(v)'
        BY <1>1, <1>4 DEF UnderWay, Missing, Inv, TypeOK
    <2>3. \A v \in Nat : (Explained(v) => Explained(v)') /\ (Late(v) => Late(v)')
        BY <1>2, <1>3, <1>4, <2>2 DEF Explained, Late
    <2>4. cached' # None => Explained(cached)'
        BY <1>1, <2>3 DEF Inv, Accounted, TypeOK
    <2>5. \A r \in Reader : pc'[r] = "store" => Late(got[r])'
        BY <1>1, <2>3 DEF Inv, Accounted, TypeOK
    <2>6. \A t \in Seeder : spc'[t] = "mset" => Late(found[t])' /\ found'[t] > 0
        BY <1>1, <1>4, <2>3 DEF Inv, Accounted, TypeOK
    <2>7. Created' /\ Prewarmed'
        BY <1>1, <1>3, <1>4 DEF Inv, Created, Prewarmed, TypeOK
    <2> QED
        BY <2>1, <2>4, <2>5, <2>6, <2>7 DEF Inv, Accounted
<1>5. CASE spc' = [spc EXCEPT ![s] = "failed"] /\ NotCorrected(1)
    <2>1. Accounted' /\ raced' \subseteq Nat /\ left' \subseteq Nat
        BY <1>1, <1>3, <1>5, SettersStay, Correction
    <2>2. TypeOK'
        BY <1>1, <1>3, <1>5, <2>1 DEF Inv, TypeOK, SeedEnded
    <2>3. Created' /\ Prewarmed'
        BY <1>1, <1>3, <1>5 DEF Inv, Created, Prewarmed, TypeOK
    <2> QED
        BY <2>1, <2>2, <2>3 DEF Inv
<1> QED
    BY <1>4, <1>5 DEF CreateIfNotExists, Step

LEMMA FindInv == ASSUME Inv, NEW s \in Seeder, Find(s) PROVE Inv'
<1>1. /\ spc[s] = "find" /\ spc' = [spc EXCEPT ![s] = "mset"] /\ found' = [found EXCEPT ![s] = source]
      /\ UNCHANGED <<faults, source, cached, lock, pc, got, tries, hit, eternal, wpc, made, raced, left, blank>>
    BY DEF Find, Step, cacheVars
<1>2. TypeOK' /\ source > 0
    BY <1>1 DEF Inv, Created, TypeOK
<1> QED
    BY <1>1, <1>2, Aside DEF Inv, Accounted, TypeOK

LEMMA MsetInv == ASSUME Inv, NEW s \in Seeder, Mset(s) PROVE Inv'
<1>1. /\ spc[s] = "mset" /\ found' = [found EXCEPT ![s] = 0]
      /\ UNCHANGED <<faults, source, lock, pc, got, tries, hit, wpc, made, blank>>
    BY DEF Mset
<1>2. PICK x \in {"expire", "halfway", "failed"} :
          /\ spc' = [spc EXCEPT ![s] = x]
          /\ \/ cached' = found[s] /\ eternal' = TRUE /\ x # "failed"
             \/ UNCHANGED <<cached, eternal>> /\ x = "failed" /\ NotCorrected(1)
          /\ Corrected(1) \/ NotCorrected(1)
    BY DEF Mset, Step
<1>3. found[s] > 0 /\ found[s] \in Nat /\ source > 0 /\ source \in Nat
    BY <1>1 DEF Inv, Accounted, Created, TypeOK
<1>4. \A t \in Seeder : spc'[t] = "mset" => spc[t] = "mset" /\ found'[t] = found[t]
    BY <1>1, <1>2 DEF Inv, TypeOK
<1>5. Accounted' /\ raced' \subseteq Nat /\ left' \subseteq Nat
    <2>1. \/ cached' = cached /\ NotCorrected(1)
          \/ spc[s] = "mset" /\ cached' = found[s] /\ found[s] >= 1
        BY <1>1, <1>2, <1>3
    <2> QED
        BY <1>1, <1>2, <1>3, <1>4, <2>1, SettersStay, Correction
<1>6. TypeOK'
    BY <1>1, <1>2, <1>3, <1>5 DEF Inv, TypeOK, SeedEnded
<1>7. Created' /\ Prewarmed'
    BY <1>1, <1>2, <1>3 DEF Inv, Created, Prewarmed, TypeOK
<1> QED
    BY <1>5, <1>6, <1>7 DEF Inv

LEMMA ExpireInv == ASSUME Inv, NEW s \in Seeder, Expire(s) PROVE Inv'
<1>1. PICK x \in {"done", "halfway"} :
          spc' = [spc EXCEPT ![s] = x] /\ (eternal' = FALSE \/ (x = "halfway" /\ eternal' = eternal))
    BY DEF Expire, SetTtl, Step
<1>2. /\ spc[s] = "expire"
      /\ UNCHANGED <<faults, source, cached, lock, pc, got, tries, hit, wpc, made, found, raced, left, blank>>
    BY DEF Expire, cacheVars
<1>3. TypeOK'
    BY <1>1, <1>2 DEF Inv, TypeOK, SeedEnded
<1> QED
    BY <1>1, <1>2, <1>3, Aside DEF Inv, Accounted, TypeOK

LEMMA SeedingFailsInv == ASSUME Inv, NEW s \in Seeder, SeedingFails(s) PROVE Inv'
<1>1. UNCHANGED <<faults, source, cached, lock, pc, got, tries, hit, eternal, wpc, made, found, blank>>
    BY DEF SeedingFails, cacheVars
<1>2. ASSUME UNCHANGED <<raced, left>>,
             \/ spc[s] = "create" /\ spc' = [spc EXCEPT ![s] = "failed"]
             \/ spc[s] = "expire" /\ spc' = [spc EXCEPT ![s] = "halfway"]
      PROVE  Inv'
    <2>1. TypeOK'
        BY <1>1, <1>2 DEF Inv, TypeOK, SeedEnded
    <2> QED
        BY <1>1, <1>2, <2>1, Aside DEF Inv, Accounted, TypeOK
<1>3. ASSUME spc[s] \in {"find", "mset"}, spc' = [spc EXCEPT ![s] = "failed"], NotCorrected(1)
      PROVE  Inv'
    <2>1. source \in Nat /\ \A t \in Seeder : spc'[t] = "mset" => spc[t] = "mset" /\ found'[t] = found[t]
        BY <1>1, <1>3 DEF Inv, TypeOK
    <2>2. Accounted' /\ raced' \subseteq Nat /\ left' \subseteq Nat
        BY <1>1, <1>3, <2>1, SettersStay, Correction
    <2>3. TypeOK'
        BY <1>1, <1>3, <2>2 DEF Inv, TypeOK, SeedEnded
    <2>4. Created' /\ Prewarmed'
        BY <1>1, <1>3 DEF Inv, Created, Prewarmed, TypeOK
    <2> QED
        BY <2>2, <2>3, <2>4 DEF Inv
<1> QED
    BY <1>2, <1>3 DEF SeedingFails, Step

----------------------------------------------------------------------------

LEMMA NextInv == Inv /\ [Next]_vars => Inv'
<1> SUFFICES ASSUME Inv, [Next]_vars PROVE Inv'
    OBVIOUS
<1>1. CASE ForgetCached
    <2>1. TypeOK'
        BY <1>1 DEF ForgetCached, ExpireCached, Inv, TypeOK
    <2> QED
        BY <1>1, <2>1, Aside DEF ForgetCached, ExpireCached, Inv, Accounted
<1>2. CASE ExpireLock /\ UNCHANGED ownVars
    <2>1. TypeOK'
        BY <1>2 DEF ExpireLock, ownVars, Inv, TypeOK
    <2> QED
        BY <1>2, <2>1, Aside DEF ExpireLock, ownVars, Inv, Accounted
<1>3. CASE UNCHANGED vars
    <2>1. TypeOK'
        BY <1>3 DEF vars, cacheVars, ownVars, Inv, TypeOK
    <2> QED
        BY <1>3, <2>1, Aside DEF vars, cacheVars, ownVars, Inv, Accounted
<1>4. CASE Served
    BY <1>3, <1>4 DEF Served
<1>5. ASSUME NEW s \in Seeder, Seed(s) PROVE Inv'
    BY <1>5, CreateInv, FindInv, MsetInv, ExpireInv DEF Seed
<1>6. ASSUME NEW r \in Reader, Serve(r) PROVE Inv'
    BY <1>6, AskInv, AnswerInv DEF Serve
<1> QED
    BY <1>1, <1>2, <1>3, <1>4, <1>5, <1>6, BeginInv, UpsertInv, InvalidateInv, SeedingFailsInv
       DEF Next

LEMMA Invariance == Spec => []Inv
BY InitInv, NextInv, PTL DEF Spec

(* getSettingValue never asks getOrSet more than three times, and a reader   *)
(* about to store has a value.                                               *)
THEOREM TypeCorrect == Spec => []TypeOK
BY Invariance, PTL DEF Inv

(* Whatever fails and crashes, an outdated setting is in Redis only while    *)
(* its correction is under way, by a write that had read before it or, after *)
(* a correction that failed, until the next; and it has a TTL unless a       *)
(* pre-warming stopped halfway.                                              *)
THEOREM OutdatedIsExplained == Spec => []OutdatedHasCause
<1>1. Inv => OutdatedHasCause
    BY DEF Inv, Accounted, Explained, Prewarmed, OutdatedHasCause
<1> QED
    BY <1>1, Invariance, PTL

(* The settings have the protection of the lock as the roles have: updates,  *)
(* seeders and repeated tries do not touch it.                               *)
THEOREM OneFlightOfSettings == Spec => []SingleFlight
<1>1. Init => LockHeld
    BY DEF Init, LockHeld, Holding
<1>2. TypeOK /\ LockHeld /\ [Next]_vars => LockHeld'
    <2> SUFFICES ASSUME TypeOK, LockHeld, [Next]_vars PROVE LockHeld'
        OBVIOUS
    <2>1. pc \in [Reader -> Reading \cup Ended \cup {"idle"}]
        BY DEF TypeOK
    <2>2. CASE (\E r \in Reader : Ask(r)) \/ ExpireLock
        BY <2>1, <2>2, ReadHeld DEF Ask
    <2> USE <2>1 DEF LockHeld, Holding, Goto, cacheVars
    <2>3. ASSUME NEW r \in Reader, Begin(r) \/ Answer(r) PROVE LockHeld'
        BY <2>3 DEF Begin, Answer
    <2>4. ASSUME NEW w \in Setter, Upsert(w) \/ Invalidate(w) PROVE LockHeld'
        BY <2>4 DEF Upsert, Invalidate
    <2>5. ASSUME NEW s \in Seeder, Seed(s) \/ SeedingFails(s) PROVE LockHeld'
        BY <2>5 DEF Seed, CreateIfNotExists, Find, Mset, Expire, SeedingFails
    <2>6. CASE ForgetCached \/ UNCHANGED vars
        BY <2>6 DEF ForgetCached, ExpireCached, vars
    <2> QED
        BY <2>2, <2>3, <2>4, <2>5, <2>6 DEF Next, Serve, Served
<1> QED
    BY <1>1, <1>2, HeldIsOne, TypeCorrect, PTL DEF Spec

----------------------------------------------------------------------------
(* SettingsCache: a null takes deletions *)

(* Without faults: whoever is under the lock holds it, and nobody else does. *)
OneHolder ==
    /\ \A q \in Reader : pc[q] \in Holding => lock = q
    /\ lock # None => pc[lock] \in Holding
    /\ \A q \in Reader : pc[q] \notin {"releaseThrow", "threw"}
    /\ \A w \in Setter : wpc[w] # "failed"

Deleted == {w \in Setter : wpc[w] = "done"}
Dels == Cardinality(Deleted)
Present == IF cached = None THEN 0 ELSE 1
Told(r) == IF r \in blank THEN 1 ELSE 0

(* The nulls that r has got so far but for the source's. *)
Nulls(r) == tries[r] - Told(r) + (IF pc[r] = "returned" /\ got[r] = None THEN 1 ELSE 0)

(* Each takes a deletion of its own: the holder that r waited for has stored *)
(* a value, and it was there no more when r had a last look.                 *)
Paid ==
    /\ \A r \in Reader : Nulls(r) <= Dels
    /\ (\E q \in Reader : pc[q] = "release") => \A r \in Reader : Nulls(r) + 1 <= Dels + Present
    /\ \A r \in Reader :
          pc[r] = "wait" /\ (\A q \in Reader : pc[q] \notin {"fetch", "store"})
              => Nulls(r) + 1 <= Dels + Present
    /\ \A r \in Reader : pc[r] = "returned" => Dels + Present >= 1

(* After the source's null the setting has been made, or the null is cached. *)
ToldOnce ==
    /\ \A w \in Setter : wpc[w] \in {"del", "done"} => source > 0
    /\ \A r \in Reader : pc[r] = "idle" => r \notin blank /\ tries[r] = 0
    /\ \A r \in Reader : pc[r] \in {"store", "release"} => got[r] # None
    /\ \A r \in blank :
          /\ pc[r] \in Reading => tries[r] > 0
          /\ pc[r] = "get" => Dels + Present >= 1
          /\ pc[r] \in {"lock", "wait", "fetch", "store"} => Dels >= 1
          /\ pc[r] \in {"store", "release"} => got[r] # Missing
          /\ pc[r] = "returned" /\ ~hit[r] => got[r] # Missing

NullIsPaid ==
    \A r \in Reader : pc[r] = "null" /\ got[r] # Missing => Dels >= MaxTries - Told(r)

Calm == IsFiniteSet(Deleted) /\ OneHolder /\ Paid /\ ToldOnce /\ NullIsPaid

LEMMA CalmInit == Init /\ faults = {} => Calm
<1> SUFFICES ASSUME Init PROVE Calm
    OBVIOUS
<1>1. Deleted = {}
    BY DEF Init, Deleted
<1>2. IsFiniteSet(Deleted) /\ Dels = 0
    BY <1>1, FS_EmptySet DEF Dels
<1> QED
    BY <1>2
       DEF Init, Calm, OneHolder, Paid, ToldOnce, NullIsPaid, Nulls, Told, Present, Reading,
           Holding

(* The deletions are a number, and a setting that has been deleted exists.   *)
LEMMA DelsCount == ASSUME Calm PROVE Dels \in Nat /\ (Dels >= 1 => source > 0)
<1>1. Dels \in Nat /\ (Deleted = {} => Dels = 0)
    BY FS_CardinalityType, FS_EmptySet DEF Calm, Dels
<1>2. Deleted # {} => source > 0
    BY DEF Deleted, Calm, ToldOnce
<1> QED BY <1>1, <1>2

LEMMA AskCalm == ASSUME Inv, Calm, faults = {}, NEW r \in Reader, Ask(r) PROVE Calm'
<1> USE NoneIsNoValue
<1>1. /\ Read(r) /\ UNCHANGED <<wpc, made, spc, found, raced, blank, tries>>
      /\ hit' = [hit EXCEPT ![r] = pc[r] \in {"get", "wait"} /\ got'[r] # None]
    <2>1. Read(r) /\ UNCHANGED <<wpc, made, spc, found, raced, blank>>
          /\ hit' = [hit EXCEPT ![r] = pc[r] \in {"get", "wait"} /\ got'[r] # None]
        BY DEF Ask
    <2>2. pc'[r] # "threw"
        BY <2>1
           DEF Read, Get, TryLock, Fetch, Callback, Store, Release, Poll, GiveUp, Throw,
               Return, Goto,
                    Calm, OneHolder, Inv, TypeOK
    <2>3. tries' = tries
        BY <2>2 DEF Ask, Inv, TypeOK
    <2> QED BY <2>1, <2>3
<1>2. IsFiniteSet(Deleted)' /\ Dels' = Dels
    BY <1>1 DEF Deleted, Dels, Calm
<1>3. Dels \in Nat /\ (Dels >= 1 => source > 0) /\ tries \in [Reader -> 0..2]
    BY DelsCount DEF Inv, TypeOK, MaxTries
<1>4. CASE Get(r)
    <2>1. OneHolder'
        BY <1>1, <1>4 DEF Get, Return, Throw, Goto, Calm, OneHolder, Inv, TypeOK, Holding
    <2>2. Paid'
        BY <1>1, <1>2, <1>3, <1>4
           DEF Get, Return, Throw, Goto, Calm, Paid, Inv, TypeOK, Nulls, Told, Present
    <2>3. ToldOnce'
        <3>1. /\ \A q \in Reader : q # r => pc'[q] = pc[q] /\ got'[q] = got[q]
              /\ pc[r] = "get" /\ pc'[r] \in {"returned", "lock"}
              /\ pc'[r] = "lock" => Present = 0
              /\ Present' = Present /\ blank \subseteq Reader /\ UNCHANGED source
            BY <1>4 DEF Get, Return, Throw, Goto, Inv, TypeOK, Present
        <3>2. (\A q \in Reader : q # r => hit'[q] = hit[q]) /\ (pc'[r] = "returned" => hit'[r])
            BY <1>1, <1>4 DEF Get, Return, Throw, Goto, Inv, TypeOK
        <3> QED
            BY <1>1, <1>2, <1>3, <3>1, <3>2 DEF Calm, ToldOnce, Reading, Holding
    <2>4. NullIsPaid'
        BY <1>1, <1>2, <1>4 DEF Get, Return, Throw, Goto, Calm, NullIsPaid, Inv, TypeOK, Told
    <2> QED BY <1>2, <2>1, <2>2, <2>3, <2>4 DEF Calm
<1>5. CASE TryLock(r)
    <2>1. OneHolder'
        BY <1>1, <1>5 DEF TryLock, TakeIfFree, Throw, Goto, Calm, OneHolder, Inv, TypeOK, Holding
    <2>2. Paid'
        BY <1>1, <1>2, <1>3, <1>5
           DEF TryLock, TakeIfFree, Throw, Goto, Calm, OneHolder, Paid, Inv, TypeOK, Nulls,
               Told, Present, Holding
    <2>3. ToldOnce'
        BY <1>1, <1>2, <1>3, <1>5
           DEF TryLock, TakeIfFree, Throw, Goto, Calm, ToldOnce, Inv, TypeOK, Reading,
               Holding, Present
    <2>4. NullIsPaid'
        BY <1>1, <1>2, <1>5
           DEF TryLock, TakeIfFree, Throw, Goto, Calm, NullIsPaid, Inv, TypeOK, Told
    <2> QED BY <1>2, <2>1, <2>2, <2>3, <2>4 DEF Calm
<1>6. CASE Fetch(r)
    <2>1. OneHolder'
        BY <1>1, <1>6 DEF Fetch, Callback, Goto, Calm, OneHolder, Inv, TypeOK, Holding
    <2>2. Paid'
        BY <1>1, <1>2, <1>3, <1>6
           DEF Fetch, Callback, Goto, Calm, OneHolder, Paid, Inv, TypeOK, Nulls, Told,
               Present, Holding
    <2>3. ToldOnce'
        BY <1>1, <1>2, <1>3, <1>6
           DEF Fetch, Callback, Goto, Calm, ToldOnce, Inv, TypeOK, Reading, Holding, Present,
               Missing
    <2>4. NullIsPaid'
        BY <1>1, <1>2, <1>6 DEF Fetch, Callback, Goto, Calm, NullIsPaid, Inv, TypeOK, Told
    <2> QED BY <1>2, <2>1, <2>2, <2>3, <2>4 DEF Calm
<1>7. CASE Store(r)
    <2>1. OneHolder'
        BY <1>1, <1>7 DEF Store, Goto, Calm, OneHolder, Inv, TypeOK, Holding
    <2>2. Paid'
        BY <1>1, <1>2, <1>3, <1>7
           DEF Store, Goto, Calm, OneHolder, Paid, ToldOnce, Inv, TypeOK, Nulls, Told,
               Present, Holding
    <2>3. ToldOnce'
        BY <1>1, <1>2, <1>3, <1>7
           DEF Store, Goto, Calm, ToldOnce, Inv, TypeOK, Reading, Holding, Present, Missing
    <2>4. NullIsPaid'
        BY <1>1, <1>2, <1>7 DEF Store, Goto, Calm, NullIsPaid, Inv, TypeOK, Told
    <2> QED BY <1>2, <2>1, <2>2, <2>3, <2>4 DEF Calm
<1>8. CASE Release(r)
    <2>1. OneHolder'
        BY <1>1, <1>8 DEF Release, Goto, Calm, OneHolder, Inv, TypeOK, Holding
    <2>2. Paid'
        BY <1>1, <1>2, <1>3, <1>8
           DEF Release, Goto, Calm, OneHolder, Paid, ToldOnce, Inv, TypeOK, Nulls, Told,
               Present, Holding, Reading
    <2>3. ToldOnce'
        BY <1>1, <1>2, <1>3, <1>8
           DEF Release, Goto, Calm, OneHolder, ToldOnce, Inv, TypeOK, Reading, Holding,
               Present, Missing
    <2>4. NullIsPaid'
        BY <1>1, <1>2, <1>8 DEF Release, Goto, Calm, NullIsPaid, Inv, TypeOK, Told
    <2> QED BY <1>2, <2>1, <2>2, <2>3, <2>4 DEF Calm
<1>9. CASE Poll(r)
    <2>1. OneHolder'
        BY <1>1, <1>9 DEF Poll, Return, Goto, Calm, OneHolder, Inv, TypeOK, Holding
    <2>2. Paid'
        BY <1>1, <1>2, <1>3, <1>9
           DEF Poll, Return, Goto, Calm, OneHolder, Paid, Inv, TypeOK, Nulls, Told, Present,
               Holding
    <2>3. ToldOnce'
        BY <1>1, <1>2, <1>3, <1>9
           DEF Poll, Return, Goto, Calm, OneHolder, ToldOnce, Inv, TypeOK, Reading, Holding,
               Present, Missing
    <2>4. NullIsPaid'
        BY <1>1, <1>2, <1>9 DEF Poll, Return, Goto, Calm, NullIsPaid, Inv, TypeOK, Told
    <2> QED BY <1>2, <2>1, <2>2, <2>3, <2>4 DEF Calm
<1>10. CASE GiveUp(r)
    <2>1. OneHolder'
        BY <1>1, <1>10 DEF GiveUp, Return, Goto, Calm, OneHolder, Inv, TypeOK, Holding
    <2>2. Paid'
        BY <1>1, <1>2, <1>3, <1>10
           DEF GiveUp, WaitOver, Return, Goto, Calm, OneHolder, Paid, ToldOnce, Inv, TypeOK,
               Nulls, Told, Present, Holding, Reading
    <2>3. ToldOnce'
        BY <1>1, <1>2, <1>3, <1>10
           DEF GiveUp, Return, Goto, Calm, OneHolder, ToldOnce, Inv, TypeOK, Reading, Holding,
               Present, Missing
    <2>4. NullIsPaid'
        BY <1>1, <1>2, <1>10 DEF GiveUp, Return, Goto, Calm, NullIsPaid, Inv, TypeOK, Told
    <2> QED BY <1>2, <2>1, <2>2, <2>3, <2>4 DEF Calm
<1> QED
    BY <1>1, <1>4, <1>5, <1>6, <1>7, <1>8, <1>9, <1>10 DEF Read

LEMMA AnswerCalm == ASSUME Inv, Calm, faults = {}, NEW r \in Reader, Answer(r) PROVE Calm'
<1> USE NoneIsNoValue DEF MaxTries, Missing
<1>1. /\ pc[r] = "returned" /\ hit' = [hit EXCEPT ![r] = FALSE]
      /\ UNCHANGED <<source, cached, lock, wpc>>
      /\ \E x \in {"value", "null", "get"} : pc' = [pc EXCEPT ![r] = x]
    BY DEF Answer, Goto
<1>2. IsFiniteSet(Deleted)' /\ Dels' = Dels /\ Present' = Present
    BY <1>1 DEF Deleted, Dels, Calm, Present
<1>3. Dels \in Nat /\ (Dels >= 1 => source > 0) /\ tries \in [Reader -> 0..2] /\ Present \in 0..1
    BY DelsCount DEF Inv, TypeOK, Present
<1>4. OneHolder'
    BY <1>1 DEF Calm, OneHolder, Inv, TypeOK, Holding
<1>5. CASE \/ hit[r] \/ got[r] \notin {None, 0}
    <2>1. /\ pc' = [pc EXCEPT ![r] = IF got[r] = 0 THEN "null" ELSE "value"]
          /\ tries' = [tries EXCEPT ![r] = 0]
          /\ got' = [got EXCEPT ![r] = IF @ = 0 THEN @ ELSE None] /\ blank' = blank
        BY <1>5 DEF Answer, Goto
    <2>2. \A q \in Reader : Nulls(q)' <= Nulls(q)
        BY <1>1, <1>3, <2>1 DEF Inv, TypeOK, Nulls, Told
    <2>3. Paid'
        BY <1>1, <1>2, <1>3, <2>1, <2>2 DEF Calm, Paid, Inv, TypeOK, Nulls, Told
    <2>4. ToldOnce'
        BY <1>1, <1>2, <2>1 DEF Calm, ToldOnce, Inv, TypeOK, Reading, Holding
    <2>5. NullIsPaid'
        BY <1>2, <2>1 DEF Calm, NullIsPaid, Inv, TypeOK, Told
    <2> QED BY <1>2, <1>4, <2>3, <2>4, <2>5 DEF Calm
<1>6. CASE ~hit[r] /\ got[r] \in {None, 0} /\ TriesLeft(r)
    <2>1. /\ pc' = [pc EXCEPT ![r] = "get"]
          /\ tries' = [tries EXCEPT ![r] = @ + 1]
          /\ got' = [got EXCEPT ![r] = None]
          /\ blank' = IF got[r] = 0 THEN blank \cup {r} ELSE blank
        BY <1>6 DEF Answer, Goto
    <2>2. got[r] = 0 => r \notin blank
        BY <1>1, <1>6 DEF Calm, ToldOnce
    <2>3. \A q \in Reader : Nulls(q)' = Nulls(q)
        BY <1>1, <1>3, <1>6, <2>1, <2>2 DEF Inv, TypeOK, Nulls, Told
    <2>4. Paid'
        BY <1>1, <1>2, <1>3, <2>1, <2>3 DEF Calm, Paid, Inv, TypeOK
    <2>5. Dels + Present >= 1
        BY <1>1 DEF Calm, Paid
    <2>6. ToldOnce'
        BY <1>1, <1>2, <1>3, <2>1, <2>5 DEF Calm, ToldOnce, Inv, TypeOK, Reading, Holding
    <2>7. NullIsPaid'
        BY <1>2, <2>1 DEF Calm, NullIsPaid, Inv, TypeOK, Told
    <2> QED BY <1>2, <1>4, <2>4, <2>6, <2>7 DEF Calm
<1>7. CASE ~hit[r] /\ got[r] \in {None, 0} /\ ~TriesLeft(r)
    <2>1. /\ pc' = [pc EXCEPT ![r] = "null"]
          /\ tries' = [tries EXCEPT ![r] = 0] /\ UNCHANGED <<got, blank>>
        BY <1>7 DEF Answer, Goto
    <2>2. \A q \in Reader : Nulls(q)' <= Nulls(q)
        BY <1>1, <1>3, <2>1 DEF Inv, TypeOK, Nulls, Told
    <2>3. Paid'
        BY <1>1, <1>2, <1>3, <2>1, <2>2 DEF Calm, Paid, Inv, TypeOK, Nulls, Told
    <2>4. ToldOnce'
        BY <1>1, <1>2, <2>1 DEF Calm, ToldOnce, Inv, TypeOK, Reading, Holding
    <2>5. got[r] # 0 => Dels >= 3 - Told(r)
        BY <1>1, <1>3, <1>7 DEF TriesLeft, Calm, Paid, Nulls, Told
    <2>6. NullIsPaid'
        BY <1>2, <2>1, <2>5 DEF Calm, NullIsPaid, Inv, TypeOK, Told
    <2> QED BY <1>2, <1>4, <2>3, <2>4, <2>6 DEF Calm
<1> QED BY <1>5, <1>6, <1>7

LEMMA SumsKept ==
    ASSUME NEW a \in Nat, NEW b \in Nat, NEW c \in Nat, NEW d \in Nat, c >= a, c + d >= a + b
    PROVE  /\ \A n \in Int : n <= a => n <= c
           /\ \A n \in Int : n + 1 <= a + b => n + 1 <= c + d
           /\ a + b >= 1 => c + d >= 1
           /\ \A n \in Int : a >= n => c >= n
OBVIOUS

(* The steps that are not a reader's: what counts is never less than before, *)
(* unless Redis forgets the value, which it does not do to a call.           *)
LEMMA OthersCalm ==
    ASSUME Inv, Calm, faults = {},
           UNCHANGED <<lock, pc, got, tries, hit, blank>>, source' >= source,
           IsFiniteSet(Deleted)', Dels' >= Dels, Dels' \in Nat,
           Dels' + Present' >= Dels + Present,
           \A w \in Setter : wpc'[w] # "failed" /\ (wpc'[w] \in {"del", "done"} => source' > 0)
    PROVE  Calm'
<1>1. Dels \in Nat /\ Present \in Nat /\ Present' \in Nat /\ tries \in [Reader -> 0..2]
    BY DelsCount DEF Present, Inv, TypeOK, MaxTries
<1>2. \A r \in Reader : Nulls(r)' = Nulls(r) /\ Told(r)' = Told(r) /\ Told(r) \in Nat /\ Nulls(r) \in Int /\ Nulls(r)' \in Int
    BY <1>1 DEF Nulls, Told
<1>3. OneHolder'
    BY DEF Calm, OneHolder
<1>4. /\ \A n \in Int : n <= Dels => n <= Dels'
      /\ \A n \in Int : n + 1 <= Dels + Present => n + 1 <= Dels' + Present'
      /\ Dels + Present >= 1 => Dels' + Present' >= 1
      /\ \A n \in Int : Dels >= n => Dels' >= n
    BY <1>1, SumsKept
<1>5. Paid'
    BY <1>2, <1>4 DEF Calm, Paid
<1>6. ToldOnce'
    BY <1>4 DEF Calm, ToldOnce, Reading, Holding
<1>7. NullIsPaid'
    BY <1>2, <1>4 DEF Calm, NullIsPaid, MaxTries
<1> QED BY <1>3, <1>5, <1>6, <1>7 DEF Calm

CalmInv == faults = {} => Calm

LEMMA CalmStep == Inv /\ Inv' /\ CalmInv /\ [Next]_vars => CalmInv'
<1> SUFFICES ASSUME Inv, Inv', CalmInv, [Next]_vars, faults' = {} PROVE Calm'
    BY DEF CalmInv
<1> USE DEF cacheVars, ownVars
<1>1. faults = {} /\ Calm
    BY DEF CalmInv, Next, Begin, Serve, Ask, Answer, Read, Get, TryLock, Fetch, Store, Release, Poll, GiveUp,
           Upsert, Invalidate, Seed, CreateIfNotExists, Find, Mset, Expire, SeedingFails,
           ForgetCached, ExpireCached, ExpireLock, Served, vars
<1>2. Dels \in Nat /\ (Dels >= 1 => source > 0) /\ Present \in Nat /\ IsFiniteSet(Deleted) /\ source \in Nat
    BY <1>1, DelsCount DEF Present, Calm, Inv, TypeOK
<1>3. wpc' = wpc => Dels' = Dels /\ IsFiniteSet(Deleted)'
    BY <1>2 DEF Dels, Deleted
<1>4. ASSUME NEW r \in Reader, Begin(r) PROVE Calm'
    <2>1. /\ pc[r] = "idle" /\ pc' = [pc EXCEPT ![r] = "get"]
          /\ UNCHANGED <<source, cached, lock, got, tries, hit, wpc, blank>>
        BY <1>4 DEF Begin, Goto
    <2>2. OneHolder'
        BY <1>1, <2>1 DEF Calm, OneHolder, Inv, TypeOK, Holding
    <2>3. (\A q \in Reader : Nulls(q)' = Nulls(q)) /\ Present' = Present
        BY <2>1 DEF Nulls, Told, Present, Inv, TypeOK
    <2>4. Paid'
        BY <1>1, <1>3, <2>1, <2>3 DEF Calm, Paid, Inv, TypeOK
    <2>5. ToldOnce'
        BY <1>1, <1>3, <2>1, <2>3 DEF Calm, ToldOnce, Inv, TypeOK
    <2>6. NullIsPaid'
        BY <1>1, <1>3, <2>1 DEF Calm, NullIsPaid, Told, Inv, TypeOK
    <2> QED BY <1>3, <2>1, <2>2, <2>4, <2>5, <2>6 DEF Calm
<1>5. ASSUME NEW r \in Reader, Serve(r) PROVE Calm'
    BY <1>1, <1>5, AskCalm, AnswerCalm DEF Serve
<1>6. ASSUME NEW w \in Setter, Upsert(w) PROVE Calm'
    <2>1. /\ source' = source + 1 /\ wpc[w] = "idle" /\ wpc' = [wpc EXCEPT ![w] = "del"]
          /\ UNCHANGED <<cached, lock, pc, got, tries, hit, blank>>
        BY <1>6 DEF Upsert
    <2>2. Deleted' = Deleted
        BY <2>1 DEF Deleted, Inv, TypeOK
    <2>3. Dels' = Dels /\ Present' = Present /\ IsFiniteSet(Deleted)'
        BY <1>2, <2>1, <2>2 DEF Dels, Present
    <2>4. \A u \in Setter : wpc'[u] # "failed" /\ (wpc'[u] \in {"del", "done"} => source' > 0)
        BY <1>1, <1>2, <2>1 DEF Calm, OneHolder, Inv, TypeOK
    <2> QED BY <1>1, <1>2, <2>1, <2>3, <2>4, OthersCalm
<1>7. ASSUME NEW w \in Setter, Invalidate(w) PROVE Calm'
    <2>1. /\ cached' = None /\ wpc[w] = "del" /\ wpc' = [wpc EXCEPT ![w] = "done"]
          /\ UNCHANGED <<source, lock, pc, got, tries, hit, blank>>
        BY <1>1, <1>7 DEF Invalidate, Del
    <2>2. Deleted' = Deleted \cup {w} /\ w \notin Deleted
        BY <2>1 DEF Deleted, Inv, TypeOK
    <2>3. Dels' = Dels + 1 /\ IsFiniteSet(Deleted)'
        BY <1>2, <2>2, FS_AddElement DEF Dels
    <2>4. Present' = 0 /\ Present <= 1
        BY <2>1 DEF Present
    <2>5. \A u \in Setter : wpc'[u] # "failed" /\ (wpc'[u] \in {"del", "done"} => source' > 0)
        BY <1>1, <2>1 DEF Calm, OneHolder, ToldOnce, Inv, TypeOK
    <2> QED BY <1>1, <1>2, <2>1, <2>3, <2>4, <2>5, OthersCalm
<1>8. ASSUME NEW s \in Seeder, Seed(s) \/ SeedingFails(s) PROVE Calm'
    <2>1. /\ UNCHANGED <<lock, pc, got, tries, hit, wpc, blank>>
          /\ source' = source \/ source' = source + 1
          /\ cached' = cached \/ cached' = found[s]
        BY <1>1, <1>8 DEF Seed, SeedingFails, CreateIfNotExists, Find, Mset, Expire
    <2>2. Present <= Present' /\ Present' \in Nat
        BY <2>1, NoneIsNoValue DEF Present, Inv, TypeOK
    <2>3. \A u \in Setter : wpc'[u] # "failed" /\ (wpc'[u] \in {"del", "done"} => source' > 0)
        BY <1>1, <1>2, <2>1 DEF Calm, OneHolder, ToldOnce, Inv, TypeOK
    <2>4. \A n, p, q \in Nat : p <= q => n + q >= n + p
        OBVIOUS
    <2>5. Dels' = Dels /\ Dels' \in Nat /\ Dels' >= Dels /\ IsFiniteSet(Deleted)'
        BY <1>2, <1>3, <2>1
    <2>6. source' >= source
        BY <1>2, <2>1
    <2>7. Dels' + Present' >= Dels + Present
        BY <1>2, <2>2, <2>4, <2>5
    <2> QED BY <1>1, <1>2, <2>1, <2>3, <2>5, <2>6, <2>7, OthersCalm
<1>9. CASE ForgetCached
    <2>1. /\ cached' = None
          /\ UNCHANGED <<source, lock, pc, got, tries, hit, wpc, blank>>
          /\ \A r \in Reader : pc[r] \notin Holding \cup {"lock", "wait", "returned"}
                              /\ (pc[r] = "get" => tries[r] = 0)
        BY <1>1, <1>9 DEF ForgetCached, ExpireCached
    <2>2. \A r \in Reader : Nulls(r)' = Nulls(r)
        BY <2>1 DEF Nulls, Told
    <2>3. OneHolder'
        BY <1>1, <2>1 DEF Calm, OneHolder
    <2>4. Paid'
        BY <1>1, <1>3, <2>1, <2>2 DEF Calm, Paid, Holding
    <2>5. ToldOnce'
        BY <1>1, <2>1 DEF Calm, ToldOnce, Holding, Reading, Inv, TypeOK
    <2>6. NullIsPaid'
        BY <1>1, <1>3, <2>1 DEF Calm, NullIsPaid, Told
    <2> QED BY <1>3, <2>1, <2>3, <2>4, <2>5, <2>6 DEF Calm
<1>10. CASE ExpireLock /\ UNCHANGED ownVars
    BY <1>1, <1>10 DEF ExpireLock, Calm, OneHolder
<1>11. CASE UNCHANGED vars
    <2>1. Present' = Present
        BY <1>11 DEF vars, Present
    <2> QED
        BY <1>1, <1>2, <1>3, <1>11, <2>1, OthersCalm DEF vars, Calm, OneHolder, ToldOnce
<1> QED
    BY <1>4, <1>5, <1>6, <1>7, <1>8, <1>9, <1>10, <1>11 DEF Next, Served

(* With nothing going wrong a setting is read as null only when the source   *)
(* says so, or when a deletion has come between a store and a last look at   *)
(* each of the three tries, however many readers and updates there are.      *)
THEOREM NullsComeFromSource == Spec => []NullIsFromSource
<1>1. Init => CalmInv
    BY CalmInit DEF CalmInv
<1>2. CalmInv => NullIsFromSource
    BY DEF CalmInv, Calm, NullIsPaid, NullIsFromSource, Dels, Deleted, Told
<1> QED
    BY <1>1, <1>2, CalmStep, Invariance, PTL DEF Spec
=============================================================================
