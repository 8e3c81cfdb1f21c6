--------------------------- MODULE SettingsCache ---------------------------
(***************************************************************************)
(* SettingsService on one setting: reads through getOrSet with retries,    *)
(* updates that delete the cached value without waiting for the deletion,  *)
(* and the seeder that creates the defaults and pre-warms the cache at the *)
(* start of an auth pod.  Each pod reads the same Redis.                   *)
(*                                                                         *)
(* Version 0 of the source is the absence of the setting, later versions   *)
(* are its values: cached, 0 is the text "null".                           *)
(***************************************************************************)
EXTENDS GetOrSet, FiniteSets

CONSTANTS
    Setter,      \* calls of setSettingValue
    Seeder       \* starts of a service that runs the seeds

Missing == 0
MaxTries == 3

VARIABLES
    tries,       \* tries[r]: how often getOrSet has returned null to r
    hit,         \* hit[r]: r has its value from Redis, as text
    eternal,     \* the cached value has no TTL
    wpc, made,   \* where each update is; the version it made
    spc, found,  \* where each seeder is; the version it has read
    raced,       \* history: old versions on their way to Redis at a correction of it
    left,        \* history: old versions in Redis whose correction has failed
    blank        \* history, kept without faults: who was told before that there is no setting

ownVars == <<tries, hit, eternal, wpc, made, spc, found, raced, left, blank>>
vars == <<cacheVars, ownVars>>

Ended == {"value", "null", "threw"}
SeedEnded == {"done", "failed", "halfway"}

TypeOK ==
    /\ faults \subseteq FaultKinds
    /\ source \in Nat
    /\ cached \in Nat \cup {None}
    /\ lock \in Reader \cup {None}
    /\ pc \in [Reader -> Reading \cup Ended \cup {"idle"}]
    /\ got \in [Reader -> Nat \cup {None}]
    /\ \A r \in Reader : pc[r] = "store" => got[r] \in Nat
    /\ tries \in [Reader -> 0..(MaxTries - 1)]
    /\ hit \in [Reader -> BOOLEAN]
    /\ eternal \in BOOLEAN
    /\ wpc \in [Setter -> {"idle", "del", "done", "failed"}]
    /\ made \in [Setter -> Nat]
    /\ spc \in [Seeder -> {"create", "find", "mset", "expire"} \cup SeedEnded]
    /\ found \in [Seeder -> Nat]
    /\ raced \subseteq Nat /\ left \subseteq Nat
    /\ blank \subseteq Reader

Init ==
    /\ faults \in FaultSets
    /\ source \in {Missing, 1}
    /\ cached = None /\ lock = None
    /\ pc = [r \in Reader |-> "idle"]
    /\ got = [r \in Reader |-> None]
    /\ tries = [r \in Reader |-> 0]
    /\ hit = [r \in Reader |-> FALSE]
    /\ eternal = FALSE
    /\ wpc = [w \in Setter |-> "idle"]
    /\ made = [w \in Setter |-> 0]
    /\ spc = [s \in Seeder |-> "create"]
    /\ found = [s \in Seeder |-> 0]
    /\ raced = {} /\ left = {}
    /\ blank = {}

----------------------------------------------------------------------------
(* getSettingValue *)

Begin(r) ==
    /\ pc[r] = "idle"
    /\ Goto(r, "get")
    /\ UNCHANGED <<faults, source, cached, lock, got, ownVars>>

(* A step of getOrSet.  SET with EX gives the value a TTL, if it happens.    *)
Ask(r) ==
    /\ Read(r)
    /\ hit' = [hit EXCEPT ![r] = pc[r] \in {"get", "wait"} /\ got'[r] # None]
    /\ IF pc[r] = "store" /\ pc'[r] = "release"
       THEN eternal' = FALSE
       ELSE \/ cached' = cached /\ UNCHANGED eternal
            \/ pc[r] = "store" /\ cached' = got[r] /\ eternal' = FALSE
    /\ tries' = [tries EXCEPT ![r] = IF pc'[r] = "threw" THEN 0 ELSE @]
    /\ UNCHANGED <<wpc, made, spc, found, raced, left, blank>>

(* A text from Redis is parsed and returned, null included; a value from the *)
(* source is returned; null from getOrSet is tried again, MaxTries in all.   *)
(* The mutants are content with one try, and try once more.                  *)
OneTry(r) == FALSE
OneTryMore(r) == tries[r] < MaxTries
TriesLeft(r) == tries[r] + 1 < MaxTries

Answer(r) ==
    /\ pc[r] = "returned"
    /\ IF hit[r] \/ got[r] \notin {None, Missing}
       THEN /\ Goto(r, IF got[r] = Missing THEN "null" ELSE "value")
            /\ tries' = [tries EXCEPT ![r] = 0]
            /\ got' = [got EXCEPT ![r] = IF @ = Missing THEN @ ELSE None]
            /\ UNCHANGED blank
       ELSE IF TriesLeft(r)
       THEN /\ Goto(r, "get")
            /\ tries' = [tries EXCEPT ![r] = @ + 1]
            /\ got' = [got EXCEPT ![r] = None]
            /\ blank' = IF got[r] = Missing /\ faults = {} THEN blank \cup {r} ELSE blank
       ELSE /\ Goto(r, "null")
            /\ tries' = [tries EXCEPT ![r] = 0]
            /\ UNCHANGED <<got, blank>>
    /\ hit' = [hit EXCEPT ![r] = FALSE]
    /\ UNCHANGED <<faults, source, cached, lock, eternal, wpc, made, spc, found, raced, left>>

Serve(r) == Ask(r) \/ Answer(r)

----------------------------------------------------------------------------
(* A correction of the versions before n overtakes those that readers and    *)
(* seeders are about to write.  One that fails leaves what is in Redis, too; *)
(* the next one to succeed makes up for it.                                  *)
OnTheWay(n) ==
    {v \in {got[r] : r \in {q \in Reader : pc[q] = "store"}}
           \cup {found[s] : s \in {t \in Seeder : spc[t] = "mset"}} : v < n}
From(n, versions) == {v \in versions : v >= n}
Corrected(n) == raced' = From(n, raced) \cup OnTheWay(n) /\ left' = From(n, left)
NotCorrected(n) ==
    /\ raced' = raced \cup OnTheWay(n)
    /\ left' = left \cup {v \in {cached'} \ {None} : v < n}

(* setSettingValue: the caller gets the document at once, or an exception,   *)
(* with which nothing is deleted, though the update may have been made.      *)
Upsert(w) ==
    /\ wpc[w] = "idle"
    /\ UNCHANGED <<faults, cached, lock, pc, got, tries, hit, eternal, spc, found, blank>>
    /\ \/ /\ source' = source + 1
          /\ made' = [made EXCEPT ![w] = source + 1]
          /\ wpc' = [wpc EXCEPT ![w] = "del"]
          /\ UNCHANGED <<raced, left>>
       \/ /\ "source" \in faults
          /\ wpc' = [wpc EXCEPT ![w] = "failed"]
          /\ UNCHANGED made
          /\ \/ source' = source + 1 /\ NotCorrected(source')
             \/ UNCHANGED <<source, raced, left>>

(* DEL, which nobody waits for; the mutant leaves the value to its TTL. *)
Leave == UNCHANGED <<cached, eternal>>
Del == cached' = None /\ eternal' = FALSE

(* Its failure is logged; a crash of the pod loses it. *)
Invalidate(w) ==
    /\ wpc[w] = "del"
    /\ UNCHANGED <<faults, source, lock, pc, got, tries, hit, made, spc, found, blank>>
    /\ \/ Del /\ wpc' = [wpc EXCEPT ![w] = "done"] /\ Corrected(made[w])
       \/ /\ faults \cap {"redis", "crash"} # {}
          /\ Del \/ UNCHANGED <<cached, eternal>>
          /\ wpc' = [wpc EXCEPT ![w] = "failed"]
          /\ NotCorrected(made[w])

----------------------------------------------------------------------------
(* onModuleInit with runSeeds: a setting that the seeder creates is correct  *)
(* in Redis, where it may be missing, when it has been pre-warmed.           *)

Step(s, point) == spc' = [spc EXCEPT ![s] = point]

CreateIfNotExists(s) ==
    /\ spc[s] = "create"
    /\ source' = IF source = Missing THEN source + 1 ELSE source
    /\ UNCHANGED <<faults, cached, lock, pc, got, tries, hit, eternal, wpc, made, found, blank>>
    /\ \/ Step(s, "find") /\ UNCHANGED <<raced, left>>
       \/ "source" \in faults /\ Step(s, "failed") /\ NotCorrected(1)

Find(s) ==
    /\ spc[s] = "find"
    /\ found' = [found EXCEPT ![s] = source]
    /\ Step(s, "mset")
    /\ UNCHANGED <<cacheVars, tries, hit, eternal, wpc, made, raced, left, blank>>

(* MSET, which overwrites and gives no TTL. *)
Mset(s) ==
    /\ spc[s] = "mset"
    /\ found' = [found EXCEPT ![s] = 0]
    /\ UNCHANGED <<faults, source, lock, pc, got, tries, hit, wpc, made, blank>>
    /\ \/ cached' = found[s] /\ eternal' = TRUE /\ Step(s, "expire") /\ Corrected(1)
       \/ /\ "redis" \in faults
          /\ \/ cached' = found[s] /\ eternal' = TRUE /\ Step(s, "halfway")
             \/ UNCHANGED <<cached, eternal>> /\ Step(s, "failed")
          /\ NotCorrected(1)

(* EXPIRE of whatever is there; the mutant forgets it. *)
NoTtl == UNCHANGED eternal
SetTtl == eternal' = FALSE

Expire(s) ==
    /\ spc[s] = "expire"
    /\ \/ SetTtl /\ Step(s, "done")
       \/ "redis" \in faults /\ eternal' \in {eternal, FALSE} /\ Step(s, "halfway")
    /\ UNCHANGED <<cacheVars, tries, hit, wpc, made, found, raced, left, blank>>

(* A query throws, or the pod dies: the pod does not start. *)
SeedingFails(s) ==
    /\ UNCHANGED <<cacheVars, tries, hit, eternal, wpc, made, found, blank>>
    /\ \/ /\ spc[s] = "create" /\ faults \cap {"source", "crash"} # {}
          /\ Step(s, "failed") /\ UNCHANGED <<raced, left>>
       \/ /\ \/ spc[s] = "find" /\ faults \cap {"source", "crash"} # {}
             \/ spc[s] = "mset" /\ "crash" \in faults
          /\ Step(s, "failed") /\ NotCorrected(1)
       \/ /\ spc[s] = "expire" /\ "crash" \in faults
          /\ Step(s, "halfway") /\ UNCHANGED <<raced, left>>

Seed(s) == CreateIfNotExists(s) \/ Find(s) \/ Mset(s) \/ Expire(s)

----------------------------------------------------------------------------

(* The TTL of the value runs out, which outlasts a call, or Redis evicts it. *)
ForgetCached ==
    /\ \/ "redis" \in faults
       \/ ~eternal /\ \A r \in Reader : pc[r] # "returned" /\ (pc[r] = "get" => tries[r] = 0)
    /\ ExpireCached
    /\ eternal' = FALSE
    /\ UNCHANGED <<tries, hit, wpc, made, spc, found, raced, left, blank>>

Served ==
    /\ \A r \in Reader : pc[r] \in Ended
    /\ \A w \in Setter : wpc[w] \in {"done", "failed"}
    /\ \A s \in Seeder : spc[s] \in SeedEnded
    /\ UNCHANGED vars

Next ==
    \/ \E r \in Reader : Begin(r) \/ Serve(r)
    \/ \E w \in Setter : Upsert(w) \/ Invalidate(w)
    \/ \E s \in Seeder : Seed(s) \/ SeedingFails(s)
    \/ ForgetCached
    \/ ExpireLock /\ UNCHANGED ownVars
    \/ Served

Spec == Init /\ [][Next]_vars

(* What a pod has begun is answered or times out, and a TTL runs out. *)
FairSpec ==
    /\ Spec
    /\ \A r \in Reader : WF_vars(Serve(r))
    /\ \A w \in Setter : WF_vars(Invalidate(w))
    /\ \A s \in Seeder : WF_vars(Seed(s))
    /\ WF_vars(ForgetCached)

----------------------------------------------------------------------------
(* Properties *)

(* A correction of version v is under way: an update that has not deleted    *)
(* the value yet, or a seeder that has created the setting.                  *)
UnderWay(v) ==
    \/ \E w \in Setter : wpc[w] = "del" /\ v < made[w]
    \/ v = Missing /\ \E s \in Seeder : spc[s] \in {"find", "mset"}

(* Which of a setting's outdated values are in Redis, and for how long.      *)
(* Once updates and pre-warming are through with it, it is one of those that *)
(* a reader or a seeder had read before a change and wrote after the         *)
(* correction, or that was there when a correction failed; no second reader, *)
(* update or seeder, lost reply or expired lock adds another.  And it goes   *)
(* with its TTL unless a pre-warming has stopped between MSET and EXPIRE.    *)
(* That there are any is not what the README promises: see StaleIsRemoved.   *)
OutdatedHasCause ==
    cached # None /\ cached < source =>
        /\ cached \in raced \cup left \/ UnderWay(cached)
        /\ eternal => \E s \in Seeder : spc[s] \in {"expire", "halfway"}

(* "It guarantees that stale data is removed from the cache" (libs/settings/ *)
(* README.md:37): after the updates' deletions what is in Redis is up to     *)
(* date.  A read that an update has overtaken refutes it, without any fault. *)
StaleIsRemoved ==
    faults = {} /\ (\A w \in Setter : wpc[w] \in {"idle", "done"})
                /\ (\A s \in Seeder : spc[s] = "done") =>
        cached \in {source, None}

(* Three tries outlast two invalidations: with nothing going wrong a setting *)
(* is not read as null, which would switch the password rules off, because   *)
(* of readers and updates that get in each other's way.  A try that the      *)
(* source has answered with null, before there was a setting, is one less.   *)
NullIsFromSource ==
    faults = {} =>
        \A r \in Reader : pc[r] = "null" /\ got[r] # Missing =>
            Cardinality({w \in Setter : wpc[w] = "done"})
                >= MaxTries - (IF r \in blank THEN 1 ELSE 0)

(* Unless Redis or a pod fails, an outdated setting does not stay: every     *)
(* value in Redis, pre-warmed ones included, has a TTL in the end.           *)
OutdatedGoes ==
    faults \cap {"redis", "crash"} = {} => []<>(cached \in {None, source})
=============================================================================
