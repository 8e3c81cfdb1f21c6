------------------------ MODULE SegmentIdGenerator ------------------------
(***************************************************************************)
(* generateSyncSeqId of libs/id-generator for one business key: MongoDB    *)
(* hands out segments of Step ids, Redis counts through the current        *)
(* segment, and a Redis lock keeps most pods from allocating at once.      *)
(* Keys do not share state, so one key is the general case.                *)
(*                                                                         *)
(* The Lua scripts run atomically in Redis and compare decimal strings by  *)
(* length, then character by character; on strings without leading zeros   *)
(* that is the order of the numbers, which is what is used here.           *)
(***************************************************************************)
EXTENDS Integers

CONSTANTS
    Request,      \* calls of generateSyncSeqId
    Step,         \* STEP, 1000 in the code
    MaxRetries,   \* MAX_RETRIES, 60 in the code
    None          \* no holder of the lock

ASSUME StepPositive == Step \in Nat \ {0}
ASSUME MaxRetriesNat == MaxRetries \in Nat
ASSUME NoneNotRequest == None \notin Request

VARIABLES
    dbMax,      \* sequences[key].max in MongoDB, 0 before the upsert
    segment,    \* the Redis hash seq:<key>: [max, cur], or Absent
    lock,       \* lock:seq:<key>
    pc,         \* where each call is between two awaits
    retries,    \* the loop counter of each call
    seg,        \* the upper limit MongoDB gave each call, 0 if none
    value,      \* the id each call got hold of, 0 if none
    consumed,   \* history: the ids Redis has given out
    last,       \* history: the id Redis gave out last, 0 if none
    intact      \* history: Redis has not lost the hash so far

vars == <<dbMax, segment, lock, pc, retries, seg, value, consumed, last, intact>>

Absent == [max |-> 0, cur |-> 0]

Holding == {"allocate", "sync", "second", "releaseOk", "releaseFailed"}
Running == Holding \cup {"fast", "lock", "retry"}
Ended == {"ok", "failed"}

TypeOK ==
    /\ dbMax \in Nat
    /\ segment \in [max : Nat, cur : Nat]
    /\ lock \in Request \cup {None}
    /\ pc \in [Request -> Running \cup Ended \cup {"idle"}]
    /\ retries \in [Request -> 0..MaxRetries]
    /\ seg \in [Request -> Nat]
    /\ value \in [Request -> Nat]
    /\ consumed \subseteq Nat
    /\ last \in Nat
    /\ intact \in BOOLEAN

Init ==
    /\ dbMax = 0
    /\ segment = Absent
    /\ lock = None
    /\ pc = [r \in Request |-> "idle"]
    /\ retries = [r \in Request |-> 0]
    /\ seg = [r \in Request |-> 0]
    /\ value = [r \in Request |-> 0]
    /\ consumed = {}
    /\ last = 0
    /\ intact = TRUE

Goto(r, point) == pc' = [pc EXCEPT ![r] = point]

(* Redis gives out the id n; the caller gets it unless the reply is lost. *)
GiveOut(n) == consumed' = consumed \cup {n} /\ last' = n /\ UNCHANGED intact

----------------------------------------------------------------------------
(* GENERATE_SEQ_LUA: the next id of the current segment, nil if there is     *)
(* none.                                                                     *)

Room == segment # Absent /\ ~(segment.cur >= segment.max)

(* The script ran and its reply took the call to `found`, or was lost. *)
Generate(r, found, lost) ==
    /\ Room
    /\ segment' = [segment EXCEPT !.cur = @ + 1]
    /\ GiveOut(segment.cur + 1)
    /\ \/ value' = [value EXCEPT ![r] = segment.cur + 1] /\ Goto(r, found)
       \/ UNCHANGED value /\ Goto(r, lost)

(* The script found no room and the call goes on at `nil`, or never ran. *)
NoId(r, nil, failed) ==
    /\ (~Room /\ Goto(r, nil)) \/ Goto(r, failed)
    /\ UNCHANGED <<segment, value, consumed, last, intact>>

(* The first id of the segment that ends at max; the mutant starts one lower. *)
FirstIdOffByOne(max) == max - Step
FirstId(max) == max - Step + 1

(* SYNC_SEGMENT_LUA: install the segment if it is newer than the current one; *)
(* the mutant installs it whatever it finds.                                  *)
AlwaysNewer(max) == TRUE
Newer(max) == segment = Absent \/ max > segment.max

----------------------------------------------------------------------------
(* generateSyncSeqId *)

Begin(r) ==
    /\ pc[r] = "idle"
    /\ Goto(r, "fast")
    /\ UNCHANGED <<dbMax, segment, lock, retries, seg, value, consumed, last, intact>>

FastPath(r) ==
    /\ pc[r] = "fast"
    /\ Generate(r, "ok", "failed") \/ NoId(r, "lock", "failed")
    /\ UNCHANGED <<dbMax, lock, retries, seg>>

(* The condition of the loop. *)
RetriesLeft(r) == retries[r] < MaxRetries

(* The head of the loop: give up, or SET NX EX 5.  The lock may be taken     *)
(* without the reply arriving, and then nobody holds it.                     *)
TryLock(r) ==
    /\ pc[r] = "lock"
    /\ \/ /\ ~RetriesLeft(r)
          /\ Goto(r, "failed")
          /\ UNCHANGED <<lock, retries>>
       \/ /\ RetriesLeft(r)
          /\ lock = None
          /\ lock' = r
          /\ Goto(r, "allocate") \/ Goto(r, "failed")
          /\ UNCHANGED retries
       \/ /\ RetriesLeft(r)
          /\ lock # None
          /\ retries' = [retries EXCEPT ![r] = @ + 1]
          /\ Goto(r, "retry")
          /\ UNCHANGED lock
       \/ /\ RetriesLeft(r)
          /\ Goto(r, "failed")
          /\ UNCHANGED <<lock, retries>>
    /\ UNCHANGED <<dbMax, segment, seg, value, consumed, last, intact>>

(* After the delay: another pod may have installed a segment. *)
Retry(r) ==
    /\ pc[r] = "retry"
    /\ Generate(r, "ok", "failed") \/ NoId(r, "lock", "failed")
    /\ UNCHANGED <<dbMax, lock, retries, seg>>

(* allocateSegment: $inc with upsert, atomic in MongoDB. *)
Allocate(r) ==
    /\ pc[r] = "allocate"
    /\ \/ /\ dbMax' = dbMax + Step
          /\ \/ seg' = [seg EXCEPT ![r] = dbMax + Step] /\ Goto(r, "sync")
             \/ UNCHANGED seg /\ Goto(r, "releaseFailed")
       \/ /\ Goto(r, "releaseFailed")
          /\ UNCHANGED <<dbMax, seg>>
    /\ UNCHANGED <<segment, lock, retries, value, consumed, last, intact>>

Sync(r) ==
    /\ pc[r] = "sync"
    /\ \/ /\ Newer(seg[r])
          /\ segment' = [max |-> seg[r], cur |-> FirstId(seg[r])]
          /\ GiveOut(FirstId(seg[r]))
          /\ \/ value' = [value EXCEPT ![r] = FirstId(seg[r])] /\ Goto(r, "releaseOk")
             \/ UNCHANGED value /\ Goto(r, "releaseFailed")
       \/ /\ (~Newer(seg[r]) /\ Goto(r, "second")) \/ Goto(r, "releaseFailed")
          /\ UNCHANGED <<segment, value, consumed, last, intact>>
    /\ UNCHANGED <<dbMax, lock, retries, seg>>

(* The segment was discarded: take an id from the newer one.  When there is  *)
(* none left the loop starts over without releasing the lock.                *)
Second(r) ==
    /\ pc[r] = "second"
    /\ Generate(r, "releaseOk", "releaseFailed") \/ NoId(r, "lock", "releaseFailed")
    /\ UNCHANGED <<dbMax, lock, retries, seg>>

(* The inner finally: delIfEqual, and if it throws the call fails even with  *)
(* an id in hand.                                                            *)
Release(r) ==
    /\ \/ /\ pc[r] = "releaseOk"
          /\ \/ Goto(r, "ok") /\ UNCHANGED value
             \/ Goto(r, "failed") /\ value' = [value EXCEPT ![r] = 0]
       \/ /\ pc[r] = "releaseFailed"
          /\ Goto(r, "failed")
          /\ UNCHANGED value
    /\ \/ lock' = IF lock = r THEN None ELSE lock
       \/ pc'[r] = "failed" /\ UNCHANGED lock
    /\ UNCHANGED <<dbMax, segment, retries, seg, consumed, last, intact>>

----------------------------------------------------------------------------
(* The environment *)

(* The 5s may run out under a holder that waits for MongoDB. *)
ExpireLock ==
    /\ lock # None
    /\ lock' = None
    /\ UNCHANGED <<dbMax, segment, pc, retries, seg, value, consumed, last, intact>>

(* Eviction, a flush, a failover to an empty replica. *)
LoseSegment ==
    /\ segment # Absent
    /\ segment' = Absent
    /\ intact' = FALSE
    /\ UNCHANGED <<dbMax, lock, pc, retries, seg, value, consumed, last>>

Crash(r) ==
    /\ pc[r] \in Running
    /\ Goto(r, "failed")
    /\ value' = [value EXCEPT ![r] = 0]
    /\ UNCHANGED <<dbMax, segment, lock, retries, seg, consumed, last, intact>>

Served ==
    /\ \A r \in Request : pc[r] \in Ended
    /\ lock = None
    /\ UNCHANGED vars

Serve(r) ==
    \/ FastPath(r) \/ TryLock(r) \/ Retry(r) \/ Allocate(r)
    \/ Sync(r) \/ Second(r) \/ Release(r)

Next ==
    \/ \E r \in Request : Begin(r) \/ Serve(r) \/ Crash(r)
    \/ ExpireLock
    \/ LoseSegment
    \/ Served

Spec == Init /\ [][Next]_vars

----------------------------------------------------------------------------
(* Properties *)

(* No two calls return the same id, whatever crashes, whatever replies are   *)
(* lost, whoever holds the lock and however often Redis loses the segment.   *)
UniqueIds ==
    \A q, r \in Request : value[q] # 0 /\ value[q] = value[r] => q = r

(* Every id ever given out lies at or below the limit that MongoDB keeps:    *)
(* after Redis has lost its segment, the next one starts above all of them.  *)
IdsBelowDurableMax == \A n \in consumed : 0 < n /\ n <= dbMax

(* While Redis keeps the hash, ids are given out in strictly increasing      *)
(* order: across segments, expired locks and pods that come back late with   *)
(* an old segment.                                                           *)
IncreasingWhileIntact == [][intact /\ last' # last => last' > last]_vars

(* What generateSyncSeqId is documented to do: strictly increasing ids. *)
StrictlyIncreasing == [][last' # last => last' > last]_vars
=============================================================================
