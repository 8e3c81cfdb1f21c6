---------------------- MODULE SegmentIdGeneratorProofs ----------------------
(***************************************************************************)
(* For any calls, any segment length and any number of retries: ids are    *)
(* unique and durable, and increasing while Redis keeps the segment.       *)
(*                                                                         *)
(* The argument: the segments MongoDB hands out are disjoint.  One is in   *)
(* Redis, a few are on their way there, the others are used up or lost.    *)
(* No id of a segment on its way has been given out, and of the one in     *)
(* Redis exactly the ids up to cur.                                        *)
(***************************************************************************)
EXTENDS SegmentIdGenerator, TLAPS

(* The ids of the segment that ends at max; no id belongs to two segments    *)
(* whose ends are a Step apart.                                              *)
InSegment(n, max) == max - Step < n /\ n <= max
Disjoint(a, b) == a + Step <= b \/ b + Step <= a

(* The calls whose segment is on its way from MongoDB to Redis. *)
Carrying(r) == pc[r] = "sync"

CarriedAllocated == \A r \in Request : Carrying(r) => Step <= seg[r] /\ seg[r] <= dbMax

CarriedDisjoint ==
    \A q, r \in Request : q # r /\ Carrying(q) /\ Carrying(r) => Disjoint(seg[q], seg[r])

CarriedUnused ==
    \A r \in Request : Carrying(r) => \A n \in consumed : ~InSegment(n, seg[r])

SegmentBounds ==
    segment # Absent =>
        /\ segment.max <= dbMax
        /\ Step <= segment.max
        /\ InSegment(segment.cur, segment.max)

SegmentApart ==
    segment # Absent => \A r \in Request : Carrying(r) => Disjoint(seg[r], segment.max)

UsedUpToCur ==
    segment # Absent =>
        \A n \in consumed : InSegment(n, segment.max) => n <= segment.cur

ValuesConsumed == \A r \in Request : value[r] # 0 => value[r] \in consumed

NoValueYet ==
    \A r \in Request :
        pc[r] \in {"idle", "fast", "lock", "retry", "allocate", "sync", "second"}
            => value[r] = 0

LastIsCur ==
    intact => /\ segment = Absent => last = 0
              /\ segment # Absent => last = segment.cur

Inv ==
    /\ TypeOK
    /\ CarriedAllocated /\ CarriedDisjoint /\ CarriedUnused
    /\ SegmentBounds /\ SegmentApart /\ UsedUpToCur
    /\ ValuesConsumed /\ NoValueYet
    /\ IdsBelowDurableMax /\ UniqueIds /\ LastIsCur

----------------------------------------------------------------------------

LEMMA InitInv == Init => Inv
BY StepPositive, MaxRetriesNat, NoneNotRequest
   DEF Init, Inv, TypeOK, CarriedAllocated, CarriedDisjoint, CarriedUnused, SegmentBounds,
       SegmentApart, UsedUpToCur, ValuesConsumed, NoValueYet, IdsBelowDurableMax, UniqueIds,
       LastIsCur, Carrying, Absent, Running, Holding, Ended

(* The next id of the current segment was never given out. *)
LEMMA NextIdFresh ==
    ASSUME Inv, Room
    PROVE  /\ segment # Absent
           /\ segment.cur + 1 \in Nat
           /\ segment.cur + 1 > 0
           /\ segment.cur + 1 <= segment.max
           /\ InSegment(segment.cur + 1, segment.max)
           /\ segment.cur + 1 \notin consumed
BY StepPositive
   DEF Inv, TypeOK, Room, SegmentBounds, UsedUpToCur, InSegment, Absent

(* GENERATE_SEQ_LUA preserves the invariant. *)
LEMMA GenerateInv ==
    ASSUME Inv, NEW r \in Request, pc[r] \in {"fast", "retry", "second"},
           NEW found \in {"ok", "releaseOk"}, NEW lost \in {"failed", "releaseFailed"},
           Generate(r, found, lost), UNCHANGED <<dbMax, lock, retries, seg>>
    PROVE  Inv'
<1> USE StepPositive, MaxRetriesNat, NoneNotRequest
<1> DEFINE id == segment.cur + 1
<1>1. Room /\ segment' = [segment EXCEPT !.cur = @ + 1] /\ consumed' = consumed \cup {id}
      /\ last' = id /\ intact' = intact
    BY DEF Generate, GiveOut
<1>2. segment # Absent /\ id \in Nat /\ id > 0 /\ id <= segment.max
      /\ InSegment(id, segment.max) /\ id \notin consumed
    BY <1>1, NextIdFresh
<1>3. segment' # Absent /\ segment'.max = segment.max /\ segment'.cur = id
    BY <1>1, <1>2 DEF Inv, TypeOK, Absent
<1>4. /\ pc'[r] \in {"ok", "releaseOk", "failed", "releaseFailed"}
      /\ \A q \in Request : q # r => pc'[q] = pc[q] /\ value'[q] = value[q]
      /\ value'[r] \in {value[r], id}
    BY DEF Generate, Goto, Inv, TypeOK
<1>5. TypeOK'
    BY <1>1, <1>2 DEF Generate, Goto, Inv, TypeOK, Running, Ended, Holding
<1>6. \A q \in Request : Carrying(q)' => Carrying(q) /\ q # r
    BY <1>4 DEF Carrying
<1>7. CarriedAllocated' /\ CarriedDisjoint'
    BY <1>6 DEF Inv, CarriedAllocated, CarriedDisjoint
<1>8. CarriedUnused'
    <2> SUFFICES ASSUME NEW q \in Request, Carrying(q) PROVE ~InSegment(id, seg[q])
        BY <1>1, <1>6 DEF Inv, CarriedUnused, InSegment
    <2> QED
        BY <1>2 DEF Inv, TypeOK, SegmentApart, Disjoint, InSegment
<1>9. SegmentBounds'
    BY <1>2, <1>3 DEF Inv, SegmentBounds, InSegment
<1>10. SegmentApart'
    BY <1>2, <1>3, <1>6 DEF Inv, SegmentApart
<1>11. UsedUpToCur'
    BY <1>1, <1>2, <1>3 DEF Inv, TypeOK, UsedUpToCur, InSegment
<1>12. ValuesConsumed' /\ NoValueYet'
    BY <1>1, <1>4 DEF Inv, ValuesConsumed, NoValueYet
<1>13. IdsBelowDurableMax'
    BY <1>1, <1>2 DEF Inv, TypeOK, IdsBelowDurableMax, SegmentBounds
<1>14. UniqueIds'
    BY <1>2, <1>4 DEF Inv, UniqueIds, ValuesConsumed
<1>15. LastIsCur'
    BY <1>1, <1>3 DEF LastIsCur
<1>16. QED
    BY <1>5, <1>7, <1>8, <1>9, <1>10, <1>11, <1>12, <1>13, <1>14, <1>15 DEF Inv

(* A step that leaves every id, segment and value alone preserves it too, if *)
(* the calls that carry a segment were carrying it before.                   *)
LEMMA FrameInv ==
    ASSUME Inv, TypeOK',
           UNCHANGED <<dbMax, segment, consumed, last, intact>>,
           \A q \in Request : Carrying(q)' => Carrying(q) /\ seg'[q] = seg[q],
           \A q \in Request : value'[q] \in {value[q], 0},
           NoValueYet'
    PROVE  Inv'
BY DEF Inv, CarriedAllocated, CarriedDisjoint, CarriedUnused, SegmentBounds, SegmentApart,
       UsedUpToCur, ValuesConsumed, IdsBelowDurableMax, UniqueIds, LastIsCur

(* MongoDB's new segment lies above every segment and every id there is. *)
LEMMA AllocateInv ==
    ASSUME Inv, NEW r \in Request, Allocate(r)
    PROVE  Inv'
<1> USE StepPositive, MaxRetriesNat, NoneNotRequest
<1>1. TypeOK'
    BY DEF Allocate, Goto, Inv, TypeOK, Running, Ended, Holding
<1>2. NoValueYet'
    BY DEF Allocate, Goto, Inv, TypeOK, NoValueYet
<1>3. /\ dbMax' \in {dbMax, dbMax + Step}
      /\ \A q \in Request :
            Carrying(q)' => IF q = r THEN dbMax' = dbMax + Step /\ seg'[q] = dbMax + Step
                                     ELSE Carrying(q) /\ seg'[q] = seg[q]
    <2>1. \/ dbMax' = dbMax + Step /\ seg' = [seg EXCEPT ![r] = dbMax + Step]
          \/ dbMax' \in {dbMax, dbMax + Step} /\ seg' = seg /\ pc'[r] = "releaseFailed"
        BY DEF Allocate, Goto, Inv, TypeOK
    <2>2. \A q \in Request : q # r => pc'[q] = pc[q]
        BY DEF Allocate, Goto, Inv, TypeOK
    <2>3. dbMax' \in {dbMax, dbMax + Step}
        BY <2>1
    <2>4. ASSUME NEW q \in Request, q # r, Carrying(q)'
          PROVE  Carrying(q) /\ seg'[q] = seg[q]
        BY <2>1, <2>2, <2>4 DEF Carrying, Inv, TypeOK
    <2>5. ASSUME Carrying(r)' PROVE dbMax' = dbMax + Step /\ seg'[r] = dbMax + Step
        BY <2>1, <2>5 DEF Carrying, Inv, TypeOK
    <2>6. QED
        BY <2>3, <2>4, <2>5 DEF Carrying
<1>4. UNCHANGED <<segment, value, consumed, last, intact>>
    BY DEF Allocate
<1>5. dbMax \in Nat /\ dbMax <= dbMax' /\ dbMax' \in Nat
    BY <1>3 DEF Inv, TypeOK
<1>6. CarriedAllocated'
    BY <1>3, <1>5 DEF Inv, TypeOK, CarriedAllocated
<1>7. CarriedDisjoint'
    BY <1>3, <1>5 DEF Inv, TypeOK, CarriedDisjoint, CarriedAllocated, Disjoint
<1>8. CarriedUnused'
    <2> SUFFICES ASSUME NEW q \in Request, Carrying(q)', NEW n \in consumed
                 PROVE  ~InSegment(n, seg'[q])
        BY <1>4 DEF CarriedUnused, InSegment
    <2>1. n \in Nat /\ n <= dbMax
        BY DEF Inv, TypeOK, IdsBelowDurableMax
    <2>2. QED
        BY <1>3, <1>5, <2>1 DEF Inv, TypeOK, CarriedUnused, InSegment
<1>9. SegmentBounds'
    BY <1>4, <1>5 DEF Inv, TypeOK, SegmentBounds, InSegment
<1>10. SegmentApart'
    BY <1>3, <1>4, <1>5 DEF Inv, TypeOK, SegmentApart, SegmentBounds, Disjoint
<1>11. UsedUpToCur' /\ ValuesConsumed' /\ UniqueIds' /\ LastIsCur'
    BY <1>4 DEF Inv, UsedUpToCur, ValuesConsumed, UniqueIds, LastIsCur, InSegment
<1>12. IdsBelowDurableMax'
    BY <1>4, <1>5 DEF Inv, TypeOK, IdsBelowDurableMax
<1>13. QED
    BY <1>1, <1>2, <1>6, <1>7, <1>8, <1>9, <1>10, <1>11, <1>12 DEF Inv

(* SYNC_SEGMENT_LUA: the carried segment becomes the current one, or the     *)
(* call drops it.                                                            *)
LEMMA SyncInv ==
    ASSUME Inv, NEW r \in Request, Sync(r)
    PROVE  Inv'
<1> USE StepPositive, MaxRetriesNat, NoneNotRequest
<1> DEFINE id == FirstId(seg[r])
<1>1. Carrying(r) /\ seg[r] \in Nat /\ Step <= seg[r] /\ seg[r] <= dbMax
    BY DEF Sync, Carrying, Inv, TypeOK, CarriedAllocated
<1>2. id \in Nat /\ id > 0 /\ id <= seg[r] /\ InSegment(id, seg[r]) /\ id \notin consumed
    BY <1>1 DEF FirstId, InSegment, Inv, CarriedUnused
<1>3. \A q \in Request : Carrying(q)' => Carrying(q) /\ q # r /\ seg'[q] = seg[q]
    BY DEF Sync, Goto, Carrying, Inv, TypeOK
<1>4. CASE segment' = segment
    <2>1. UNCHANGED <<dbMax, segment, consumed, last, intact>> /\ value' = value
        BY <1>1, <1>2, <1>4 DEF Sync, GiveOut, Newer, Absent, Inv, TypeOK, SegmentApart, Disjoint
    <2>2. TypeOK' /\ NoValueYet'
        BY <2>1 DEF Sync, Goto, Inv, TypeOK, NoValueYet, Running, Ended, Holding
    <2>3. QED
        BY <1>3, <2>1, <2>2, FrameInv
<1>5. CASE segment' # segment
    <2>1. /\ Newer(seg[r]) /\ segment' = [max |-> seg[r], cur |-> id]
          /\ consumed' = consumed \cup {id} /\ last' = id /\ intact' = intact
          /\ UNCHANGED <<dbMax, seg>>
        BY <1>5 DEF Sync, GiveOut
    <2>2. segment' # Absent /\ segment'.max = seg[r] /\ segment'.cur = id
        BY <1>1, <2>1 DEF Absent
    <2>3. /\ pc'[r] \in {"releaseOk", "releaseFailed"}
          /\ \A q \in Request : q # r => pc'[q] = pc[q] /\ value'[q] = value[q]
          /\ value'[r] \in {value[r], id}
        BY <1>5 DEF Sync, Goto, Inv, TypeOK
    <2>4. TypeOK'
        <3>1. value' \in [Request -> Nat]
            BY <1>2, <1>5 DEF Sync, Inv, TypeOK
        <3>2. pc' \in [Request -> Running \cup Ended \cup {"idle"}]
            BY <1>5 DEF Sync, Goto, Inv, TypeOK, Running, Ended, Holding
        <3>3. UNCHANGED <<lock, retries>>
            BY DEF Sync
        <3>4. segment' \in [max : Nat, cur : Nat]
            BY <1>1, <1>2, <2>1
        <3>5. QED
            BY <1>2, <2>1, <3>1, <3>2, <3>3, <3>4 DEF Inv, TypeOK
    <2>5. CarriedAllocated' /\ CarriedDisjoint'
        BY <1>3, <2>1 DEF Inv, CarriedAllocated, CarriedDisjoint
    <2>6. SegmentApart'
        BY <1>1, <1>3, <2>1, <2>2 DEF Inv, CarriedDisjoint, SegmentApart
    <2>7. CarriedUnused'
        <3> SUFFICES ASSUME NEW q \in Request, Carrying(q), q # r
                     PROVE  ~InSegment(id, seg[q])
            BY <1>3, <2>1 DEF Inv, CarriedUnused, InSegment
        <3> QED
            BY <1>1, <1>2 DEF Inv, TypeOK, CarriedDisjoint, Disjoint, InSegment
    <2>8. SegmentBounds'
        BY <1>1, <1>2, <2>1, <2>2 DEF SegmentBounds
    <2>9. UsedUpToCur'
        <3> SUFFICES ASSUME NEW n \in consumed, InSegment(n, seg[r]) PROVE n <= id
            BY <1>2, <2>1, <2>2 DEF UsedUpToCur, InSegment
        <3> QED
            BY <1>1 DEF Inv, CarriedUnused
    <2>10. ValuesConsumed' /\ NoValueYet'
        BY <2>1, <2>3 DEF Inv, ValuesConsumed, NoValueYet
    <2>11. IdsBelowDurableMax'
        BY <1>1, <1>2, <2>1 DEF Inv, TypeOK, IdsBelowDurableMax
    <2>12. UniqueIds'
        BY <1>2, <2>3 DEF Inv, UniqueIds, ValuesConsumed
    <2>13. LastIsCur'
        BY <2>1, <2>2 DEF LastIsCur
    <2>14. QED
        BY <2>4, <2>5, <2>6, <2>7, <2>8, <2>9, <2>10, <2>11, <2>12, <2>13 DEF Inv
<1>6. QED
    BY <1>4, <1>5

LEMMA NextInv == Inv /\ [Next]_vars => Inv'
<1> SUFFICES ASSUME Inv, [Next]_vars PROVE Inv'
    OBVIOUS
<1> USE StepPositive, MaxRetriesNat, NoneNotRequest
    DEF Inv, TypeOK, NoValueYet, Goto, Carrying, Running, Ended, Holding
<1>1. ASSUME NEW r \in Request, Begin(r) PROVE Inv'
    BY <1>1, FrameInv DEF Begin
<1>2. ASSUME NEW r \in Request, FastPath(r) \/ Retry(r) \/ Second(r) PROVE Inv'
    <2>1. CASE UNCHANGED <<segment, value, consumed, last, intact>>
        BY <1>2, <2>1, FrameInv DEF FastPath, Retry, Second, NoId, Generate
    <2>2. CASE ~UNCHANGED <<segment, value, consumed, last, intact>>
        <3>1. PICK found \in {"ok", "releaseOk"}, lost \in {"failed", "releaseFailed"} :
                /\ pc[r] \in {"fast", "retry", "second"}
                /\ Generate(r, found, lost)
                /\ UNCHANGED <<dbMax, lock, retries, seg>>
            BY <1>2, <2>2 DEF FastPath, Retry, Second, NoId
        <3>2. QED
            BY <3>1, GenerateInv
    <2>3. QED
        BY <2>1, <2>2
<1>3. ASSUME NEW r \in Request, TryLock(r) PROVE Inv'
    BY <1>3, FrameInv DEF TryLock, RetriesLeft
<1>4. ASSUME NEW r \in Request, Allocate(r) PROVE Inv'
    BY <1>4, AllocateInv
<1>5. ASSUME NEW r \in Request, Sync(r) PROVE Inv'
    BY <1>5, SyncInv
<1>6. ASSUME NEW r \in Request, Release(r) PROVE Inv'
    BY <1>6, FrameInv DEF Release
<1>7. ASSUME NEW r \in Request, Crash(r) PROVE Inv'
    BY <1>7, FrameInv DEF Crash
<1>8. CASE ExpireLock
    BY <1>8, FrameInv DEF ExpireLock
<1>9. CASE LoseSegment
    BY <1>9 DEF LoseSegment, Absent, CarriedAllocated, CarriedDisjoint, CarriedUnused,
           SegmentBounds, SegmentApart, UsedUpToCur, ValuesConsumed, IdsBelowDurableMax,
           UniqueIds, LastIsCur
<1>10. CASE UNCHANGED vars
    BY <1>10, FrameInv DEF vars
<1>11. QED
    BY <1>1, <1>2, <1>3, <1>4, <1>5, <1>6, <1>7, <1>8, <1>9, <1>10 DEF Next, Serve, Served

LEMMA Invariance == Spec => []Inv
BY InitInv, NextInv, PTL DEF Spec

----------------------------------------------------------------------------

(* Every variable keeps its type: no id is ever negative, no retry counter   *)
(* passes its limit.                                                         *)
THEOREM TypeCorrect == Spec => []TypeOK
BY Invariance, PTL DEF Inv

(* No two calls ever return the same id. *)
THEOREM IdsUnique == Spec => []UniqueIds
BY Invariance, PTL DEF Inv

(* MongoDB's counter bounds every id given out: what Redis loses cannot come *)
(* back as a duplicate.                                                      *)
THEOREM IdsDurable == Spec => []IdsBelowDurableMax
BY Invariance, PTL DEF Inv

(* Until Redis loses the segment, ids increase strictly. *)
THEOREM IdsIncrease == Spec => IncreasingWhileIntact
<1>1. Inv /\ [Next]_vars => [intact /\ last' # last => last' > last]_vars
    <2> SUFFICES ASSUME Inv, Next, intact, last' # last PROVE last' > last
        OBVIOUS
    <2> USE StepPositive DEF Inv, TypeOK
    <2>1. ASSUME NEW r \in Request, NEW found, NEW lost, Generate(r, found, lost)
          PROVE  last' > last
        BY <2>1, NextIdFresh DEF Generate, GiveOut, LastIsCur
    <2>2. ASSUME NEW r \in Request, Sync(r) PROVE last' > last
        <3>1. Newer(seg[r]) /\ last' = FirstId(seg[r])
            BY <2>2 DEF Sync, GiveOut
        <3>2. Carrying(r) /\ Step <= seg[r] /\ seg[r] \in Nat
            BY <2>2 DEF Sync, Carrying, CarriedAllocated
        <3>3. CASE segment = Absent
            BY <3>1, <3>2, <3>3 DEF FirstId, LastIsCur
        <3>4. CASE segment # Absent
            <4>1. Disjoint(seg[r], segment.max) /\ seg[r] > segment.max
                BY <3>1, <3>2, <3>4 DEF SegmentApart, Newer
            <4>2. last = segment.cur /\ segment.cur <= segment.max
                BY <3>4 DEF LastIsCur, SegmentBounds, InSegment
            <4>3. QED
                BY <3>1, <3>2, <4>1, <4>2 DEF Disjoint, FirstId
        <3>5. QED
            BY <3>3, <3>4
    <2>3. QED
        BY <2>1, <2>2
           DEF Next, Serve, Begin, FastPath, TryLock, RetriesLeft, Retry, Allocate, Second, Release, NoId,
               Crash, ExpireLock, LoseSegment, Served, vars
<1>2. QED
    BY <1>1, Invariance, PTL DEF Spec, IncreasingWhileIntact
=============================================================================
