-------------------------- MODULE PackDecodeWakeup --------------------------
(***************************************************************************)
(* No lost wakeup in streaming mode (Pack::decode and                      *)
(* decode_without_callback without a dependency scan): the caches never    *)
(* give up an object, and a pack names every object once.                  *)
(***************************************************************************)
EXTENDS PackDecodeProofs

DistinctNames == \A a, b \in InPack : pack.hash[a] = pack.hash[b] => a = b

RetentionPcs == {"consume", "unhold", "release", "remove_lru", "remove_offset", "remove_hash",
                 "drop_offset", "drop_hash", "emit"}
InsertPcs == {"insert_lru", "insert_hash", "insert_offset"}

Visible(k) == k \in index /\ stored[NameOf(k)] # {}
OwnKeys(o) == {OffsetKey(o), HashKey(o)}

\* Thread t will look at the waiters of key k before it is done.
Attends(t, k) ==
  \/ pc[t] \in {"refind", "refetch"} /\ k = KeyOf(t)
  \/ pc[t] \in InsertPcs /\ k \in OwnKeys(obj[t])
  \/ pc[t] = "take_offset" /\ k \in OwnKeys(base[t])
  \/ pc[t] = "take_hash" /\ k = HashKey(base[t])

\* A delta that waits for an object the caches can hand out has a thread on its way.
WaitersAttended ==
  \A k \in PackKeys : waitlist[k] # <<>> /\ Visible(k) => \E t \in Threads : Attends(t, k)

WaitersKeyed ==
  \A k \in Keys : \A i \in 1..Len(waitlist[k]) : DeltaKey(waitlist[k][i]) = k

InCache(o) == OffsetKey(o) \in index /\ HashKey(o) \in index /\ o \in stored[pack.hash[o]]

\* How far an insertion has come (Caches::insert, in either order).
Inserting(t) ==
  /\ pc[t] \in InsertPcs => base[t] = obj[t]
  /\ Unbounded /\ pc[t] \in {"insert_offset", "insert_lru"} => HashKey(obj[t]) \in index
  /\ Unbounded /\ pc[t] = "insert_lru" => OffsetKey(obj[t]) \in index
  /\ ~Unbounded /\ pc[t] \in {"insert_hash", "insert_offset"} =>
       obj[t] \in stored[pack.hash[obj[t]]]
  /\ ~Unbounded /\ pc[t] = "insert_offset" => HashKey(obj[t]) \in index

\* What was handed to the callback is in the caches or on its way into them.
EmittedCached ==
  pc[Main] # "returned" =>
    \A o \in InPack : emitted[o] > 0 =>
      InCache(o) \/ \E t \in Threads : pc[t] \in InsertPcs /\ obj[t] = o

NoneLost == \A d \in Waiting : \A b \in Matches(d) : emitted[b] = 0 /\ b \notin skipped

Streamed ==
  /\ skipped = {}
  /\ \A t \in Threads : pc[t] \notin RetentionPcs /\ Inserting(t)
  /\ WaitersKeyed
  /\ WaitersAttended
  /\ EmittedCached
  /\ pc[Main] = "returned" => NoneLost

StreamInv ==
  /\ TypeInv
  /\ ReturnedInv
  /\ ~Retention /\ DistinctNames => Streamed

-----------------------------------------------------------------------------
USE DEF callVars, cacheVars, retentionVars, outVars, threadVars

\* Without retention no thread enters the code that consumes, releases or drops.
LEMMA StreamPcsNext ==
  ASSUME ~Retention, TypeInv, Next,
         \A t \in Threads : pc[t] \notin RetentionPcs
  PROVE  \A t \in Threads : pc'[t] \notin RetentionPcs
<1> USE DEF TypeInv, ThreadTypes, RetentionPcs
<1>1. CASE MainStep
  BY <1>1 DEF MainStep, Goto, Done, ReadHeader, RejectHeader, ReadFails, SkipEntry, ReadEntry,
              DropBase, CacheBase,
              SubmitEntry, ReadTrailer, JoinPool, Abort
<1>2. ASSUME NEW w \in Workers, StartJob(w)
      PROVE  \A t \in Threads : pc'[t] \notin RetentionPcs
  <2>1. Head(queue).op \in {"dependency", "cache", "rebuild"}
    BY <1>2, HeadTailProperties DEF StartJob, ListTypes, PackJobs, Jobs
  <2>2. QED
    BY <1>2, <2>1 DEF StartJob, Goto
<1>3. ASSUME NEW t \in Threads, JobStep(t)
      PROVE  \A u \in Threads : pc'[u] \notin RetentionPcs
  BY <1>3 DEF JobStep, Goto, Done, FindBase, FetchHit, FetchMiss, Wait, RefetchHit, RefetchMiss,
              Consume, Unhold, Release, RemoveBase, RebuildFails, Rebuild, Keep, CacheKept,
              CacheDropped, InsertObject, TakeWaiters, TakeFrom, EmitDropped, SubmitRebuilds
<1>4. CASE UNCHANGED vars
  BY <1>4 DEF vars
<1>5. QED
  BY <1>1, <1>2, <1>3, <1>4 DEF Next, Spin, Returned

\* What InsertObject does to the caches: one key or one object is added.
LEMMA InsertGrows ==
  ASSUME DistinctNames, TypeInv, NEW t \in Threads, InsertObject(t)
  PROVE  index \subseteq index' /\ \A h \in Names : stored[h] \subseteq stored'[h]
<1>1. obj[t] \in InPack /\ pack \in Layout
  BY DEF TypeInv, ScalarTypes, InHand, InsertObject, IdlePcs
<1>2. \A b \in stored[pack.hash[obj[t]]] : b = obj[t]
  <2>1. pack.hash[obj[t]] \in Names
    BY <1>1, PackFacts
  <2>2. QED
    BY <1>1, <2>1 DEF TypeInv, CacheTypes, DistinctNames, InPack
<1>3. QED
  BY <1>2 DEF InsertObject, TypeInv, CacheTypes

\* Without retention the caches only grow until decode_inner shuts them down.
LEMMA CachesGrow ==
  ASSUME DistinctNames, TypeInv, Next,
         \A t \in Threads : pc[t] \notin RetentionPcs,
         ~JoinPool, ~Abort
  PROVE  index \subseteq index' /\ \A h \in Names : stored[h] \subseteq stored'[h]
<1>1. CASE \E t \in Threads : InsertObject(t)
  BY <1>1, InsertGrows
<1>2. ASSUME NEW t \in Threads
      PROVE  ~RemoveBase(t)
  BY DEF RemoveBase, RetentionPcs
<1>3. CASE UNCHANGED <<index, stored>>
  BY <1>3
<1>4. QED
  BY <1>1, <1>2, <1>3
  DEF Next, MainStep, JobStep, StartJob, Spin, Returned, vars, ReadHeader, RejectHeader,
      ReadFails, SkipEntry, ReadEntry,
      DropBase, CacheBase, SubmitEntry, ReadTrailer, FindBase, FetchHit, FetchMiss, Wait,
      RefetchHit, RefetchMiss, Consume, Unhold, Release, RebuildFails, Rebuild, CacheKept,
      CacheDropped, TakeWaiters, EmitDropped, SubmitRebuilds

\* The parts of StreamInv the lemmas below start from.
StreamBasics ==
  /\ ~Retention
  /\ DistinctNames
  /\ TypeInv
  /\ \A t \in Threads : pc[t] \notin RetentionPcs /\ Inserting(t)

\* An insertion goes on from where it was, whatever the other threads add.
LEMMA InsertingNext ==
  ASSUME StreamBasics, Next
  PROVE  \A t \in Threads : Inserting(t)'
<1> USE DEF StreamBasics
<1>0. Main \in Threads /\ pack \in Layout
  BY DEF Threads, TypeInv, ScalarTypes
<1>1. CASE JoinPool \/ Abort
  <2>1. \A w \in Workers : pc'[w] = "idle"
    BY <1>1, ConstantsAssumption
    DEF JoinPool, Abort, PoolIdle, Goto, TypeInv, ThreadTypes, Threads
  <2>2. pc'[Main] = "returned"
    BY <1>0, <1>1 DEF JoinPool, Abort, Goto, TypeInv, ThreadTypes
  <2>3. QED
    BY <2>1, <2>2 DEF Inserting, InsertPcs, Threads
<1>2. CASE ~JoinPool /\ ~Abort
  <2>1. index \subseteq index' /\ \A h \in Names : stored[h] \subseteq stored'[h]
    BY <1>2, CachesGrow
  <2>2. ASSUME NEW u \in Threads, UNCHANGED callVars,
               pc'[u] = pc[u], obj'[u] = obj[u], base'[u] = base[u]
        PROVE  Inserting(u)'
    <3>1. Inserting(u)
      OBVIOUS
    <3>2. pc[u] \in InsertPcs => pack.hash[obj[u]] \in Names
      BY <1>0, PackFacts DEF TypeInv, InHand, InsertPcs, IdlePcs
    <3>3. QED
      BY <2>1, <2>2, <3>1, <3>2 DEF Inserting, InsertPcs, HashKey, OffsetKey, Unbounded
  <2>3. ASSUME NEW t \in Threads, UNCHANGED callVars, OthersKeep(t), Inserting(t)'
        PROVE  \A u \in Threads : Inserting(u)'
    BY <2>2, <2>3 DEF OthersKeep
  <2>4. ASSUME NEW u \in Threads, pc'[u] \notin InsertPcs
        PROVE  Inserting(u)'
    BY <2>4 DEF Inserting, InsertPcs
  <2>5. CASE MainStep
    <3>1. pc'[Main] \notin InsertPcs
      BY <1>0, <1>2, <2>5
      DEF MainStep, Goto, Done, ReadHeader, RejectHeader, ReadFails, SkipEntry, MayRead,
          ReadEntry, DropBase, CacheBase,
          SubmitEntry, ReadTrailer, TypeInv, ThreadTypes, InsertPcs
    <3>2. QED
      BY <1>0, <2>3, <2>4, <2>5, <3>1, MainLocal
  <2>6. ASSUME NEW w \in Workers, StartJob(w)
        PROVE  \A t \in Threads : Inserting(t)'
    <3>1. Head(queue).op \in {"dependency", "cache", "rebuild"}
      BY <2>6, HeadTailProperties DEF StartJob, TypeInv, ListTypes, PackJobs, Jobs
    <3>2. pc'[w] \notin InsertPcs
      BY <2>6, <3>1 DEF StartJob, Goto, TypeInv, ThreadTypes, InsertPcs, Threads
    <3>3. QED
      BY <2>3, <2>4, <2>6, <3>2, StartLocal DEF Threads
  <2>7. ASSUME NEW t \in Threads, JobStep(t)
        PROVE  \A u \in Threads : Inserting(u)'
    <3>1. UNCHANGED callVars /\ OthersKeep(t)
      BY <2>7, JobLocal
    <3>2. CASE CacheKept(t)
      BY <2>3, <3>1, <3>2 DEF CacheKept, Goto, Inserting, InsertPcs, TypeInv, ThreadTypes, Unbounded
    <3>3. CASE InsertObject(t)
      <4>1. Inserting(t) /\ pack.hash[obj[t]] \in Names
        BY <1>0, <3>3, PackFacts DEF InsertObject, TypeInv, InHand, IdlePcs
      <4>2. Inserting(t)'
        <5>1. pc \in [Threads -> Pcs] /\ DOMAIN stored = Names
          BY DEF TypeInv, ThreadTypes, CacheTypes
        <5>2. obj' = obj /\ base' = base /\ pack' = pack /\ Unbounded' = Unbounded
          BY <3>1, <3>3 DEF InsertObject, Unbounded
        <5>3. CASE pc[t] = "insert_lru"
          BY <3>3, <4>1, <5>1, <5>2, <5>3 DEF InsertObject, Goto, Inserting, InsertPcs, HashKey
        <5>4. CASE pc[t] = "insert_hash"
          BY <3>3, <4>1, <5>1, <5>2, <5>4 DEF InsertObject, Goto, Inserting, InsertPcs, HashKey
        <5>5. CASE pc[t] = "insert_offset"
          BY <3>3, <4>1, <5>1, <5>2, <5>5
          DEF InsertObject, Goto, Inserting, InsertPcs, HashKey, OffsetKey
        <5>6. QED
          BY <3>3, <5>3, <5>4, <5>5 DEF InsertObject
      <4>3. QED
        BY <2>3, <3>1, <4>2
    <3>4. CASE pc'[t] \notin InsertPcs
      BY <2>3, <2>4, <3>1, <3>4
    <3>5. QED
      BY <2>7, <3>2, <3>3, <3>4
      DEF JobStep, Goto, Done, FindBase, FetchHit, FetchMiss, Wait, RefetchHit, RefetchMiss,
          Consume, Unhold, Release, RemoveBase, RebuildFails, Rebuild, CacheDropped, TakeWaiters,
          TakeFrom, EmitDropped, SubmitRebuilds, AfterConsume, AfterRelease, TypeInv, ThreadTypes,
          InsertPcs
  <2>8. CASE UNCHANGED vars
    BY <2>2, <2>8 DEF vars
  <2>9. QED
    BY <2>5, <2>6, <2>7, <2>8 DEF Next, Spin, Returned
<1>3. QED
  BY <1>1, <1>2

\* A delta waits under the key of the base it names.
LEMMA WaitersKeyedNext ==
  ASSUME TypeInv, WaitersKeyed, Next
  PROVE  WaitersKeyed'
<1>1. Frame
  BY FrameNext, MainLocal, StartLocal, JobLocal DEF Next, Spin, Returned, vars
<1>2. \A k \in Keys : waitlist[k] \in Seq(Deltas)
  BY DEF TypeInv, ListTypes
<1>3. Deltas \subseteq 0..MaxObjects
  BY PackFacts DEF Deltas, TypeInv, ScalarTypes, Objects
<1>4. SUFFICES \A k \in Keys : \A i \in 1..Len(waitlist'[k]) : DeltaKey(waitlist'[k][i]) = k
  <2>1. ASSUME NEW k \in Keys, NEW i \in 1..Len(waitlist'[k])
        PROVE  waitlist'[k][i] \in 0..MaxObjects
    <3>1. waitlist'[k] \in Seq(Deltas)
      BY <1>1, ListNext DEF ListTypes, Frame
    <3>2. waitlist'[k][i] \in Deltas
      BY <3>1, ElementOfSeq
    <3>3. QED
      BY <1>3, <3>2
  <2>2. ASSUME NEW k \in Keys, NEW i \in 1..Len(waitlist'[k]), DeltaKey(waitlist'[k][i]) = k
        PROVE  (DeltaKey(waitlist[k][i]) = k)'
    BY <1>1, <2>1, <2>2 DEF Frame, DeltaKey
  <2>3. QED
    BY <2>2 DEF WaitersKeyed
<1> TAKE k \in Keys
<1> TAKE i \in 1..Len(waitlist'[k])
<1>5. CASE waitlist'[k] = waitlist[k]
  BY <1>5 DEF WaitersKeyed
<1>6. CASE waitlist'[k] = <<>>
  BY <1>6
<1>7. ASSUME NEW t \in Threads, Wait(t), k = KeyOf(t)
      PROVE  DeltaKey(waitlist'[k][i]) = k
  <2>1. waitlist'[k] = Append(waitlist[k], obj[t])
    BY <1>7 DEF Wait, TypeInv, ListTypes
  <2>2. QED
    BY <1>2, <1>7, <2>1, AppendProperties DEF WaitersKeyed, KeyOf
<1>8. CASE \E t \in Threads : TakeWaiters(t)
  BY <1>5, <1>6, <1>8 DEF TakeWaiters, TakeFrom, TypeInv, ListTypes
<1>9. CASE \E t \in Threads : Wait(t)
  BY <1>5, <1>7, <1>9 DEF Wait, TypeInv, ListTypes
<1>10. CASE UNCHANGED waitlist
  BY <1>5, <1>10
<1>11. QED
  BY <1>8, <1>9, <1>10
  DEF Next, MainStep, JobStep, StartJob, Spin, Returned, vars, ReadHeader, RejectHeader,
      ReadFails, SkipEntry, ReadEntry,
      DropBase, CacheBase, SubmitEntry, ReadTrailer, JoinPool, Abort, FindBase, FetchHit,
      FetchMiss, RefetchHit, RefetchMiss, Consume, Unhold, Release, RemoveBase, RebuildFails,
      Rebuild, CacheKept, CacheDropped, InsertObject, EmitDropped, SubmitRebuilds

\* Thread t answers for its step: a key that has waiters and a visible object
\* afterwards either had them before with some other thread on its way, or t is.
Answers(t) ==
  \A k \in PackKeys : waitlist'[k] # <<>> /\ Visible(k)' =>
    \/ waitlist[k] # <<>> /\ Visible(k) /\ ~Attends(t, k)
    \/ Attends(t, k)'

\* A stuttering step leaves the waiters as they are.
LEMMA AttendedStutter ==
  ASSUME WaitersAttended, UNCHANGED vars
  PROVE  WaitersAttended'
<1>1. PackKeys' = PackKeys /\ waitlist' = waitlist
  BY DEF vars, PackKeys, InPack, OffsetKey, HashKey
<1>2. \A k \in PackKeys : Visible(k)' <=> Visible(k)
  BY DEF vars, Visible, NameOf
<1>3. \A t \in Threads : \A k \in PackKeys : Attends(t, k)' <=> Attends(t, k)
  BY DEF vars, Attends, KeyOf, DeltaKey, OwnKeys, OffsetKey, HashKey
<1>4. QED
  BY <1>1, <1>2, <1>3 DEF WaitersAttended

\* Only the thread that moves can leave a waiter unattended.
LEMMA AttendedByOthers ==
  ASSUME TypeInv, WaitersAttended, NEW t \in Threads, UNCHANGED callVars, OthersKeep(t), Answers(t)
  PROVE  WaitersAttended'
<1>1. Frame
  BY FrameNext
<1>2. ASSUME NEW k \in PackKeys, NEW u \in Threads, u # t, Attends(u, k)
      PROVE  Attends(u, k)'
  <2>1. pc'[u] = pc[u] /\ obj'[u] = obj[u] /\ base'[u] = base[u]
    BY <1>2 DEF OthersKeep
  <2>2. QED
    BY <1>2, <2>1 DEF Attends, OwnKeys, KeyOf, DeltaKey, HashKey, OffsetKey
<1>3. ASSUME NEW k \in PackKeys, waitlist'[k] # <<>>, Visible(k)'
      PROVE  \E u \in Threads : Attends(u, k)'
  <2>1. CASE Attends(t, k)'
    BY <2>1
  <2>2. CASE waitlist[k] # <<>> /\ Visible(k) /\ ~Attends(t, k)
    BY <1>2, <2>2 DEF WaitersAttended
  <2>3. QED
    BY <1>3, <2>1, <2>2 DEF Answers
<1>4. QED
  BY <1>1, <1>3 DEF WaitersAttended, Frame

\* The no-lost-wakeup argument: a thread that puts a delta on the waitlist looks
\* the base up again, and a thread that adds an object to the caches looks at the
\* waitlist afterwards.
LEMMA WaitersAttendedNext ==
  ASSUME StreamBasics, WaitersAttended, Next
  PROVE  WaitersAttended'
<1> USE DEF StreamBasics
<1>0. Main \in Threads /\ pack \in Layout
  BY DEF Threads, TypeInv, ScalarTypes
<1>1. CASE JoinPool \/ Abort
  BY <1>1 DEF JoinPool, Abort, ClearCaches, WaitersAttended, Visible
<1>2. CASE MainStep /\ ~JoinPool /\ ~Abort
  <2>1. UNCHANGED <<callVars, waitlist, index, stored>> /\ pc[Main] \in {"header", "read",
                    "dispatch"}
    BY <1>2 DEF MainStep, ReadHeader, RejectHeader, ReadFails, SkipEntry, MayRead, ReadEntry,
                DropBase, CacheBase,
                SubmitEntry, ReadTrailer
  <2>2. Answers(Main)
    BY <2>1 DEF Answers, Visible, NameOf, Attends, InsertPcs
  <2>3. QED
    BY <1>0, <1>2, <2>2, MainLocal, AttendedByOthers
<1>3. ASSUME NEW w \in Workers, StartJob(w)
      PROVE  WaitersAttended'
  <2>1. Answers(w)
    BY <1>3 DEF StartJob, Answers, Visible, NameOf, Attends, InsertPcs
  <2>2. QED
    BY <1>3, <2>1, StartLocal, AttendedByOthers DEF Threads
<1>4. ASSUME NEW t \in Threads, JobStep(t)
      PROVE  WaitersAttended'
  <2>1. Frame /\ OthersKeep(t)
    BY <1>4, JobLocal, FrameNext
  <2>2. SUFFICES Answers(t)
    BY <2>1, AttendedByOthers DEF Frame
  <2>3. InHand(t) /\ Inserting(t) /\ pc[t] \notin RetentionPcs
    BY DEF TypeInv
  <2> USE DEF Goto, TypeInv, ThreadTypes
  <2>4. CASE FindBase(t)
    <3>1. UNCHANGED <<callVars, waitlist, index, stored>>
      BY <2>4 DEF FindBase
    <3>2. CASE pc[t] = "find"
      BY <3>1, <3>2 DEF Answers, Visible, NameOf, Attends, InsertPcs
    <3>3. CASE pc[t] = "refind" /\ KeyOf(t) \in index
      BY <2>4, <3>1, <3>3 DEF FindBase, Answers, Visible, NameOf, Attends, InsertPcs, KeyOf,
                              DeltaKey
    <3>4. CASE pc[t] = "refind" /\ KeyOf(t) \notin index
      BY <3>1, <3>4 DEF Answers, Visible, NameOf, Attends, InsertPcs
    <3>5. QED
      BY <2>4, <3>2, <3>3, <3>4 DEF FindBase
  <2>5. CASE Wait(t)
    <3>1. ASSUME NEW k \in PackKeys, k # KeyOf(t)
          PROVE  waitlist'[k] = waitlist[k]
      BY <1>0, <2>5, <3>1, KeyFacts DEF Wait, ListTypes
    <3>2. pc'[t] = "refind" /\ KeyOf(t)' = KeyOf(t) /\ pc[t] = "wait"
      BY <2>5 DEF Wait, KeyOf, DeltaKey
    <3>3. UNCHANGED <<callVars, index, stored>>
      BY <2>5 DEF Wait
    <3>4. QED
      BY <3>1, <3>2, <3>3 DEF Answers, Visible, NameOf, Attends, InsertPcs
  <2>6. CASE RefetchHit(t)
    <3>1. PICK b \in stored[NameOf(KeyOf(t))] : base' = [base EXCEPT ![t] = b]
      BY <2>6 DEF RefetchHit
    <3>2. KeyOf(t) \in PackKeys /\ NameOf(KeyOf(t)) \in Names
      BY <1>0, <2>3, <2>6, KeyFacts DEF RefetchHit, InHand
    <3>3. b \in InPack /\ pack.hash[b] = NameOf(KeyOf(t))
      BY <3>1, <3>2 DEF CacheTypes
    <3>4. KeyOf(t) \in OwnKeys(b)
      BY <1>0, <3>2, <3>3
      DEF PackKeys, OwnKeys, OffsetKey, HashKey, NameOf, DistinctNames, InPack
    <3>5. pc[t] = "refetch" /\ pc'[t] = "take_offset" /\ base'[t] = b
      BY <2>6, <3>1 DEF RefetchHit
    <3>6. UNCHANGED <<callVars, waitlist, index, stored>>
      BY <2>6 DEF RefetchHit
    <3>7. QED
      BY <3>4, <3>5, <3>6
      DEF Answers, Visible, NameOf, Attends, InsertPcs, OwnKeys, HashKey, OffsetKey
  <2>7. CASE RefetchMiss(t)
    BY <2>7 DEF RefetchMiss, Answers, Visible, NameOf, Attends, InsertPcs
  <2>8. CASE CacheKept(t)
    BY <2>8 DEF CacheKept, Answers, Visible, NameOf, Attends, InsertPcs
  <2>9. CASE InsertObject(t)
    <3>1. /\ obj'[t] = obj[t] /\ base'[t] = obj[t] /\ pack' = pack /\ waitlist' = waitlist
          /\ pc[t] \in InsertPcs /\ pc'[t] \in InsertPcs \union {"take_offset"}
      BY <2>3, <2>9 DEF InsertObject, Inserting, InsertPcs
    <3>2. obj[t] \in InPack
      BY <2>3, <2>9 DEF InsertObject, InHand, IdlePcs
    <3>3. ASSUME NEW k \in PackKeys, k \notin OwnKeys(obj[t])
          PROVE  Visible(k)' = Visible(k)
      <4>1. NameOf(k) # pack.hash[obj[t]]
        BY <1>0, <3>2, <3>3
        DEF PackKeys, OwnKeys, OffsetKey, HashKey, NameOf, DistinctNames, InPack
      <4>2. NameOf(k) \in Names /\ NameOf(k)' = NameOf(k)
        BY <1>0, <3>1, KeyFacts DEF NameOf
      <4>3. stored'[NameOf(k)] = stored[NameOf(k)]
        BY <2>9, <4>1, <4>2 DEF InsertObject, CacheTypes
      <4>4. k \in index' <=> k \in index
        BY <2>9, <3>3 DEF InsertObject, OwnKeys
      <4>5. QED
        BY <4>2, <4>3, <4>4 DEF Visible
    <3>4. ASSUME NEW k \in PackKeys
          PROVE  k \in OwnKeys(obj[t]) => Attends(t, k)'
      BY <3>1 DEF Attends, OwnKeys, OffsetKey, HashKey
    <3>5. ASSUME NEW k \in PackKeys, k \notin OwnKeys(obj[t])
          PROVE  ~Attends(t, k)
      BY <3>1, <3>5 DEF Attends, InsertPcs
    <3>6. QED
      BY <3>1, <3>3, <3>4, <3>5 DEF Answers
  <2>10. CASE TakeWaiters(t)
    <3>1. base[t] \in InPack
      BY <2>3, <2>10 DEF TakeWaiters, InHand, BasePcs
    <3>2. OffsetKey(base[t]) \in Keys /\ HashKey(base[t]) \in Keys /\ PackKeys \subseteq Keys
      BY <1>0, <3>1, KeyFacts
    <3>3. UNCHANGED <<callVars, obj, base, index, stored>>
      BY <2>10 DEF TakeWaiters
    <3>4. CASE pc[t] = "take_offset"
      <4>1. /\ waitlist' = [waitlist EXCEPT ![OffsetKey(base[t])] = <<>>]
            /\ pc'[t] = "take_hash"
        BY <2>10, <3>4 DEF TakeWaiters, TakeFrom
      <4>2. QED
        BY <3>2, <3>3, <3>4, <4>1
        DEF Answers, Visible, NameOf, Attends, InsertPcs, OwnKeys, HashKey, ListTypes
    <3>5. CASE pc[t] = "take_hash"
      <4>1. waitlist' = [waitlist EXCEPT ![HashKey(base[t])] = <<>>]
        BY <2>10, <3>5 DEF TakeWaiters, TakeFrom
      <4>2. QED
        BY <3>2, <3>3, <3>5, <4>1
        DEF Answers, Visible, NameOf, Attends, InsertPcs, ListTypes
    <3>6. QED
      BY <2>3, <2>10, <3>4, <3>5 DEF TakeWaiters, RetentionPcs
  <2>11. CASE FetchHit(t) \/ FetchMiss(t) \/ RebuildFails(t) \/ Rebuild(t) \/ SubmitRebuilds(t)
    <3>1. /\ UNCHANGED <<callVars, waitlist, index, stored>>
          /\ pc[t] \in {"fetch", "rebuild", "submit"}
      BY <2>11 DEF FetchHit, FetchMiss, RebuildFails, Rebuild, SubmitRebuilds
    <3>2. QED
      BY <3>1 DEF Answers, Visible, NameOf, Attends, InsertPcs
  <2>12. ~CacheDropped(t)
    BY DEF CacheDropped, Keep
  <2>13. ~(Consume(t) \/ Unhold(t) \/ Release(t) \/ RemoveBase(t) \/ EmitDropped(t))
    BY <2>3 DEF Consume, Unhold, Release, RemoveBase, EmitDropped, RetentionPcs
  <2>14. QED
    BY <1>4, <2>4, <2>5, <2>6, <2>7, <2>8, <2>9, <2>10, <2>11, <2>12, <2>13 DEF JobStep
<1>5. CASE UNCHANGED vars
  BY <1>5, AttendedStutter
<1>6. QED
  BY <1>1, <1>2, <1>3, <1>4, <1>5 DEF Next, Spin, Returned

\* An object reaches the callback right before its insertion starts, and an
\* insertion that is over leaves the object under both its keys.
LEMMA EmittedCachedNext ==
  ASSUME StreamBasics, EmittedCached, ReturnedInv, Next
  PROVE  EmittedCached'
<1> USE DEF StreamBasics
<1>0. Main \in Threads /\ pack \in Layout
  BY DEF Threads, TypeInv, ScalarTypes
<1>1. CASE JoinPool \/ Abort \/ RejectHeader
  BY <1>0, <1>1 DEF JoinPool, Abort, RejectHeader, Goto, EmittedCached, TypeInv, ThreadTypes
<1>2. CASE pc[Main] = "returned" /\ pc'[Main] = "returned"
  BY <1>2 DEF EmittedCached
<1>3. CASE ~JoinPool /\ ~Abort /\ ~RejectHeader /\ pc[Main] # "returned"
  <2>1. index \subseteq index' /\ \A h \in Names : stored[h] \subseteq stored'[h]
    BY <1>3, CachesGrow
  <2>2. Frame
    BY FrameNext, MainLocal, StartLocal, JobLocal DEF Next, Spin, Returned, vars
  <2>3. ASSUME NEW o \in InPack, InCache(o)
        PROVE  InCache(o)'
    <3>1. pack.hash[o] \in Names
      BY <1>0, PackFacts
    <3>2. QED
      BY <2>1, <2>2, <2>3, <3>1 DEF InCache, Frame, OffsetKey, HashKey
  <2>4. ASSUME NEW t \in Threads, OthersKeep(t), pc[t] \notin InsertPcs, emitted' = emitted
        PROVE  EmittedCached'
    <3>1. ASSUME NEW u \in Threads, pc[u] \in InsertPcs
          PROVE  pc'[u] \in InsertPcs /\ obj'[u] = obj[u]
      BY <2>4, <3>1 DEF OthersKeep
    <3>2. QED
      BY <1>3, <2>2, <2>3, <2>4, <3>1 DEF EmittedCached, Frame
  <2>5. CASE MainStep
    <3>1. pc[Main] \notin InsertPcs /\ emitted' = emitted
      BY <1>3, <2>5
      DEF MainStep, ReadHeader, RejectHeader, ReadFails, SkipEntry, MayRead, ReadEntry, DropBase,
          CacheBase, SubmitEntry,
          ReadTrailer, InsertPcs
    <3>2. QED
      BY <1>0, <2>4, <2>5, <3>1, MainLocal
  <2>6. ASSUME NEW w \in Workers, StartJob(w)
        PROVE  EmittedCached'
    <3>1. pc[w] \notin InsertPcs /\ emitted' = emitted
      BY <2>6 DEF StartJob, InsertPcs
    <3>2. QED
      BY <2>4, <2>6, <3>1, StartLocal DEF Threads
  <2>7. ASSUME NEW t \in Threads, JobStep(t)
        PROVE  EmittedCached'
    <3>1. OthersKeep(t)
      BY <2>7, JobLocal
    <3>2. CASE CacheKept(t)
      <4>1. /\ pc'[t] \in InsertPcs /\ obj'[t] = obj[t]
            /\ pc[t] \notin InsertPcs
            /\ \A o \in InPack : o # obj[t] => emitted'[o] = emitted[o]
        BY <1>0, <3>2, PackFacts
        DEF CacheKept, EmitObject, Goto, InsertPcs, TypeInv, ThreadTypes, ScalarTypes
      <4>2. ASSUME NEW u \in Threads, pc[u] \in InsertPcs
            PROVE  pc'[u] \in InsertPcs /\ obj'[u] = obj[u]
        BY <3>1, <4>1, <4>2 DEF OthersKeep
      <4>3. ASSUME NEW o \in InPack, emitted'[o] > 0, pc'[Main] # "returned"
            PROVE  InCache(o)' \/ \E u \in Threads : pc'[u] \in InsertPcs /\ obj'[u] = o
        <5>1. CASE o = obj[t]
          BY <4>1, <5>1
        <5>2. CASE o # obj[t]
          <6>1. InCache(o) \/ \E u \in Threads : pc[u] \in InsertPcs /\ obj[u] = o
            BY <1>3, <4>1, <4>3, <5>2 DEF EmittedCached
          <6>2. QED
            BY <2>3, <4>2, <4>3, <6>1
        <5>3. QED
          BY <5>1, <5>2
      <4>4. QED
        BY <2>2, <4>3 DEF EmittedCached, Frame
    <3>3. CASE InsertObject(t)
      <4>1. obj'[t] = obj[t] /\ emitted' = emitted /\ obj[t] \in InPack
        BY <3>3 DEF InsertObject, TypeInv, InHand, IdlePcs
      <4>2. Inserting(t) /\ pack.hash[obj[t]] \in Names
        BY <1>0, <4>1, PackFacts
      <4>3. pc'[t] \in InsertPcs \/ InCache(obj[t])'
        <5>1. pc \in [Threads -> Pcs] /\ DOMAIN stored = Names
          BY DEF TypeInv, ThreadTypes, CacheTypes
        <5>2. CASE Unbounded /\ pc[t] = "insert_lru"
          BY <3>3, <4>1, <4>2, <5>1, <5>2, <2>2
          DEF InsertObject, Inserting, InCache, Frame, OffsetKey, HashKey
        <5>3. CASE ~Unbounded /\ pc[t] = "insert_offset"
          BY <3>3, <4>1, <4>2, <5>1, <5>3, <2>2
          DEF InsertObject, Inserting, InCache, Frame, OffsetKey, HashKey
        <5>4. CASE ~(Unbounded /\ pc[t] = "insert_lru") /\ ~(~Unbounded /\ pc[t] = "insert_offset")
          BY <3>3, <5>1, <5>4 DEF InsertObject, Goto, InsertPcs
        <5>5. QED
          BY <5>2, <5>3, <5>4
      <4>4. ASSUME NEW u \in Threads, pc[u] \in InsertPcs, u # t
            PROVE  pc'[u] \in InsertPcs /\ obj'[u] = obj[u]
        BY <3>1, <4>4 DEF OthersKeep
      <4>5. ASSUME NEW o \in InPack, NEW u \in Threads, pc[u] \in InsertPcs, obj[u] = o
            PROVE  InCache(o)' \/ \E v \in Threads : pc'[v] \in InsertPcs /\ obj'[v] = o
        BY <4>1, <4>3, <4>4, <4>5
      <4>6. QED
        BY <1>3, <2>2, <2>3, <4>1, <4>5 DEF EmittedCached, Frame
    <3>4. CASE pc[t] \notin InsertPcs /\ emitted' = emitted
      BY <2>4, <3>1, <3>4
    <3>5. ~EmitDropped(t)
      BY DEF EmitDropped, RetentionPcs
    <3>6. QED
      BY <2>7, <3>2, <3>3, <3>4, <3>5
      DEF JobStep, FindBase, FetchHit, FetchMiss, Wait, RefetchHit, RefetchMiss, Consume, Unhold,
          Release, RemoveBase, RebuildFails, Rebuild, CacheDropped, TakeWaiters, SubmitRebuilds,
          InsertPcs
  <2>8. CASE UNCHANGED vars
    BY <2>8 DEF vars, EmittedCached, InPack, InCache, OffsetKey, HashKey
  <2>9. QED
    BY <2>5, <2>6, <2>7, <2>8 DEF Next, Spin, Returned
<1>4. QED
  <2>1. pc[Main] = "returned" => pc'[Main] = "returned"
    BY Frozen DEF ReturnedInv, vars
  <2>2. QED
    BY <1>1, <1>2, <1>3, <2>1

\* Once no thread is at work, nothing that waits has its base in the caches.
LEMMA NoneLostWhenIdle ==
  ASSUME TypeInv, Streamed, PoolIdle, pc[Main] \in {"join", "abort"}
  PROVE  NoneLost
<1>1. SUFFICES ASSUME NEW d \in Waiting, NEW b \in Matches(d), emitted[b] # 0
               PROVE  FALSE
  BY DEF NoneLost, Streamed
<1>2. PICK k \in Keys : \E i \in 1..Len(waitlist[k]) : waitlist[k][i] = d
  BY DEF Waiting
<1>3. DeltaKey(d) = k /\ waitlist[k] # <<>>
  BY <1>2 DEF Streamed, WaitersKeyed, TypeInv, ListTypes
<1>4. pack \in Layout /\ b \in InPack /\ b \in Objects /\ emitted[b] > 0
  BY <1>1, PackFacts DEF Matches, TypeInv, ScalarTypes
<1>5. k \in OwnKeys(b) /\ k \in PackKeys
  BY <1>3, <1>4, KeyFacts DEF Matches, OwnKeys
<1>6. \A t \in Threads : pc[t] \in {"idle", "join", "abort"}
  BY DEF PoolIdle, Threads
<1>7. InCache(b)
  BY <1>4, <1>6 DEF Streamed, EmittedCached, InsertPcs
<1>8. Visible(k)
  <2>1. NameOf(k) = pack.hash[b]
    BY <1>4, <1>5 DEF OwnKeys, OffsetKey, HashKey, NameOf
  <2>2. QED
    BY <1>5, <1>7, <2>1 DEF Visible, InCache, OwnKeys
<1>9. QED
  BY <1>3, <1>5, <1>6, <1>8 DEF Streamed, WaitersAttended, Attends, InsertPcs

\* Before the first step nothing waits, nothing is cached, nothing was delivered.
LEMMA StreamInvInit ==
  ASSUME Init
  PROVE  StreamInv
<1>1. TypeInv
  BY TypeInvInit
<1>2. \A t \in Threads : pc[t] \in {"idle", "header"}
  BY DEF Init
<1>3. ReturnedInv /\ pc[Main] # "returned"
  BY ConstantsAssumption DEF Init, ReturnedInv, PoolIdle, Threads
<1>4. WaitersKeyed /\ WaitersAttended
  BY DEF Init, WaitersKeyed, WaitersAttended, Visible
<1>5. EmittedCached
  <2>1. InPack \subseteq Objects
    BY <1>1, PackFacts DEF TypeInv, ScalarTypes
  <2>2. \A o \in Objects : emitted[o] = 0
    BY DEF Init
  <2>3. QED
    BY <2>1, <2>2 DEF EmittedCached
<1>6. skipped = {}
  BY DEF Init
<1>7. QED
  BY <1>1, <1>2, <1>3, <1>4, <1>5, <1>6
  DEF StreamInv, Streamed, RetentionPcs, Inserting, InsertPcs

\* Every step of the streaming decoder keeps what Streamed says.
LEMMA StreamedNext ==
  ASSUME ~Retention, DistinctNames, TypeInv, ReturnedInv, Streamed, Next
  PROVE  Streamed'
<1>1. StreamBasics
  BY DEF StreamBasics, Streamed
<1>2. \A t \in Threads : pc'[t] \notin RetentionPcs /\ Inserting(t)'
  BY <1>1, StreamPcsNext, InsertingNext DEF Streamed
<1>3. WaitersKeyed' /\ WaitersAttended' /\ EmittedCached'
  BY <1>1, WaitersKeyedNext, WaitersAttendedNext, EmittedCachedNext DEF Streamed
<1>4. skipped' = {}
  BY DEF Streamed, Next, MainStep, JobStep, StartJob, Spin, Returned, vars, ReadHeader,
         RejectHeader, ReadFails, SkipEntry, MaySkip, ReadEntry, DropBase, MayDrop, CacheBase,
         SubmitEntry, ReadTrailer, JoinPool, Abort, FindBase, FetchHit, FetchMiss, Wait,
         RefetchHit, RefetchMiss, Consume, Unhold, Release, RemoveBase, RebuildFails, Rebuild,
         CacheKept, CacheDropped, InsertObject, TakeWaiters, EmitDropped, SubmitRebuilds
<1>5. pc'[Main] = "returned" => NoneLost'
  <2>1. ASSUME NoneLost, UNCHANGED <<callVars, waitlist, emitted, skipped>>
        PROVE  NoneLost'
    BY <2>1 DEF NoneLost, Waiting, Matches, InPack, OffsetKey, HashKey, DeltaKey
  <2>2. CASE pc[Main] = "returned"
    <3>1. UNCHANGED vars
      BY <2>2, Frozen DEF ReturnedInv
    <3>2. QED
      BY <2>1, <2>2, <3>1 DEF vars, Streamed
  <2>3. CASE JoinPool \/ Abort
    BY <2>1, <2>3, NoneLostWhenIdle DEF JoinPool, Abort
  <2>4. CASE pc[Main] = "header"
    <3>1. UNCHANGED <<callVars, waitlist, emitted, skipped>>
      BY <2>4, HeaderFirst DEF ReturnedInv, ReadHeader, RejectHeader
    <3>2. Waiting = {}
      BY <2>4 DEF ReturnedInv, Waiting
    <3>3. QED
      BY <2>1, <3>1, <3>2 DEF NoneLost
  <2>5. CASE pc[Main] \notin {"header", "returned"} /\ ~JoinPool /\ ~Abort
    BY <2>5, OnlyEndReturns
  <2>6. QED
    BY <2>2, <2>3, <2>4, <2>5
<1>6. QED
  BY <1>2, <1>3, <1>4, <1>5 DEF Streamed

\* The mode and the pack stay, so the streaming case of StreamInv stays one.
LEMMA StreamInvNext ==
  ASSUME StreamInv, [Next]_vars
  PROVE  StreamInv'
<1>1. TypeInv' /\ ReturnedInv'
  BY TypeInvNext, ReturnedNext DEF StreamInv
<1>2. CASE Next
  <2>1. Frame
    BY <1>2, FrameNext, MainLocal, StartLocal, JobLocal DEF Next, Spin, Returned, vars, StreamInv
  <2>2. ~Retention' /\ DistinctNames' => ~Retention /\ DistinctNames
    BY <2>1 DEF Frame, Retention, DistinctNames
  <2>3. QED
    BY <1>1, <1>2, <2>2, StreamedNext DEF StreamInv
<1>3. CASE UNCHANGED vars
  <2>1. ~Retention' /\ DistinctNames' => ~Retention /\ DistinctNames
    BY <1>3 DEF vars, Retention, DistinctNames, InPack
  <2>2. Streamed => Streamed'
    <3>1. \A t \in Threads : Inserting(t) => Inserting(t)'
      BY <1>3 DEF vars, Inserting, Unbounded, HashKey, OffsetKey
    <3>2. WaitersKeyed => WaitersKeyed'
      BY <1>3 DEF vars, WaitersKeyed, DeltaKey
    <3>3. WaitersAttended => WaitersAttended'
      BY <1>3, AttendedStutter
    <3>4. EmittedCached => EmittedCached'
      BY <1>3 DEF vars, EmittedCached, InPack, InCache, HashKey, OffsetKey
    <3>5. NoneLost => NoneLost'
      BY <1>3 DEF vars, NoneLost, Waiting, Matches, InPack, OffsetKey, HashKey, DeltaKey
    <3>6. QED
      BY <1>3, <3>1, <3>2, <3>3, <3>4, <3>5 DEF vars, Streamed
  <2>3. QED
    BY <1>1, <2>1, <2>2 DEF StreamInv
<1>4. QED
  BY <1>2, <1>3

\* Without retention, and when a pack names each object once, no delta is left on
\* the waitlist although its base was decoded: the second lookup that
\* process_delta_dependency makes after Waitlist::insert closes the window, for
\* any number of workers, bounded or unbounded caches, in every schedule.
THEOREM NoLostWakeup == Spec => [](~Retention /\ DistinctNames => NoLostWaiter)
<1>1. Init => StreamInv
  BY StreamInvInit
<1>2. StreamInv /\ [Next]_vars => StreamInv'
  BY StreamInvNext
<1>3. StreamInv => (~Retention /\ DistinctNames => NoLostWaiter)
  <2>1. ASSUME TypeInv, Streamed, PoolIdle, pc[Main] \in {"join", "abort", "returned"}
        PROVE  NoneLost
    BY <2>1, NoneLostWhenIdle DEF Streamed
  <2>2. QED
    BY <2>1 DEF StreamInv, NoLostWaiter, NoneLost
<1>4. QED
  BY <1>1, <1>2, <1>3, PTL DEF Spec
=============================================================================
