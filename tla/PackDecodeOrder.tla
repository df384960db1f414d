--------------------------- MODULE PackDecodeOrder ---------------------------
(***************************************************************************)
(* Bases before deltas, for every pack, every number of workers and every  *)
(* mode of decode_inner: names that occur twice, the retention counters    *)
(* and the objects dropped as soon as they have served their waiters       *)
(* included.                                                               *)
(***************************************************************************)
EXTENDS PackDecodeProofs

Out == {o \in InPack : emitted[o] > 0}
Under(k) == {d \in Deltas : DeltaKey(d) = k}
Served(b) == Under(OffsetKey(b)) \union Under(HashKey(b))

\* The deltas of which a base was delivered.
Ready == {d \in Deltas : \E b \in Out : d \in Served(b)}
ReadyJobs ==
  {j \in PackJobs : /\ j.op = "rebuild" => j.obj \in Ready
                    /\ j.op = "cache" => j.obj \notin Deltas}

DropPcs == {"drop_offset", "drop_hash", "emit"}

\* What a thread works with: a delta it rebuilds or looks up in the caches is
\* ready, and so is every delta it has taken, except while it holds an object
\* that is dropped and has not been handed to the callback yet.
InOrder(t) ==
  /\ pc[t] \in {"fetch", "refetch", "rebuild"} => obj[t] \in Ready
  /\ pc[t] \in {"cache"} \union DropPcs /\ obj[t] \in Deltas => obj[t] \in Ready
  /\ pc[t] \in DropPcs => base[t] = obj[t] /\ taken[t] \in Seq(Served(obj[t]))
  /\ pc[t] \in {"insert_lru", "insert_hash", "insert_offset"} => obj[t] \in Out
  /\ pc[t] \in BasePcs \ DropPcs => base[t] \in Out
  /\ pc[t] \in {"consume", "unhold"} /\ taken[t] # <<>> => base[t] \in Out
  /\ pc[t] \notin DropPcs => taken[t] \in Seq(Ready)

OutReady == Out \intersect Deltas \subseteq Ready
CachesReady ==
  /\ \A k \in index : Under(k) \subseteq Ready
  /\ \A h \in Names : stored[h] \subseteq Out
ListsReady ==
  /\ queue \in Seq(ReadyJobs)
  /\ \A k \in Keys : waitlist[k] \in Seq(Under(k))

OrderInv == OutReady /\ CachesReady /\ ListsReady /\ \A t \in Threads : InOrder(t)

-----------------------------------------------------------------------------
USE DEF callVars, cacheVars, retentionVars, outVars, threadVars

\* What was delivered stays delivered, so a delta that is ready stays so.
LEMMA OutGrows ==
  ASSUME TypeInv, Next
  PROVE  Out \subseteq Out'
<1>1. Frame
  BY FrameNext, MainLocal, StartLocal, JobLocal DEF Next, Spin, Returned, vars
<1>2. InPack \subseteq Objects /\ emitted \in [Objects -> Nat]
  BY PackFacts DEF TypeInv, ScalarTypes
<1>3. CASE UNCHANGED emitted
  BY <1>1, <1>3 DEF Out, Frame
<1>4. CASE \E t \in Threads : EmitObject(t)
  BY <1>1, <1>2, <1>4 DEF Out, Frame, EmitObject
<1>5. QED
  BY <1>3, <1>4
  DEF Next, MainStep, JobStep, StartJob, Spin, Returned, vars, ReadHeader, RejectHeader,
      ReadFails, SkipEntry, ReadEntry, DropBase, CacheBase, SubmitEntry, ReadTrailer, JoinPool,
      Abort, FindBase, FetchHit, FetchMiss, Wait, RefetchHit, RefetchMiss, Consume, Unhold,
      Release, RemoveBase, RebuildFails, Rebuild, CacheKept, CacheDropped, InsertObject,
      TakeWaiters, EmitDropped, SubmitRebuilds

\* The sets the invariant speaks of: those given by the pack stay, the others grow.
OrderFrame ==
  /\ \A k : Under(k)' = Under(k)
  /\ \A o : Served(o)' = Served(o)
  /\ Out \subseteq Out'
  /\ Ready \subseteq Ready'
  /\ ReadyJobs \subseteq ReadyJobs'
  /\ Deltas' = Deltas

\* They do when the pack stays and nothing delivered is forgotten.
LEMMA OrderFrameNext ==
  ASSUME UNCHANGED callVars, Out \subseteq Out'
  PROVE  OrderFrame
<1>1. Frame
  BY FrameNext
<1>2. \A k : Under(k)' = Under(k)
  BY <1>1 DEF Frame, Under, DeltaKey
<1>3. \A o : Served(o)' = Served(o)
  BY <1>1 DEF Frame, Served, Under, DeltaKey, OffsetKey, HashKey
<1>4. Ready \subseteq Ready'
  BY <1>1, <1>3 DEF Frame, Ready
<1>5. ReadyJobs \subseteq ReadyJobs'
  BY <1>1, <1>4 DEF Frame, ReadyJobs
<1>6. QED
  BY <1>1, <1>2, <1>3, <1>4, <1>5 DEF OrderFrame, Frame

\* So what the other threads work with stays in order.
LEMMA InOrderOthers ==
  ASSUME OrderFrame, NEW t \in Threads, OthersKeep(t), \A u \in Threads : InOrder(u), InOrder(t)'
  PROVE  \A u \in Threads : InOrder(u)'
<1>1. Seq(Ready) \subseteq Seq(Ready')
  BY SeqMonotonic DEF OrderFrame
<1>2. ASSUME NEW u \in Threads, u # t
      PROVE  InOrder(u)'
  <2>1. InOrder(u)
    OBVIOUS
  <2>2. /\ pc'[u] = pc[u] /\ obj'[u] = obj[u]
        /\ base'[u] = base[u] /\ taken'[u] = taken[u]
    BY <1>2 DEF OthersKeep
  <2>3. QED
    BY <1>1, <2>1, <2>2 DEF OrderFrame, InOrder
<1>3. QED
  BY <1>2

\* A delta an emitted base serves is ready.
LEMMA ServedReady ==
  ASSUME NEW b \in Out
  PROVE  Served(b) \subseteq Ready
BY DEF Served, Ready, Under

\* Every step has the frame.
LEMMA StepFrame ==
  ASSUME TypeInv, Next
  PROVE  Frame /\ OrderFrame
<1>1. UNCHANGED callVars
  BY MainLocal, StartLocal, JobLocal DEF Next, Spin, Returned, vars
<1>2. QED
  BY <1>1, FrameNext, OrderFrameNext, OutGrows

-----------------------------------------------------------------------------
(* Each part of the invariant is kept.                                     *)

\* A thread hands an object to the callback only when the object is a base or
\* one of its bases was delivered before.
LEMMA OutReadyNext ==
  ASSUME TypeInv, OrderInv, Next
  PROVE  OutReady'
<1>1. Frame /\ OrderFrame
  BY StepFrame
<1>2. InPack \subseteq Objects /\ emitted \in [Objects -> Nat]
  BY PackFacts DEF TypeInv, ScalarTypes
<1>3. CASE UNCHANGED emitted
  <2>1. Out' = Out
    BY <1>1, <1>3 DEF Out, Frame
  <2>2. QED
    BY <1>1, <2>1 DEF OutReady, OrderInv, OrderFrame
<1>4. ASSUME NEW t \in Threads, CacheKept(t) \/ EmitDropped(t)
      PROVE  OutReady'
  <2>1. Out' \subseteq Out \union {obj[t]}
    BY <1>1, <1>2, <1>4 DEF Out, Frame, CacheKept, EmitDropped, EmitObject
  <2>2. obj[t] \in Deltas => obj[t] \in Ready
    BY <1>4 DEF OrderInv, InOrder, CacheKept, EmitDropped, DropPcs
  <2>3. QED
    BY <1>1, <2>1, <2>2 DEF OutReady, OrderInv, OrderFrame
<1>5. QED
  BY <1>3, <1>4
  DEF Next, MainStep, JobStep, StartJob, Spin, Returned, vars, ReadHeader, RejectHeader,
      ReadFails, SkipEntry, ReadEntry, DropBase, CacheBase, SubmitEntry, ReadTrailer, JoinPool,
      Abort, FindBase, FetchHit, FetchMiss, Wait, RefetchHit, RefetchMiss, Consume, Unhold,
      Release, RemoveBase, RebuildFails, Rebuild, CacheDropped, InsertObject,
      TakeWaiters, SubmitRebuilds

\* The caches only learn of objects that were handed to the callback.
LEMMA CachesReadyNext ==
  ASSUME TypeInv, OrderInv, Next
  PROVE  CachesReady'
<1>1. Frame /\ OrderFrame
  BY StepFrame
<1>2. stored \in [Names -> SUBSET Objects]
  BY DEF TypeInv, CacheTypes
<1>3. ASSUME index' \subseteq index, \A h \in Names : stored'[h] \subseteq stored[h]
      PROVE  CachesReady'
  BY <1>1, <1>3 DEF CachesReady, OrderInv, OrderFrame
<1>4. ASSUME NEW t \in Threads, InsertObject(t)
      PROVE  CachesReady'
  <2>1. obj[t] \in Out
    BY <1>4 DEF InsertObject, OrderInv, InOrder
  <2>2. Served(obj[t]) \subseteq Ready
    BY <2>1, ServedReady
  <2>3. index' \subseteq index \union {HashKey(obj[t]), OffsetKey(obj[t])}
    BY <1>4 DEF InsertObject
  <2>4. \A k \in index' : Under(k) \subseteq Ready
    BY <2>2, <2>3 DEF Served, OrderInv, CachesReady
  <2>5. \A h \in Names : stored'[h] \subseteq stored[h] \union {obj[t]}
    BY <1>2, <1>4 DEF InsertObject
  <2>6. \A h \in Names : stored'[h] \subseteq Out
    BY <2>1, <2>5 DEF OrderInv, CachesReady
  <2>7. QED
    BY <1>1, <2>4, <2>6 DEF CachesReady, OrderFrame
<1>5. CASE JoinPool \/ Abort
  BY <1>3, <1>5 DEF JoinPool, Abort, ClearCaches
<1>6. CASE \E t \in Threads : RemoveBase(t)
  BY <1>2, <1>3, <1>6 DEF RemoveBase
<1>7. CASE UNCHANGED cacheVars
  BY <1>3, <1>7
<1>8. QED
  BY <1>4, <1>5, <1>6, <1>7
  DEF Next, MainStep, JobStep, StartJob, Spin, Returned, vars, ReadHeader, RejectHeader,
      ReadFails, SkipEntry, ReadEntry, DropBase, CacheBase, SubmitEntry, ReadTrailer,
      FindBase, FetchHit, FetchMiss, Wait, RefetchHit, RefetchMiss, Consume, Unhold,
      Release, RebuildFails, Rebuild, CacheKept, CacheDropped, TakeWaiters, EmitDropped,
      SubmitRebuilds

\* A delta waits under the key of its base; it is queued for its rebuild when
\* it is ready.
LEMMA ListsReadyNext ==
  ASSUME TypeInv, OrderInv, Next
  PROVE  ListsReady'
<1>1. Frame /\ OrderFrame
  BY StepFrame
<1>2. Seq(ReadyJobs) \subseteq Seq(ReadyJobs')
  BY <1>1, SeqMonotonic DEF OrderFrame
<1>3. queue \in Seq(ReadyJobs) /\ \A k \in Keys : waitlist[k] \in Seq(Under(k))
  BY DEF OrderInv, ListsReady
<1>4. SUFFICES queue' \in Seq(ReadyJobs) /\ \A k \in Keys : waitlist'[k] \in Seq(Under(k))
  BY <1>1, <1>2 DEF ListsReady, OrderFrame
<1>5. CASE SubmitEntry
  <2>1. obj[Main] \in InPack /\ obj[Main] \in Objects
    BY <1>5, PackFacts DEF SubmitEntry, TypeInv, InHand, IdlePcs, Threads, ScalarTypes
  <2> DEFINE job == Job(IF IsDelta(obj[Main]) THEN "dependency" ELSE "cache", obj[Main], NoObject)
  <2>2. job \in ReadyJobs
    BY <2>1, ConstantsAssumption DEF Job, ReadyJobs, Deltas, PackJobs, Jobs, NoObject
  <2>3. queue' = Append(queue, job) /\ waitlist' = waitlist
    BY <1>5 DEF SubmitEntry
  <2> HIDE DEF job
  <2>4. QED
    BY <1>3, <2>2, <2>3, AppendProperties
<1>6. ASSUME NEW t \in Threads, SubmitRebuilds(t)
      PROVE  queue' \in Seq(ReadyJobs) /\ waitlist' = waitlist
  <2>1. base[t] \in InPack /\ InPack \subseteq Objects /\ Objects \subseteq 0..MaxObjects
    BY <1>6, PackFacts DEF SubmitRebuilds, TypeInv, InHand, BasePcs, ScalarTypes, Objects
  <2>2. taken[t] \in Seq(Ready)
    BY <1>6 DEF SubmitRebuilds, OrderInv, InOrder, DropPcs
  <2>3. ASSUME NEW i \in 1..Len(taken[t])
        PROVE  Job("rebuild", taken[t][i], base[t]) \in ReadyJobs
    <3>1. taken[t][i] \in Ready
      BY <2>2, ElementOfSeq
    <3>2. QED
      BY <2>1, <3>1 DEF Ready, Deltas, Job, ReadyJobs, PackJobs, Jobs
  <2> DEFINE jobs == [i \in 1..Len(taken[t]) |-> Job("rebuild", taken[t][i], base[t])]
  <2>4. jobs \in Seq(ReadyJobs)
    BY <2>2, <2>3
  <2>5. queue' = queue \o jobs /\ waitlist' = waitlist
    BY <1>6 DEF SubmitRebuilds
  <2> HIDE DEF jobs
  <2>6. QED
    BY <1>3, <2>4, <2>5, ConcatProperties
<1>7. ASSUME NEW w \in Workers, StartJob(w)
      PROVE  queue' \in Seq(ReadyJobs) /\ waitlist' = waitlist
  BY <1>3, <1>7, HeadTailProperties DEF StartJob
<1>8. ASSUME NEW t \in Threads, Wait(t)
      PROVE  queue' = queue /\ \A k \in Keys : waitlist'[k] \in Seq(Under(k))
  <2>1. obj[t] \in Under(KeyOf(t))
    BY <1>8 DEF Wait, TypeInv, InHand, DeltaPcs, IdlePcs, Under, Deltas, KeyOf
  <2>2. ASSUME NEW k \in Keys
        PROVE  waitlist'[k] = IF k = KeyOf(t) THEN Append(waitlist[k], obj[t]) ELSE waitlist[k]
    BY <1>8 DEF Wait, TypeInv, ListTypes
  <2>3. QED
    BY <1>3, <1>8, <2>1, <2>2, AppendProperties DEF Wait
<1>9. ASSUME NEW t \in Threads, TakeWaiters(t)
      PROVE  queue' = queue /\ \A k \in Keys : waitlist'[k] \in Seq(Under(k))
  <2>1. \A k \in Keys : waitlist'[k] = waitlist[k] \/ waitlist'[k] = <<>>
    BY <1>9 DEF TakeWaiters, TakeFrom, TypeInv, ListTypes
  <2>2. QED
    BY <1>3, <1>9, <2>1, EmptySeq DEF TakeWaiters
<1>10. CASE UNCHANGED <<queue, waitlist>>
  BY <1>3, <1>10
<1>11. QED
  BY <1>3, <1>5, <1>6, <1>7, <1>8, <1>9, <1>10
  DEF Next, MainStep, JobStep, Spin, Returned, vars, ReadHeader, RejectHeader,
      ReadFails, SkipEntry, ReadEntry, DropBase, CacheBase, ReadTrailer, JoinPool,
      Abort, FindBase, FetchHit, FetchMiss, RefetchHit, RefetchMiss, Consume, Unhold,
      Release, RemoveBase, RebuildFails, Rebuild, CacheKept, CacheDropped, InsertObject,
      EmitDropped

\* The reading thread caches bases only.
LEMMA InOrderMain ==
  ASSUME TypeInv, OrderInv, MainStep, Frame, OrderFrame
  PROVE  InOrder(Main)'
<1>0. Main \in Threads /\ <<>> \in Seq(Ready')
  BY EmptySeq DEF Threads
<1>1. InOrder(Main) /\ InHand(Main) /\ pc \in [Threads -> Pcs]
  BY <1>0 DEF OrderInv, TypeInv, ThreadTypes
<1>2. CASE SkipEntry
  BY <1>0, <1>1, <1>2 DEF SkipEntry, MayRead, InOrder, InHand, EmptyPcs, IdlePcs, DropPcs, BasePcs
<1>3. CASE CacheBase
  <2>1. pc'[Main] = "cache" /\ obj'[Main] = obj[Main] /\ obj[Main] \notin Deltas
    BY <1>0, <1>1, <1>3 DEF CacheBase, CacheInline, Goto, Deltas
  <2>2. taken'[Main] = <<>>
    BY <1>1, <1>3 DEF CacheBase, InHand, EmptyPcs
  <2>3. QED
    BY <1>0, <2>1, <2>2 DEF InOrder, OrderFrame, DropPcs, BasePcs
<1>4. CASE ~SkipEntry /\ ~CacheBase
  <2>1. pc'[Main] \in IdlePcs \union {"dispatch"}
    BY <1>0, <1>1, <1>4
    DEF MainStep, ReadHeader, RejectHeader, ReadFails, ReadEntry, DropBase, SubmitEntry,
        ReadTrailer, JoinPool, Abort, Goto, Done, IdlePcs
  <2>2. taken'[Main] = <<>>
    BY <1>0, <1>1, <1>4
    DEF MainStep, ReadHeader, RejectHeader, ReadFails, ReadEntry, DropBase, SubmitEntry, MayRead,
        ReadTrailer, JoinPool, Abort, Goto, Done, IdlePcs, InHand, EmptyPcs, TypeInv, ListTypes
  <2>3. QED
    BY <1>0, <2>1, <2>2 DEF InOrder, IdlePcs, DropPcs, BasePcs
<1>5. QED
  BY <1>2, <1>3, <1>4

\* A job starts with what its submitter put in the queue.
LEMMA InOrderStart ==
  ASSUME TypeInv, OrderInv, NEW w \in Workers, StartJob(w), Frame, OrderFrame
  PROVE  InOrder(w)'
<1>1. Head(queue) \in ReadyJobs
  BY HeadTailProperties DEF StartJob, OrderInv, ListsReady
<1>2. /\ Head(queue).op \in {"dependency", "cache", "rebuild"}
      /\ Head(queue).op = "rebuild" => Head(queue).obj \in Ready
      /\ Head(queue).op = "cache" => Head(queue).obj \notin Deltas
  BY <1>1 DEF ReadyJobs, PackJobs, Jobs
<1>3. /\ obj'[w] = Head(queue).obj
      /\ pc'[w] = CASE Head(queue).op = "dependency" -> "find"
                    [] Head(queue).op = "cache" -> "cache"
                    [] Head(queue).op = "rebuild" -> "rebuild"
  BY DEF StartJob, Goto, TypeInv, ThreadTypes, Threads
<1>4. taken'[w] = <<>> /\ taken'[w] \in Seq(Ready')
  BY EmptySeq DEF StartJob, TypeInv, InHand, EmptyPcs, IdlePcs, Threads
<1>5. CASE Head(queue).op = "dependency"
  BY <1>3, <1>4, <1>5 DEF InOrder, DropPcs, BasePcs
<1>6. CASE Head(queue).op = "cache"
  BY <1>2, <1>3, <1>4, <1>6 DEF InOrder, DropPcs, BasePcs, OrderFrame
<1>7. CASE Head(queue).op = "rebuild"
  BY <1>2, <1>3, <1>4, <1>7 DEF InOrder, DropPcs, BasePcs, OrderFrame
<1>8. QED
  BY <1>2, <1>5, <1>6, <1>7

\* What a thread takes off the waitlist is served by the base it holds.
LEMMA InOrderTake ==
  ASSUME TypeInv, OrderInv, NEW t \in Threads, TakeWaiters(t), Frame, OrderFrame
  PROVE  InOrder(t)'
<1>1. InOrder(t) /\ InHand(t)
  BY DEF OrderInv, TypeInv
<1>2. base[t] \in InPack /\ OffsetKey(base[t]) \in Keys /\ HashKey(base[t]) \in Keys
  BY <1>1, KeyFacts DEF TakeWaiters, InHand, BasePcs, TypeInv, ScalarTypes
<1>3. PICK k \in {OffsetKey(base[t]), HashKey(base[t])} : taken'[t] = taken[t] \o waitlist[k]
  BY DEF TakeWaiters, TakeFrom, TypeInv, ListTypes
<1>4. waitlist[k] \in Seq(Under(k)) /\ Under(k) \subseteq Served(base[t])
  BY <1>2, <1>3 DEF OrderInv, ListsReady, Served
<1>5. waitlist[k] \in Seq(Served(base[t]))
  BY <1>4, SeqMonotonic
<1>6. obj'[t] = obj[t] /\ base'[t] = base[t]
  BY DEF TakeWaiters
<1>7. CASE pc[t] \in {"take_offset", "take_hash"}
  <2>1. base[t] \in Out /\ taken[t] \in Seq(Ready)
    BY <1>1, <1>7 DEF InOrder, BasePcs, DropPcs
  <2>2. Served(base[t]) \subseteq Ready
    BY <2>1, ServedReady
  <2>3. waitlist[k] \in Seq(Ready)
    BY <1>5, <2>2, SeqMonotonic
  <2>4. taken'[t] \in Seq(Ready)
    BY <1>3, <2>1, <2>3, ConcatProperties
  <2>5. taken'[t] \in Seq(Ready')
    BY <2>4, SeqMonotonic DEF OrderFrame
  <2>6. pc'[t] \in {"take_hash", "submit"}
    BY <1>7 DEF TakeWaiters, TakeFrom, Goto, TypeInv, ThreadTypes
  <2>7. QED
    BY <1>6, <2>1, <2>5, <2>6 DEF InOrder, BasePcs, DropPcs, OrderFrame
<1>8. CASE pc[t] \in {"drop_offset", "drop_hash"}
  <2>1. base[t] = obj[t] /\ taken[t] \in Seq(Served(obj[t]))
    BY <1>1, <1>8 DEF InOrder, DropPcs
  <2>2. taken'[t] \in Seq(Served(obj[t]))
    BY <1>3, <1>5, <2>1, ConcatProperties
  <2>3. pc'[t] \in {"drop_hash", "emit"}
    BY <1>8 DEF TakeWaiters, TakeFrom, Goto, TypeInv, ThreadTypes
  <2>4. QED
    BY <1>1, <1>6, <1>8, <2>1, <2>2, <2>3 DEF InOrder, BasePcs, DropPcs, OrderFrame
<1>9. QED
  BY <1>7, <1>8 DEF TakeWaiters

\* An object goes from "delivered" to "serves its waiters", never the other way.
LEMMA InOrderEmit ==
  ASSUME TypeInv, OrderInv, NEW t \in Threads, CacheKept(t) \/ CacheDropped(t) \/ EmitDropped(t),
         Frame, OrderFrame
  PROVE  InOrder(t)'
<1>1. InOrder(t) /\ InHand(t)
  BY DEF OrderInv, TypeInv
<1>2. /\ obj[t] \in InPack /\ InPack \subseteq Objects /\ emitted \in [Objects -> Nat]
      /\ obj'[t] = obj[t] /\ taken'[t] = taken[t]
  BY <1>1, PackFacts
  DEF TypeInv, ScalarTypes, InHand, IdlePcs, CacheKept, CacheDropped, EmitDropped
<1>3. EmitObject(t) => obj[t] \in Out'
  <2>1. emitted[obj[t]] \in Nat
    BY <1>2
  <2>2. EmitObject(t) => emitted'[obj[t]] = emitted[obj[t]] + 1
    BY <1>2 DEF EmitObject
  <2>3. EmitObject(t) => emitted'[obj[t]] > 0
    BY <2>1, <2>2
  <2>4. QED
    BY <1>2, <2>3 DEF Out, Frame
<1>4. CASE CacheKept(t)
  <2>1. pc'[t] \in {"insert_hash", "insert_lru"} /\ base'[t] = obj[t] /\ obj[t] \in Out'
    BY <1>3, <1>4 DEF CacheKept, Goto, TypeInv, ThreadTypes
  <2>2. taken'[t] = <<>> /\ taken'[t] \in Seq(Ready')
    BY <1>1, <1>2, <1>4, EmptySeq DEF CacheKept, InHand, EmptyPcs
  <2>3. QED
    BY <1>2, <2>1, <2>2 DEF InOrder, BasePcs, DropPcs
<1>5. CASE CacheDropped(t)
  <2>1. pc'[t] = "drop_offset" /\ base'[t] = obj[t]
    BY <1>5 DEF CacheDropped, Goto, TypeInv, ThreadTypes
  <2>2. taken'[t] \in Seq(Served(obj[t])')
    BY <1>1, <1>2, <1>5, EmptySeq DEF CacheDropped, InHand, EmptyPcs
  <2>3. obj[t] \in Deltas => obj[t] \in Ready
    BY <1>1, <1>5 DEF CacheDropped, InOrder
  <2>4. QED
    BY <1>2, <2>1, <2>2, <2>3 DEF InOrder, BasePcs, DropPcs, OrderFrame
<1>6. CASE EmitDropped(t)
  <2>1. pc'[t] = "submit" /\ base'[t] = obj[t] /\ obj[t] \in Out'
    BY <1>1, <1>3, <1>6 DEF EmitDropped, Goto, TypeInv, ThreadTypes, InOrder, DropPcs
  <2>2. Served(obj[t]) \subseteq Ready'
    BY <2>1 DEF OrderFrame, Served, Under, Ready
  <2>3. taken'[t] \in Seq(Ready')
    BY <1>1, <1>2, <1>6, <2>2, SeqMonotonic DEF EmitDropped, InOrder, DropPcs
  <2>4. QED
    BY <2>1, <2>3 DEF InOrder, BasePcs, DropPcs
<1>7. QED
  BY <1>4, <1>5, <1>6

\* A lookup that succeeds proves that a base was delivered: the index names only
\* keys of delivered objects, even when the caches hand out another object of
\* the same name.
LEMMA InOrderLookup ==
  ASSUME TypeInv, OrderInv, NEW t \in Threads, FindBase(t) \/ FetchHit(t) \/ RefetchHit(t),
         Frame, OrderFrame
  PROVE  InOrder(t)'
<1>0. pc \in [Threads -> Pcs] /\ <<>> \in Seq(Ready')
  BY EmptySeq DEF TypeInv, ThreadTypes
<1>1. InOrder(t) /\ InHand(t)
  BY DEF OrderInv, TypeInv
<1>2. obj[t] \in Under(KeyOf(t)) /\ taken[t] = <<>>
  BY <1>1
  DEF InHand, DeltaPcs, IdlePcs, EmptyPcs, Under, Deltas, KeyOf, FindBase, FetchHit, RefetchHit
<1>3. pc[t] \in {"fetch", "refetch"} => stored[NameOf(KeyOf(t))] \subseteq Out
  BY <1>1, KeyFacts DEF InHand, TypeInv, ScalarTypes, OrderInv, CachesReady
<1>4. CASE FindBase(t)
  <2>1. taken'[t] = <<>>
    BY <1>2, <1>4 DEF FindBase, Done, TypeInv, ListTypes
  <2>2. CASE pc'[t] \in {"fetch", "refetch"}
    <3>1. obj'[t] = obj[t] /\ KeyOf(t) \in index
      BY <1>0, <1>4, <2>2 DEF FindBase, Goto, Done
    <3>2. obj[t] \in Ready
      BY <1>2, <3>1 DEF OrderInv, CachesReady
    <3>3. QED
      BY <1>0, <2>1, <2>2, <3>1, <3>2 DEF InOrder, OrderFrame, BasePcs, DropPcs
  <2>3. CASE pc'[t] \in {"wait", "read", "idle"}
    BY <1>0, <2>1, <2>3 DEF InOrder, BasePcs, DropPcs
  <2>4. QED
    BY <1>0, <1>4, <2>2, <2>3 DEF FindBase, Goto, Done
<1>5. CASE FetchHit(t)
  <2>1. obj[t] \in Ready' /\ base'[t] \in Out' /\ taken'[t] = <<obj[t]>>
    BY <1>1, <1>3, <1>5 DEF FetchHit, InOrder, OrderFrame, TypeInv, ListTypes, ThreadTypes
  <2>2. taken'[t] \in Seq(Ready')
    BY <2>1
  <2>3. pc'[t] \in {"consume", "submit"}
    BY <1>0, <1>5 DEF FetchHit, Goto
  <2>4. QED
    BY <2>1, <2>2, <2>3 DEF InOrder, BasePcs, DropPcs
<1>6. CASE RefetchHit(t)
  <2>1. base'[t] \in Out' /\ taken'[t] = <<>>
    BY <1>2, <1>3, <1>6 DEF RefetchHit, OrderFrame, TypeInv, ThreadTypes
  <2>2. pc'[t] \in {"release", "take_offset"}
    BY <1>0, <1>6 DEF RefetchHit, Goto
  <2>3. QED
    BY <1>0, <2>1, <2>2 DEF InOrder, BasePcs, DropPcs
<1>7. QED
  BY <1>4, <1>5, <1>6

\* The other steps of a job move on with what they have.
LEMMA InOrderPass ==
  ASSUME TypeInv, OrderInv, NEW t \in Threads, Frame, OrderFrame,
         \/ FetchMiss(t) \/ Wait(t) \/ Consume(t) \/ Unhold(t) \/ Release(t) \/ RemoveBase(t)
         \/ Rebuild(t) \/ InsertObject(t)
  PROVE  InOrder(t)'
<1>0. pc \in [Threads -> Pcs] /\ Seq(Ready) \subseteq Seq(Ready')
  BY SeqMonotonic DEF TypeInv, ThreadTypes, OrderFrame
<1>1. InOrder(t) /\ InHand(t)
  BY DEF OrderInv, TypeInv
<1>2. obj'[t] = obj[t] /\ base'[t] = base[t] /\ taken'[t] = taken[t]
  BY DEF FetchMiss, Wait, Consume, Unhold, Release, RemoveBase, Rebuild, InsertObject
<1>3. taken'[t] \in Seq(Ready')
  BY <1>0, <1>1, <1>2
  DEF InOrder, DropPcs, FetchMiss, Wait, Consume, Unhold, Release, RemoveBase, Rebuild,
      InsertObject
<1>4. CASE FetchMiss(t) \/ Wait(t)
  <2>1. taken'[t] = <<>>
    BY <1>1, <1>2, <1>4 DEF InHand, EmptyPcs, FetchMiss, Wait
  <2>2. pc'[t] \in {"wait", "consume", "refind"}
    BY <1>0, <1>4 DEF FetchMiss, Wait, Goto
  <2>3. QED
    BY <1>3, <2>1, <2>2 DEF InOrder, BasePcs, DropPcs
<1>5. CASE Consume(t) \/ Unhold(t)
  <2>1. pc'[t] \in {"unhold", "refind"} \/ (pc'[t] = "release" /\ taken[t] # <<>>)
    BY <1>0, <1>5 DEF Consume, Unhold, Goto, AfterConsume
  <2>2. taken[t] # <<>> => base[t] \in Out
    BY <1>1, <1>5 DEF Consume, Unhold, InOrder
  <2>3. QED
    BY <1>2, <1>3, <2>1, <2>2 DEF InOrder, BasePcs, DropPcs, OrderFrame
<1>6. CASE Release(t) \/ RemoveBase(t)
  <2>1. pc'[t] \in {"remove_lru", "remove_offset", "remove_hash", "submit", "take_offset"}
    BY <1>0, <1>6 DEF Release, RemoveBase, Goto, AfterRelease
  <2>2. base[t] \in Out
    BY <1>1, <1>6 DEF Release, RemoveBase, InOrder, BasePcs, DropPcs
  <2>3. QED
    BY <1>2, <1>3, <2>1, <2>2 DEF InOrder, BasePcs, DropPcs, OrderFrame
<1>7. CASE Rebuild(t)
  <2>1. pc'[t] = "cache" /\ obj[t] \in Ready
    BY <1>0, <1>1, <1>7 DEF Rebuild, Goto, InOrder
  <2>2. QED
    BY <1>2, <1>3, <2>1 DEF InOrder, BasePcs, DropPcs, OrderFrame
<1>8. CASE InsertObject(t)
  <2>1. pc'[t] \in {"insert_lru", "insert_hash", "insert_offset", "take_offset"}
    BY <1>0, <1>8 DEF InsertObject, Goto
  <2>2. obj[t] \in Out /\ base[t] \in Out
    BY <1>1, <1>8 DEF InsertObject, InOrder, BasePcs, DropPcs
  <2>3. QED
    BY <1>2, <1>3, <2>1, <2>2 DEF InOrder, BasePcs, DropPcs, OrderFrame
<1>9. QED
  BY <1>4, <1>5, <1>6, <1>7, <1>8

\* A job that ends leaves its thread with nothing.
LEMMA InOrderDone ==
  ASSUME TypeInv, NEW t \in Threads, Done(t)
  PROVE  InOrder(t)'
<1>1. pc'[t] \in {"read", "idle"} /\ taken'[t] = <<>> /\ <<>> \in Seq(Ready')
  BY EmptySeq DEF Done, Goto, TypeInv, ThreadTypes, ListTypes
<1>2. QED
  BY <1>1 DEF InOrder, BasePcs, DropPcs

\* Every step keeps the threads in order.
LEMMA InOrderNext ==
  ASSUME TypeInv, OrderInv, Next
  PROVE  \A u \in Threads : InOrder(u)'
<1>1. Frame /\ OrderFrame
  BY StepFrame
<1>2. \A u \in Threads : InOrder(u)
  BY DEF OrderInv
<1>3. CASE MainStep
  BY <1>1, <1>2, <1>3, InOrderMain, MainLocal, InOrderOthers DEF Threads
<1>4. ASSUME NEW w \in Workers, StartJob(w)
      PROVE  \A u \in Threads : InOrder(u)'
  BY <1>1, <1>2, <1>4, InOrderStart, StartLocal, InOrderOthers DEF Threads
<1>5. ASSUME NEW t \in Threads, JobStep(t)
      PROVE  \A u \in Threads : InOrder(u)'
  <2>1. RefetchMiss(t) \/ RebuildFails(t) \/ SubmitRebuilds(t) => InOrder(t)'
    BY InOrderDone DEF RefetchMiss, RebuildFails, SubmitRebuilds
  <2>2. InOrder(t)'
    BY <1>1, <1>5, <2>1, InOrderTake, InOrderEmit, InOrderLookup, InOrderPass DEF JobStep
  <2>3. QED
    BY <1>1, <1>2, <1>5, <2>2, JobLocal, InOrderOthers
<1>6. CASE UNCHANGED vars
  <2>1. ASSUME NEW u \in Threads
        PROVE  InOrder(u)'
    <3>1. Seq(Ready) \subseteq Seq(Ready')
      BY <1>1, SeqMonotonic DEF OrderFrame
    <3>2. QED
      BY <1>1, <1>2, <1>6, <3>1 DEF vars, OrderFrame, InOrder
  <2>2. QED
    BY <2>1
<1>7. QED
  BY <1>3, <1>4, <1>5, <1>6 DEF Next, Spin, Returned

\* OrderInv is inductive, given the types.
LEMMA OrderInvNext ==
  ASSUME TypeInv, OrderInv, [Next]_vars
  PROVE  OrderInv'
<1>1. CASE Next
  BY <1>1, OutReadyNext, CachesReadyNext, ListsReadyNext, InOrderNext DEF OrderInv
<1>2. CASE UNCHANGED vars
  <2>1. Frame
    BY <1>2, FrameNext DEF vars
  <2>2. Out' = Out
    BY <1>2, <2>1 DEF vars, Frame, Out
  <2>3. OrderFrame
    BY <1>2, <2>2, OrderFrameNext DEF vars
  <2>4. Ready' = Ready
    BY <2>1, <2>2, <2>3 DEF Frame, OrderFrame, Ready
  <2>5. ReadyJobs' = ReadyJobs
    BY <2>1, <2>4 DEF Frame, ReadyJobs
  <2>6. OutReady' /\ CachesReady' /\ ListsReady'
    BY <1>2, <2>2, <2>3, <2>4, <2>5
    DEF vars, OrderFrame, OrderInv, OutReady, CachesReady, ListsReady
  <2>7. \A t \in Threads : InOrder(t)'
    BY <1>2, <2>2, <2>3, <2>4 DEF vars, OrderFrame, OrderInv, InOrder
  <2>8. QED
    BY <2>6, <2>7 DEF OrderInv
<1>3. QED
  BY <1>1, <1>2

\* A delta is handed to the callback only after an object that is its base by
\* offset or by name was, for every pack, any number of workers and every mode
\* of decode_inner.
THEOREM DeltaAfterBase == Spec => []BaseBeforeDelta
<1>1. Init => OrderInv
  <2> SUFFICES ASSUME Init PROVE OrderInv
    OBVIOUS
  <2>1. Out = {}
    <3>1. InPack \subseteq Objects
      BY TypeInvInit, PackFacts DEF TypeInv, ScalarTypes
    <3>2. \A o \in Objects : emitted[o] = 0
      BY DEF Init
    <3>3. QED
      BY <3>1, <3>2 DEF Out
  <2>2. \A t \in Threads : pc[t] \in {"header", "idle"} /\ taken[t] = <<>>
    BY DEF Init
  <2>3. \A t \in Threads : InOrder(t)
    BY <2>2, EmptySeq DEF InOrder, BasePcs, DropPcs
  <2>4. ListsReady
    BY EmptySeq DEF Init, ListsReady
  <2>5. QED
    BY <2>1, <2>3, <2>4 DEF Init, OrderInv, OutReady, CachesReady
<1>2. TypeInv /\ OrderInv /\ [Next]_vars => OrderInv'
  BY OrderInvNext
<1>3. TypeInv /\ OrderInv => BaseBeforeDelta
  <2> SUFFICES ASSUME TypeInv, OrderInv, NEW d \in InPack, IsDelta(d), emitted[d] > 0
               PROVE  \E b \in Matches(d) : emitted[b] > 0
    BY DEF BaseBeforeDelta
  <2>1. d \in Ready
    BY DEF OrderInv, OutReady, Out, Deltas
  <2>2. QED
    BY <2>1 DEF Ready, Served, Under, Out, Matches
<1>4. QED
  BY <1>1, <1>2, <1>3, TypeInvariant, PTL DEF Spec
=============================================================================
