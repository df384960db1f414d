-------------------------- MODULE PackDecodeProofs --------------------------
(***************************************************************************)
(* Proofs about PackDecode for every pack, every number of workers and     *)
(* every mode.                                                             *)
(***************************************************************************)
EXTENDS PackDecode, SequenceTheorems, FiniteSetTheorems, TLAPS

Deltas == {o \in InPack : IsDelta(o)}
PackKeys == {OffsetKey(o) : o \in InPack} \union {HashKey(o) : o \in InPack}
PackJobs ==
  {j \in Jobs : /\ j.obj \in InPack
                /\ j.op # "cache" => IsDelta(j.obj)
                /\ j.op = "rebuild" => j.base \in InPack}

IdlePcs == {"idle", "header", "read", "join", "abort", "returned"}
MainPcs == {"header", "read", "dispatch", "join", "abort", "returned"}
InlinePcs == {"cache", "insert_lru", "insert_hash", "insert_offset", "take_offset", "take_hash",
              "drop_offset", "drop_hash", "emit", "submit"}
DeltaPcs == {"find", "fetch", "wait", "refind", "refetch", "consume", "unhold", "release",
             "remove_lru", "remove_offset", "remove_hash", "rebuild"}
BasePcs == {"release", "remove_lru", "remove_offset", "remove_hash", "insert_lru", "insert_hash",
            "insert_offset", "take_offset", "take_hash", "drop_offset", "drop_hash", "emit",
            "submit"}

EmptyPcs == IdlePcs \union {"dispatch", "find", "fetch", "wait", "refind", "refetch", "rebuild",
                            "cache", "insert_lru", "insert_hash", "insert_offset", "drop_offset"}

\* The strengthening that makes TypeOK inductive: a thread at work has an entry
\* of the pack in hand, a delta while it handles a dependency, and a base once it
\* is past the lookup; queue, waitlist and caches only mention entries of the pack.
Called == <<pack, opts>> \in Calls

ScalarTypes ==
  /\ pack \in Layout
  /\ next \in 1..(MaxObjects + 1)
  /\ remaining \in [Keys -> Int]
  /\ held \subseteq Keys
  /\ emitted \in [Objects -> Nat]
  /\ skipped \subseteq Objects
  /\ error \in BOOLEAN
  /\ idSent \in BOOLEAN
  /\ result \in Results

ThreadTypes ==
  /\ pc \in [Threads -> Pcs]
  /\ obj \in [Threads -> 0..MaxObjects]
  /\ base \in [Threads -> 0..MaxObjects]
  /\ pc[Main] \in MainPcs \union InlinePcs
  /\ \A w \in Workers : pc[w] \notin MainPcs

ListTypes ==
  /\ queue \in Seq(PackJobs)
  /\ taken \in [Threads -> Seq(Deltas)]
  /\ waitlist \in [Keys -> Seq(Deltas)]

CacheTypes ==
  /\ index \subseteq PackKeys
  /\ stored \in [Names -> SUBSET Objects]
  /\ \A h \in Names : \A b \in stored[h] : b \in InPack /\ pack.hash[b] = h

InHand(t) ==
  /\ pc[t] \notin IdlePcs => obj[t] \in InPack
  /\ pc[t] \in DeltaPcs => IsDelta(obj[t])
  /\ pc[t] \in BasePcs => base[t] \in InPack
  /\ pc[t] \in EmptyPcs => taken[t] = <<>>
  /\ taken[t] # <<>> => base[t] \in InPack
  /\ pc[t] \in {"fetch", "refetch"} => KeyOf(t) \in PackKeys

TypeInv ==
  /\ Called
  /\ ScalarTypes
  /\ ThreadTypes
  /\ ListTypes
  /\ CacheTypes
  /\ \A t \in Threads : InHand(t)

-----------------------------------------------------------------------------
(* Facts about the pack and its keys.                                      *)

\* The header fields of an entry of the pack have their types.
LEMMA PackFacts ==
  ASSUME pack \in Layout
  PROVE  /\ MaxObjects \in Nat
         /\ pack.n \in 0..MaxObjects
         /\ InPack \subseteq Objects
         /\ pack.kind \in [Objects -> Kinds]
         /\ pack.base \in [Objects -> 0..MaxObjects]
         /\ pack.hash \in [Objects -> Names]
BY ConstantsAssumption DEF Layout, InPack, Objects

\* An entry's own keys, and the key of the base a delta names, are keys.
LEMMA KeyFacts ==
  ASSUME pack \in Layout
  PROVE  /\ PackKeys \subseteq Keys
         /\ \A o \in InPack : OffsetKey(o) \in PackKeys /\ HashKey(o) \in PackKeys
         /\ \A d \in Deltas : DeltaKey(d) \in Keys
         /\ \A k \in PackKeys : NameOf(k) \in Names
<1>1. ASSUME NEW o \in InPack
      PROVE  /\ OffsetKey(o) \in Keys /\ NameOf(OffsetKey(o)) \in Names
             /\ HashKey(o) \in Keys /\ NameOf(HashKey(o)) \in Names
  <2>1. o \in 0..MaxObjects /\ pack.hash[o] \in Names /\ Names \subseteq 0..MaxObjects
    BY PackFacts DEF InPack, Objects, Names
  <2>2. QED
    BY <2>1 DEF OffsetKey, HashKey, Keys, NameOf
<1>2. \A d \in Deltas : DeltaKey(d) \in Keys
  BY PackFacts DEF DeltaKey, Keys, Deltas, IsDelta, Kinds
<1>3. QED
  BY <1>1, <1>2 DEF PackKeys

-----------------------------------------------------------------------------
(* Types.                                                                  *)

USE DEF callVars, cacheVars, retentionVars, outVars, threadVars

\* The pack and the options never change, and the sets derived from them neither.
Frame ==
  /\ pack' = pack
  /\ opts' = opts
  /\ InPack' = InPack
  /\ Deltas' = Deltas
  /\ PackKeys' = PackKeys
  /\ PackJobs' = PackJobs
  /\ \A o \in 0..MaxObjects : /\ IsDelta(o)' = IsDelta(o)
                             /\ DeltaKey(o)' = DeltaKey(o)
                             /\ OffsetKey(o)' = OffsetKey(o)
                             /\ HashKey(o)' = HashKey(o)

\* A step of thread t leaves the other threads where they are.
OthersKeep(t) ==
  \A u \in Threads \ {t} : /\ pc'[u] = pc[u]
                           /\ obj'[u] = obj[u]
                           /\ base'[u] = base[u]
                           /\ taken'[u] = taken[u]

\* A step that leaves the call alone leaves everything derived from it alone.
LEMMA FrameNext ==
  ASSUME UNCHANGED callVars
  PROVE  Frame
BY DEF Frame, InPack, Deltas, PackKeys, PackJobs, IsDelta, DeltaKey, OffsetKey, HashKey

\* A step of the reading thread changes no other thread's registers.
LEMMA MainLocal ==
  ASSUME TypeInv, MainStep
  PROVE  UNCHANGED callVars /\ OthersKeep(Main)
BY DEF TypeInv, ThreadTypes, ListTypes, MainStep, OthersKeep, Goto, Done, ReadHeader,
       RejectHeader, ReadFails, SkipEntry, ReadEntry, DropBase, CacheBase, SubmitEntry,
       ReadTrailer, JoinPool, Abort

\* A worker that starts a job changes no other thread's registers.
LEMMA StartLocal ==
  ASSUME TypeInv, NEW w \in Workers, StartJob(w)
  PROVE  UNCHANGED callVars /\ OthersKeep(w)
BY DEF TypeInv, ThreadTypes, ListTypes, StartJob, OthersKeep, Goto, Done

\* Neither does a step of the function a thread is running.
LEMMA JobLocal ==
  ASSUME TypeInv, NEW t \in Threads, JobStep(t)
  PROVE  UNCHANGED callVars /\ OthersKeep(t)
BY DEF TypeInv, ThreadTypes, ListTypes, JobStep, OthersKeep, Goto, Done, FindBase, FetchHit,
       FetchMiss,
       Wait, RefetchHit, RefetchMiss, Consume, Unhold, Release, RemoveBase, RebuildFails, Rebuild,
       CacheKept, CacheDropped, InsertObject, TakeWaiters, TakeFrom, EmitDropped, SubmitRebuilds

\* So what the other threads have in hand stays as it is.
LEMMA InHandOthers ==
  ASSUME TypeInv, NEW t \in Threads, UNCHANGED callVars, OthersKeep(t), InHand(t)'
  PROVE  \A u \in Threads : InHand(u)'
<1>1. Frame
  BY FrameNext
<1>2. ASSUME NEW u \in Threads, u # t
      PROVE  InHand(u)'
  <2>1. InHand(u) /\ obj[u] \in 0..MaxObjects
    BY DEF TypeInv, ThreadTypes
  <2>2. /\ pc'[u] = pc[u] /\ obj'[u] = obj[u]
        /\ base'[u] = base[u] /\ taken'[u] = taken[u]
    BY <1>2 DEF OthersKeep
  <2>3. QED
    BY <1>1, <2>1, <2>2 DEF Frame, InHand, KeyOf
<1>3. QED
  BY <1>2

\* Every step keeps the types of the counters, flags and the verdict.
LEMMA ScalarNext ==
  ASSUME TypeInv, Next
  PROVE  ScalarTypes'
<1> USE DEF TypeInv, ScalarTypes
<1>1. CASE MainStep
  <2>1. pack.n \in 0..MaxObjects /\ MaxObjects \in Nat
    BY PackFacts
  <2>2. ASSUME obj[Main] \in InPack PROVE obj[Main] \in Objects
    BY <2>2, PackFacts
  <2>3. pc[Main] = "dispatch" => obj[Main] \in InPack
    BY DEF InHand, IdlePcs, Threads
  <2>4. CASE JoinPool
    <3>1. idSent' \in BOOLEAN
      BY <2>4, Zenon DEF JoinPool
    <3>2. QED
      BY <2>4, <3>1 DEF JoinPool, Results
  <2>5. CASE SkipEntry \/ ReadEntry
    <3>1. next' \in 1..(MaxObjects + 1) /\ next \in Objects
      BY <2>1, <2>5 DEF SkipEntry, ReadEntry, MayRead, Objects
    <3>2. skipped' \subseteq Objects
      BY <2>5, <3>1 DEF SkipEntry, ReadEntry
    <3>3. UNCHANGED <<callVars, remaining, held, emitted, error, idSent, result>>
      BY <2>5 DEF SkipEntry, ReadEntry
    <3>4. QED
      BY <3>1, <3>2, <3>3
  <2>6. CASE DropBase
    BY <2>2, <2>3, <2>6 DEF DropBase
  <2>7. CASE Abort \/ RejectHeader
    BY <2>7 DEF Abort, RejectHeader, Results
  <2>8. CASE UNCHANGED <<callVars, next, remaining, held, emitted, skipped, error, idSent, result>>
    BY <2>8
  <2>9. QED
    BY <1>1, <2>4, <2>5, <2>6, <2>7, <2>8
    DEF MainStep, ReadHeader, ReadFails, CacheBase, SubmitEntry, ReadTrailer
<1>2. ASSUME NEW w \in Workers, StartJob(w)
      PROVE  ScalarTypes'
  BY <1>2 DEF StartJob
<1>3. ASSUME NEW t \in Threads, JobStep(t)
      PROVE  ScalarTypes'
  <2>1. CASE Consume(t) \/ Unhold(t)
    BY <2>1 DEF Consume, Unhold
  <2>2. CASE CacheKept(t) \/ EmitDropped(t)
    BY <2>2 DEF CacheKept, EmitDropped, EmitObject
  <2>3. CASE RebuildFails(t)
    BY <2>3 DEF RebuildFails
  <2>4. CASE UNCHANGED <<callVars, next, remaining, held, emitted, skipped, error, idSent, result>>
    BY <2>4
  <2>5. QED
    BY <1>3, <2>1, <2>2, <2>3, <2>4
    DEF JobStep, FindBase, FetchHit, FetchMiss, Wait, RefetchHit, RefetchMiss, Release, RemoveBase,
        Rebuild, CacheDropped, InsertObject, TakeWaiters, SubmitRebuilds
<1>4. CASE UNCHANGED vars
  BY <1>4 DEF vars
<1>5. QED
  BY <1>1, <1>2, <1>3, <1>4 DEF Next, Spin, Returned

\* Every step keeps the job queue, the lists of taken deltas and the waitlist
\* made of entries of the pack, deltas where the code expects deltas.
LEMMA ListNext ==
  ASSUME TypeInv, Next
  PROVE  ListTypes'
<1> USE DEF TypeInv, ListTypes
<1>0. <<>> \in Seq(Deltas)
  BY EmptySeq
<1>1. CASE MainStep
  <2>1. Frame
    BY <1>1, MainLocal, FrameNext
  <2>2. CASE SubmitEntry
    <3>1. obj[Main] \in InPack /\ obj[Main] \in Objects
      BY <2>2, PackFacts DEF SubmitEntry, InHand, IdlePcs, Threads, ScalarTypes
    <3> DEFINE job == Job(IF IsDelta(obj[Main]) THEN "dependency" ELSE "cache", obj[Main], NoObject)
    <3>2. job \in PackJobs
      BY <3>1, ConstantsAssumption DEF Job, PackJobs, Jobs, NoObject
    <3>3. queue' = Append(queue, job)
      BY <2>2 DEF SubmitEntry
    <3> HIDE DEF job
    <3>4. queue' \in Seq(PackJobs)
      BY <3>2, <3>3, AppendProperties
    <3>5. QED
      BY <1>0, <2>1, <2>2, <3>4 DEF Frame, SubmitEntry, Done
  <2>3. CASE DropBase
    BY <1>0, <2>1, <2>3 DEF Frame, DropBase, Done
  <2>4. CASE UNCHANGED <<queue, taken, waitlist>>
    BY <2>1, <2>4 DEF Frame
  <2>5. QED
    BY <1>1, <2>2, <2>3, <2>4
    DEF MainStep, ReadHeader, RejectHeader, ReadFails, SkipEntry, ReadEntry, CacheBase,
        ReadTrailer, JoinPool, Abort
<1>2. ASSUME NEW w \in Workers, StartJob(w)
      PROVE  ListTypes'
  <2>1. Frame
    BY <1>2, StartLocal, FrameNext
  <2>2. QED
    BY <1>2, <2>1 DEF Frame, StartJob
<1>3. ASSUME NEW t \in Threads, JobStep(t)
      PROVE  ListTypes'
  <2>1. Frame
    BY <1>3, JobLocal, FrameNext
  <2>2. CASE FetchHit(t)
    <3>1. obj[t] \in Deltas
      BY <2>2 DEF FetchHit, InHand, DeltaPcs, IdlePcs, Deltas
    <3>2. <<obj[t]>> \in Seq(Deltas)
      BY <3>1
    <3>3. QED
      BY <2>1, <2>2, <3>2 DEF Frame, FetchHit
  <2>3. CASE Wait(t)
    <3>1. obj[t] \in Deltas
      BY <2>3 DEF Wait, InHand, DeltaPcs, IdlePcs, Deltas
    <3>2. KeyOf(t) \in Keys
      BY <3>1, KeyFacts DEF KeyOf, ScalarTypes
    <3> DEFINE list == Append(waitlist[KeyOf(t)], obj[t])
    <3>3. list \in Seq(Deltas)
      BY <3>1, <3>2, AppendProperties
    <3>4. waitlist' = [waitlist EXCEPT ![KeyOf(t)] = list]
      BY <2>3 DEF Wait
    <3> HIDE DEF list
    <3>5. waitlist' \in [Keys -> Seq(Deltas)]
      BY <3>3, <3>4
    <3>6. QED
      BY <2>1, <2>3, <3>5 DEF Frame, Wait
  <2>4. CASE TakeWaiters(t)
    <3>1. base[t] \in InPack
      BY <2>4 DEF TakeWaiters, InHand, BasePcs
    <3>2. OffsetKey(base[t]) \in Keys /\ HashKey(base[t]) \in Keys
      BY <3>1, KeyFacts DEF ScalarTypes
    <3>3. PICK k \in Keys, p \in Pcs : TakeFrom(t, k, p)
      BY <2>4, <3>2 DEF TakeWaiters, Pcs
    <3>4. taken[t] \o waitlist[k] \in Seq(Deltas)
      BY ConcatProperties
    <3>5. taken' \in [Threads -> Seq(Deltas)]
      BY <3>3, <3>4 DEF TakeFrom
    <3>6. waitlist' \in [Keys -> Seq(Deltas)]
      BY <1>0, <3>3 DEF TakeFrom
    <3>7. QED
      BY <2>1, <2>4, <3>5, <3>6 DEF Frame, TakeWaiters
  <2>5. CASE SubmitRebuilds(t)
    <3>1. base[t] \in InPack /\ InPack \subseteq Objects /\ Objects \subseteq 0..MaxObjects
      BY <2>5, PackFacts DEF SubmitRebuilds, InHand, BasePcs, ScalarTypes, Objects
    <3>2. ASSUME NEW i \in 1..Len(taken[t])
          PROVE  Job("rebuild", taken[t][i], base[t]) \in PackJobs
      <4>1. taken[t][i] \in Deltas
        OBVIOUS
      <4>2. QED
        BY <3>1, <4>1 DEF Deltas, Job, PackJobs, Jobs
    <3>3. [i \in 1..Len(taken[t]) |-> Job("rebuild", taken[t][i], base[t])] \in Seq(PackJobs)
      BY <3>2
    <3>4. QED
      BY <1>0, <2>1, <2>5, <3>3 DEF Frame, SubmitRebuilds, Done
  <2>6. CASE RefetchMiss(t) \/ RebuildFails(t) \/ FindBase(t)
    BY <1>0, <2>1, <2>6 DEF Frame, RefetchMiss, RebuildFails, FindBase, Done
  <2>7. CASE UNCHANGED <<queue, taken, waitlist>>
    BY <2>1, <2>7 DEF Frame
  <2>8. QED
    BY <1>3, <2>2, <2>3, <2>4, <2>5, <2>6, <2>7
    DEF JobStep, FetchMiss, RefetchHit, Consume, Unhold, Release, RemoveBase, Rebuild, CacheKept,
        CacheDropped, InsertObject, EmitDropped
<1>4. CASE UNCHANGED vars
  BY <1>4, FrameNext DEF vars, Frame
<1>5. QED
  BY <1>1, <1>2, <1>3, <1>4 DEF Next, Spin, Returned

\* Every step keeps the caches consistent: an object is stored under its name.
LEMMA CacheNext ==
  ASSUME TypeInv, Next
  PROVE  CacheTypes'
<1> USE DEF TypeInv, CacheTypes
<1>0. pack \in Layout
  BY DEF ScalarTypes
<1>1. CASE MainStep
  <2>1. Frame
    BY <1>1, MainLocal, FrameNext
  <2>2. CASE JoinPool \/ Abort
    BY <2>1, <2>2 DEF Frame, JoinPool, Abort, ClearCaches
  <2>3. CASE UNCHANGED <<index, stored>>
    BY <2>1, <2>3 DEF Frame
  <2>4. QED
    BY <1>1, <2>2, <2>3
    DEF MainStep, ReadHeader, RejectHeader, ReadFails, SkipEntry, ReadEntry, DropBase, CacheBase,
        SubmitEntry, ReadTrailer
<1>2. ASSUME NEW w \in Workers, StartJob(w)
      PROVE  CacheTypes'
  <2>1. Frame
    BY <1>2, StartLocal, FrameNext
  <2>2. QED
    BY <1>2, <2>1 DEF Frame, StartJob
<1>3. ASSUME NEW t \in Threads, JobStep(t)
      PROVE  CacheTypes'
  <2>1. Frame
    BY <1>3, JobLocal, FrameNext
  <2>2. CASE InsertObject(t)
    <3>1. obj[t] \in InPack /\ obj[t] \in Objects
      BY <1>0, <2>2, PackFacts DEF InsertObject, InHand, IdlePcs
    <3>2. /\ OffsetKey(obj[t]) \in PackKeys
          /\ HashKey(obj[t]) \in PackKeys
          /\ pack.hash[obj[t]] \in Names
      BY <1>0, <3>1, KeyFacts, PackFacts
    <3>3. index' \subseteq PackKeys
      BY <2>2, <3>2 DEF InsertObject
    <3>4. stored' \in [Names -> SUBSET Objects]
      BY <2>2, <3>1, <3>2 DEF InsertObject
    <3>5. \A h \in Names : \A b \in stored'[h] : b \in InPack /\ pack.hash[b] = h
      BY <2>2, <3>1, <3>2 DEF InsertObject
    <3>6. QED
      BY <2>1, <3>3, <3>4, <3>5 DEF Frame
  <2>3. CASE RemoveBase(t)
    BY <2>1, <2>3 DEF Frame, RemoveBase
  <2>4. CASE UNCHANGED <<index, stored>>
    BY <2>1, <2>4 DEF Frame
  <2>5. QED
    BY <1>3, <2>2, <2>3, <2>4
    DEF JobStep, FindBase, FetchHit, FetchMiss, Wait, RefetchHit, RefetchMiss, Consume, Unhold,
        Release, RebuildFails, Rebuild, CacheKept, CacheDropped, TakeWaiters, EmitDropped,
        SubmitRebuilds
<1>4. CASE UNCHANGED vars
  BY <1>4, FrameNext DEF vars, Frame
<1>5. QED
  BY <1>1, <1>2, <1>3, <1>4 DEF Next, Spin, Returned

\* A thread that is done waits for its next job, or for its next entry.
LEMMA DoneTypes ==
  ASSUME ThreadTypes, NEW t \in Threads, Done(t)
  PROVE  ThreadTypes'
<1>0. Main \in Threads /\ Main \notin Workers
  BY ConstantsAssumption DEF Threads
<1>1. obj' \in [Threads -> 0..MaxObjects] /\ base' \in [Threads -> 0..MaxObjects]
  BY ConstantsAssumption DEF ThreadTypes, Done, NoObject
<1>2. pc' = [pc EXCEPT ![t] = IF t = Main THEN "read" ELSE "idle"] /\ pc \in [Threads -> Pcs]
  BY DEF ThreadTypes, Done, Goto
<1>3. pc' \in [Threads -> Pcs]
  BY <1>2 DEF Pcs
<1>4. pc'[Main] \in MainPcs \union InlinePcs
  BY <1>0, <1>2 DEF ThreadTypes, MainPcs
<1>5. ASSUME NEW w \in Workers
      PROVE  pc'[w] \notin MainPcs
  BY <1>0, <1>2, <1>5 DEF ThreadTypes, Threads, MainPcs
<1>6. QED
  BY <1>1, <1>3, <1>4, <1>5 DEF ThreadTypes

\* Every step keeps the threads where they can be: the reading thread in its
\* loop or caching a base, a worker in a job.
LEMMA ThreadNext ==
  ASSUME TypeInv, Next
  PROVE  ThreadTypes'
<1> USE DEF TypeInv, ThreadTypes
<1>0. Main \in Threads /\ MaxObjects \in Nat /\ Main \notin Workers
  BY ConstantsAssumption DEF Threads
<1>1. CASE MainStep
  <2>1. next <= pack.n => next \in 0..MaxObjects
    BY PackFacts DEF ScalarTypes
  <2>2. CASE ReadEntry
    BY <1>0, <2>1, <2>2 DEF ReadEntry, MayRead, Goto, Pcs, MainPcs
  <2>3. CASE DropBase \/ SubmitEntry
    <3>1. Done(Main)
      BY <2>3 DEF DropBase, SubmitEntry
    <3>2. QED
      BY <1>0, <3>1 DEF Goto, Done, NoObject, Pcs, MainPcs
  <2>4. CASE \/ ReadHeader \/ RejectHeader \/ ReadFails \/ CacheBase \/ ReadTrailer
             \/ JoinPool \/ Abort
    <3>1. PICK p \in {"read", "abort", "cache", "join", "returned"} : Goto(Main, p)
      BY <2>4 DEF ReadHeader, RejectHeader, ReadFails, CacheBase, ReadTrailer, JoinPool, Abort
    <3>2. UNCHANGED <<obj, base>>
      BY <2>4 DEF ReadHeader, RejectHeader, ReadFails, CacheBase, ReadTrailer, JoinPool, Abort
    <3>3. QED
      BY <1>0, <3>1, <3>2 DEF Goto, Pcs, MainPcs, InlinePcs
  <2>5. QED
    BY <1>1, <2>2, <2>3, <2>4 DEF MainStep, SkipEntry
<1>2. ASSUME NEW w \in Workers, StartJob(w)
      PROVE  ThreadTypes'
  <2>1. Head(queue) \in PackJobs
    BY <1>2, HeadTailProperties DEF StartJob, ListTypes
  <2>2. /\ Head(queue).op \in {"dependency", "cache", "rebuild"}
        /\ Head(queue).obj \in 0..MaxObjects
        /\ Head(queue).base \in 0..MaxObjects
    BY <1>0, <2>1 DEF PackJobs, Jobs, Objects
  <2>3. PICK p \in {"find", "cache", "rebuild"} : Goto(w, p)
    BY <1>2, <2>2 DEF StartJob
  <2>4. /\ obj' = [obj EXCEPT ![w] = Head(queue).obj]
        /\ base' = [base EXCEPT ![w] = Head(queue).base]
    BY <1>2 DEF StartJob
  <2>5. QED
    BY <1>0, <2>2, <2>3, <2>4 DEF Goto, Pcs, MainPcs, Threads
<1>3. ASSUME NEW t \in Threads, JobStep(t)
      PROVE  ThreadTypes'
  <2>0. pc[t] \in {"fetch", "refetch"} => \A b \in stored[NameOf(KeyOf(t))] : b \in 0..MaxObjects
    <3>1. pc[t] \in {"fetch", "refetch"} => NameOf(KeyOf(t)) \in Names
      <4>1. pc[t] \in {"fetch", "refetch"} => KeyOf(t) \in PackKeys
        BY DEF InHand
      <4>2. QED
        BY <4>1, KeyFacts DEF ScalarTypes
    <3>2. \A h \in Names : \A b \in stored[h] : b \in 0..MaxObjects
      BY <1>0 DEF CacheTypes, Objects
    <3>3. QED
      BY <3>1, <3>2
  <2>1. CASE FindBase(t)
    <3>1. CASE Done(t)
      BY <3>1, DoneTypes
    <3>2. CASE UNCHANGED <<obj, base>> /\ \E p \in {"fetch", "wait", "refetch"} : Goto(t, p)
      BY <1>0, <2>1, <3>2 DEF FindBase, Goto, Pcs, MainPcs, InlinePcs, Threads
    <3>3. QED
      BY <2>1, <3>1, <3>2 DEF FindBase
  <2>2. CASE FetchHit(t)
    BY <1>0, <2>0, <2>2 DEF FetchHit, Goto, Pcs, MainPcs, InlinePcs, Threads
  <2>3. CASE FetchMiss(t)
    BY <1>0, <2>0, <2>3 DEF FetchMiss, Goto, Pcs, MainPcs, InlinePcs, Threads
  <2>4. CASE Wait(t)
    BY <1>0, <2>0, <2>4 DEF Wait, Goto, Pcs, MainPcs, InlinePcs, Threads
  <2>5. CASE RefetchHit(t)
    BY <1>0, <2>0, <2>5 DEF RefetchHit, Goto, Pcs, MainPcs, InlinePcs, Threads
  <2>6. CASE RefetchMiss(t)
    BY <2>6, DoneTypes DEF RefetchMiss
  <2>7. CASE Consume(t)
    BY <1>0, <2>0, <2>7 DEF Consume, Goto, AfterConsume, Pcs, MainPcs, InlinePcs, Threads
  <2>8. CASE Unhold(t)
    BY <1>0, <2>0, <2>8 DEF Unhold, Goto, AfterConsume, Pcs, MainPcs, InlinePcs, Threads
  <2>9. CASE Release(t)
    BY <1>0, <2>0, <2>9 DEF Release, Goto, AfterRelease, Pcs, MainPcs, InlinePcs, Threads
  <2>10. CASE RemoveBase(t)
    BY <1>0, <2>0, <2>10 DEF RemoveBase, Goto, AfterRelease, Pcs, MainPcs, InlinePcs, Threads
  <2>11. CASE RebuildFails(t)
    BY <2>11, DoneTypes DEF RebuildFails
  <2>12. CASE Rebuild(t)
    BY <1>0, <2>0, <2>12 DEF Rebuild, Goto, Pcs, MainPcs, InlinePcs, Threads
  <2>13. CASE CacheKept(t)
    BY <1>0, <2>0, <2>13 DEF CacheKept, Goto, Pcs, MainPcs, InlinePcs, Threads
  <2>14. CASE CacheDropped(t)
    BY <1>0, <2>0, <2>14 DEF CacheDropped, Goto, Pcs, MainPcs, InlinePcs, Threads
  <2>15. CASE InsertObject(t)
    BY <1>0, <2>0, <2>15 DEF InsertObject, Goto, Pcs, MainPcs, InlinePcs, Threads
  <2>16. CASE TakeWaiters(t)
    BY <1>0, <2>0, <2>16 DEF TakeWaiters, TakeFrom, Goto, Pcs, MainPcs, InlinePcs, Threads
  <2>17. CASE EmitDropped(t)
    BY <1>0, <2>0, <2>17 DEF EmitDropped, Goto, Pcs, MainPcs, InlinePcs, Threads
  <2>18. CASE SubmitRebuilds(t)
    BY <2>18, DoneTypes DEF SubmitRebuilds
  <2>19. QED
    BY <1>3, <2>1, <2>2, <2>3, <2>4, <2>5, <2>6, <2>7, <2>8, <2>9, <2>10, <2>11, <2>12, <2>13,
    <2>14, <2>15, <2>16, <2>17, <2>18 DEF JobStep
<1>4. CASE UNCHANGED vars
  BY <1>4 DEF vars
<1>5. QED
  BY <1>1, <1>2, <1>3, <1>4 DEF Next, Spin, Returned

\* Every step leaves each thread with the entry and the base its place needs.
LEMMA InHandNext ==
  ASSUME TypeInv, Next
  PROVE  \A t \in Threads : InHand(t)'
<1> USE DEF TypeInv
<1>0. Main \in Threads /\ pack \in Layout
  BY DEF Threads, ScalarTypes
<1>1. CASE MainStep
  <2>1. Frame /\ OthersKeep(Main)
    BY <1>1, MainLocal, FrameNext
  <2>2. SUFFICES InHand(Main)'
    BY <1>0, <2>1, InHandOthers DEF Frame
  <2>3. InHand(Main)
    BY <1>0
  <2>4. CASE ReadEntry
    <3>1. next \in InPack
      BY <2>4, PackFacts DEF ReadEntry, MayRead, InPack, ScalarTypes
    <3>2. pc'[Main] = "dispatch" /\ obj'[Main] = next /\ taken'[Main] = <<>>
      BY <1>0, <2>3, <2>4
      DEF ReadEntry, MayRead, Goto, InHand, IdlePcs, EmptyPcs, ThreadTypes
    <3>3. QED
      BY <2>1, <3>1, <3>2 DEF InHand, Frame, DeltaPcs, BasePcs
  <2>5. CASE DropBase \/ SubmitEntry
    <3>1. Done(Main)
      BY <2>5 DEF DropBase, SubmitEntry
    <3>2. pc'[Main] = "read" /\ taken'[Main] = <<>>
      BY <1>0, <3>1 DEF Done, Goto, ThreadTypes, ListTypes
    <3>3. QED
      BY <3>2 DEF InHand, IdlePcs, DeltaPcs, BasePcs
  <2>6. CASE CacheBase
    BY <1>0, <2>1, <2>3, <2>6
    DEF CacheBase, Goto, InHand, Frame, IdlePcs, DeltaPcs, BasePcs, EmptyPcs, ThreadTypes
  <2>7. CASE ReadHeader \/ RejectHeader \/ ReadFails \/ ReadTrailer \/ JoinPool \/ Abort
    <3>1. PICK p \in {"read", "abort", "join", "returned"} : Goto(Main, p)
      BY <2>7 DEF ReadHeader, RejectHeader, ReadFails, ReadTrailer, JoinPool, Abort
    <3>2. taken'[Main] = <<>>
      BY <2>3, <2>7 DEF ReadHeader, RejectHeader, ReadFails, ReadTrailer, JoinPool, Abort,
                        MayRead, InHand, EmptyPcs, IdlePcs
    <3>3. pc'[Main] \in {"read", "abort", "join", "returned"}
      BY <1>0, <3>1 DEF Goto, ThreadTypes
    <3>4. QED
      BY <3>2, <3>3 DEF InHand, IdlePcs, DeltaPcs, BasePcs
  <2>8. CASE SkipEntry
    BY <2>1, <2>3, <2>8 DEF SkipEntry, Frame, InHand, IdlePcs, DeltaPcs, BasePcs, MayRead
  <2>9. QED
    BY <1>1, <2>4, <2>5, <2>6, <2>7, <2>8 DEF MainStep
<1>2. ASSUME NEW w \in Workers, StartJob(w)
      PROVE  \A t \in Threads : InHand(t)'
  <2>1. Frame /\ OthersKeep(w)
    BY <1>2, StartLocal, FrameNext
  <2>2. SUFFICES InHand(w)'
    BY <2>1, InHandOthers DEF Frame, Threads
  <2>3. Head(queue) \in PackJobs
    BY <1>2, HeadTailProperties DEF StartJob, ListTypes
  <2>4. /\ Head(queue).op \in {"dependency", "cache", "rebuild"}
        /\ Head(queue).obj \in InPack
        /\ Head(queue).obj \in 0..MaxObjects
        /\ Head(queue).op # "cache" => IsDelta(Head(queue).obj)
        /\ Head(queue).op = "rebuild" => Head(queue).base \in InPack
    BY <2>3, ConstantsAssumption DEF PackJobs, Jobs, Objects
  <2>5. /\ obj'[w] = Head(queue).obj /\ base'[w] = Head(queue).base
        /\ pc'[w] = CASE Head(queue).op = "dependency" -> "find"
                      [] Head(queue).op = "cache" -> "cache"
                      [] Head(queue).op = "rebuild" -> "rebuild"
    BY <1>2 DEF StartJob, Goto, ThreadTypes, Threads
  <2>6. taken'[w] = <<>>
    BY <1>2 DEF StartJob, InHand, EmptyPcs, IdlePcs, Threads
  <2>7. CASE Head(queue).op = "rebuild"
    BY <2>1, <2>4, <2>5, <2>6, <2>7 DEF InHand, Frame, IdlePcs, DeltaPcs, BasePcs
  <2>8. CASE Head(queue).op = "dependency"
    BY <2>1, <2>4, <2>5, <2>6, <2>8 DEF InHand, Frame, IdlePcs, DeltaPcs, BasePcs
  <2>9. CASE Head(queue).op = "cache"
    BY <2>1, <2>4, <2>5, <2>6, <2>9 DEF InHand, Frame, IdlePcs, DeltaPcs, BasePcs
  <2>10. QED
    BY <2>4, <2>7, <2>8, <2>9
<1>3. ASSUME NEW t \in Threads, JobStep(t)
      PROVE  \A u \in Threads : InHand(u)'
  <2>1. Frame /\ OthersKeep(t)
    BY <1>3, JobLocal, FrameNext
  <2>2. SUFFICES InHand(t)'
    BY <2>1, InHandOthers DEF Frame
  <2>3. InHand(t) /\ obj[t] \in 0..MaxObjects
    BY DEF ThreadTypes
  <2>4. pc[t] \in {"fetch", "refetch"} => \A b \in stored[NameOf(KeyOf(t))] : b \in InPack
    BY <1>0, <2>3, KeyFacts DEF InHand, CacheTypes
  <2> USE DEF InHand, Frame, IdlePcs, DeltaPcs, BasePcs, EmptyPcs, ThreadTypes, ListTypes, KeyOf
  <2>5. CASE FindBase(t)
    <3>1. KeyOf(t) \in index => KeyOf(t) \in PackKeys
      BY DEF CacheTypes
    <3>2. CASE Done(t)
      BY <2>3, <3>2 DEF Goto, Done
    <3>3. CASE ~Done(t)
      BY <2>1, <2>3, <2>5, <3>1, <3>3 DEF FindBase, Goto
    <3>4. QED
      BY <3>2, <3>3
  <2>6. CASE FetchHit(t)
    BY <2>1, <2>3, <2>4, <2>6 DEF FetchHit, Goto
  <2>7. CASE FetchMiss(t)
    BY <2>1, <2>3, <2>4, <2>7 DEF FetchMiss, Goto
  <2>8. CASE Wait(t)
    BY <2>1, <2>3, <2>4, <2>8 DEF Wait, Goto
  <2>9. CASE RefetchHit(t)
    BY <2>1, <2>3, <2>4, <2>9 DEF RefetchHit, Goto
  <2>10. CASE RefetchMiss(t)
    BY <2>1, <2>3, <2>4, <2>10 DEF RefetchMiss, Goto, Done
  <2>11. CASE Consume(t)
    BY <2>1, <2>3, <2>4, <2>11 DEF Consume, Goto, AfterConsume
  <2>12. CASE Unhold(t)
    BY <2>1, <2>3, <2>4, <2>12 DEF Unhold, Goto, AfterConsume
  <2>13. CASE Release(t)
    BY <2>1, <2>3, <2>4, <2>13 DEF Release, Goto, AfterRelease
  <2>14. CASE RemoveBase(t)
    BY <2>1, <2>3, <2>4, <2>14 DEF RemoveBase, Goto, AfterRelease
  <2>15. CASE RebuildFails(t)
    BY <2>1, <2>3, <2>4, <2>15 DEF RebuildFails, Goto, Done
  <2>16. CASE Rebuild(t)
    BY <2>1, <2>3, <2>4, <2>16 DEF Rebuild, Goto
  <2>17. CASE CacheKept(t)
    BY <2>1, <2>3, <2>4, <2>17 DEF CacheKept, Goto
  <2>18. CASE CacheDropped(t)
    BY <2>1, <2>3, <2>4, <2>18 DEF CacheDropped, Goto
  <2>19. CASE InsertObject(t)
    BY <2>1, <2>3, <2>4, <2>19 DEF InsertObject, Goto
  <2>20. CASE TakeWaiters(t)
    BY <2>1, <2>3, <2>4, <2>20 DEF TakeWaiters, TakeFrom, Goto
  <2>21. CASE EmitDropped(t)
    BY <2>1, <2>3, <2>4, <2>21 DEF EmitDropped, Goto
  <2>22. CASE SubmitRebuilds(t)
    BY <2>1, <2>3, <2>4, <2>22 DEF SubmitRebuilds, Goto, Done
  <2>23. QED
    BY <1>3, <2>5, <2>6, <2>7, <2>8, <2>9, <2>10, <2>11, <2>12, <2>13, <2>14, <2>15, <2>16,
    <2>17, <2>18, <2>19, <2>20, <2>21, <2>22 DEF JobStep
<1>4. CASE UNCHANGED vars
  <2>1. Frame
    BY <1>4, FrameNext DEF vars
  <2>2. ASSUME NEW t \in Threads
        PROVE  InHand(t)'
    BY <1>4, <2>1 DEF vars, Frame, InHand, KeyOf, ThreadTypes
  <2>3. QED
    BY <2>2
<1>5. QED
  BY <1>1, <1>2, <1>3, <1>4 DEF Next, Spin, Returned

\* decode_inner starts with empty maps and idle workers.
LEMMA TypeInvInit ==
  ASSUME Init
  PROVE  TypeInv
<1>1. pack \in Layout /\ MaxObjects \in Nat
  BY ConstantsAssumption DEF Init
<1>0. Called
  BY ConstantsAssumption DEF Init, Called
<1>2. ScalarTypes
  <2>1. ASSUME NEW k \in Keys
        PROVE  Cardinality(Dependents(pack, k)) \in Nat
    <3>1. IsFiniteSet(1..pack.n)
      BY <1>1, PackFacts, FS_Interval
    <3>2. QED
      BY <3>1, FS_Subset, FS_CardinalityType DEF Dependents
  <2>2. remaining \in [Keys -> Int] /\ held \subseteq Keys
    BY <2>1 DEF Init, ScanRetention
  <2>3. error \in BOOLEAN /\ idSent \in BOOLEAN
    BY Zenon DEF Init
  <2>4. QED
    BY <1>1, <2>2, <2>3 DEF Init, ScalarTypes, Results
<1>3. ThreadTypes
  BY <1>1, ConstantsAssumption DEF Init, ThreadTypes, NoObject, Pcs, MainPcs, Threads
<1>4. ListTypes
  BY EmptySeq DEF Init, ListTypes
<1>5. CacheTypes
  BY DEF Init, CacheTypes
<1>6. ASSUME NEW t \in Threads
      PROVE  InHand(t)
  BY DEF Init, InHand, IdlePcs, DeltaPcs, BasePcs
<1>7. QED
  BY <1>0, <1>2, <1>3, <1>4, <1>5, <1>6 DEF TypeInv

\* TypeInv is inductive.
LEMMA TypeInvNext ==
  ASSUME TypeInv, [Next]_vars
  PROVE  TypeInv'
<1>1. CASE Next
  <2>1. Frame
    BY <1>1, FrameNext, MainLocal, StartLocal, JobLocal DEF Next, Spin, Returned, vars
  <2>2. Called'
    BY <2>1 DEF Frame, Called, TypeInv
  <2>3. QED
    BY <1>1, <2>2, ScalarNext, ThreadNext, ListNext, CacheNext, InHandNext DEF TypeInv
<1>2. CASE UNCHANGED vars
  <2>1. Frame
    BY <1>2, FrameNext DEF vars
  <2>2. QED
    BY <1>2, <2>1
    DEF vars, Frame, TypeInv, Called, ScalarTypes, ThreadTypes, ListTypes, CacheTypes, InHand, KeyOf
<1>3. QED
  BY <1>1, <1>2

\* TypeInv is a strengthening of TypeOK.
LEMMA TypeInvTypeOK ==
  ASSUME TypeInv
  PROVE  TypeOK
<1>1. Deltas \subseteq Objects /\ PackJobs \subseteq Jobs /\ PackKeys \subseteq Keys
  BY PackFacts, KeyFacts DEF TypeInv, ScalarTypes, Deltas, PackJobs
<1>2. queue \in Seq(Jobs)
  BY <1>1, SeqMonotonic DEF TypeInv, ListTypes
<1>3. taken \in [Threads -> Seq(Objects)] /\ waitlist \in [Keys -> Seq(Objects)]
  BY <1>1, SeqMonotonic DEF TypeInv, ListTypes
<1>4. QED
  BY <1>1, <1>2, <1>3 DEF TypeInv, Called, ScalarTypes, ThreadTypes, CacheTypes, TypeOK

\* The inductive strengthening of TypeOK holds in every reachable state.
THEOREM TypeInvariant == Spec => []TypeInv
<1>1. Init => TypeInv
  BY TypeInvInit
<1>2. TypeInv /\ [Next]_vars => TypeInv'
  BY TypeInvNext
<1>3. QED
  BY <1>1, <1>2, PTL DEF Spec

\* The decoder's state keeps its types for every pack, any number of workers and
\* every combination of modes of decode_inner.
THEOREM TypeCorrect == Spec => []TypeOK
<1>1. TypeInv => TypeOK
  BY TypeInvTypeOK
<1>2. QED
  BY <1>1, TypeInvariant, PTL

-----------------------------------------------------------------------------
(* Nothing happens after decode_inner has returned.                        *)

ReturnedInv ==
  /\ result # "running" => pc[Main] = "returned"
  /\ pc[Main] \in {"header", "returned"} => PoolIdle
  /\ pc[Main] = "header" => waitlist = [k \in Keys |-> <<>>]

\* With the pool idle and the reading thread not in its loop, no job can run.
LEMMA NoJobs ==
  ASSUME PoolIdle, pc[Main] \in {"header", "returned"}
  PROVE  (\A t \in Threads : ~JobStep(t)) /\ (\A w \in Workers : ~StartJob(w))
<1>1. ASSUME NEW t \in Threads
      PROVE  ~JobStep(t)
  <2>1. pc[t] \in {"idle", "header", "returned"}
    BY DEF PoolIdle, Threads
  <2>2. QED
    BY <2>1 DEF JobStep, FindBase, FetchHit, FetchMiss, Wait, RefetchHit, RefetchMiss, Consume,
                Unhold, Release, RemoveBase, RebuildFails, Rebuild, CacheKept, CacheDropped,
                InsertObject, TakeWaiters, EmitDropped, SubmitRebuilds
<1>2. QED
  BY <1>1 DEF StartJob, PoolIdle

\* With the pool idle and the reading thread gone, nothing moves.
LEMMA Frozen ==
  ASSUME PoolIdle, pc[Main] = "returned", Next
  PROVE  UNCHANGED vars
<1>1. ~MainStep
  BY DEF MainStep, ReadHeader, RejectHeader, ReadFails, SkipEntry, ReadEntry, MayRead, DropBase,
         CacheBase, SubmitEntry, ReadTrailer, JoinPool, Abort
<1>2. QED
  BY <1>1, NoJobs DEF Next, Spin, Returned

\* Before the header is read, reading or rejecting it is all that can happen.
LEMMA HeaderFirst ==
  ASSUME PoolIdle, pc[Main] = "header", Next
  PROVE  ReadHeader \/ RejectHeader
<1>1. ASSUME MainStep
      PROVE  ReadHeader \/ RejectHeader
  BY <1>1 DEF MainStep, ReadFails, SkipEntry, ReadEntry, MayRead, DropBase,
         CacheBase, SubmitEntry, ReadTrailer, JoinPool, Abort
<1>2. QED
  BY <1>1, NoJobs DEF Next, Spin, Returned

\* In the loop, only its two ends return.
LEMMA OnlyEndReturns ==
  ASSUME TypeInv, Next, pc[Main] \notin {"header", "returned"}, ~JoinPool, ~Abort
  PROVE  result' = result /\ pc'[Main] \notin {"header", "returned"}
<1>0. Main \in Threads /\ Main \notin Workers
  BY ConstantsAssumption DEF Threads
<1>1. CASE MainStep
  <2>1. result' = result
    BY <1>1 DEF MainStep, ReadHeader, RejectHeader, ReadFails, SkipEntry, ReadEntry, DropBase,
                CacheBase, SubmitEntry, ReadTrailer
  <2>2. pc'[Main] \notin {"header", "returned"}
    BY <1>0, <1>1
    DEF MainStep, ReadHeader, RejectHeader, ReadFails, SkipEntry, ReadEntry, DropBase, CacheBase,
        SubmitEntry, ReadTrailer, Goto, Done, TypeInv, ThreadTypes
  <2>3. QED
    BY <2>1, <2>2
<1>2. ASSUME NEW w \in Workers, StartJob(w)
      PROVE  result' = result /\ pc'[Main] = pc[Main]
  BY <1>0, <1>2, StartLocal DEF StartJob, OthersKeep
<1>3. ASSUME NEW t \in Threads, JobStep(t)
      PROVE  result' = result /\ pc'[Main] \notin {"header", "returned"}
  <2>1. result' = result
    BY <1>3
    DEF JobStep, FindBase, FetchHit, FetchMiss, Wait, RefetchHit, RefetchMiss, Consume, Unhold,
        Release, RemoveBase, RebuildFails, Rebuild, CacheKept, CacheDropped, InsertObject,
        TakeWaiters, EmitDropped, SubmitRebuilds
  <2>2. t = Main => pc'[Main] \notin {"header", "returned"}
    BY <1>0, <1>3
    DEF JobStep, Goto, Done, FindBase, FetchHit, FetchMiss, Wait, RefetchHit, RefetchMiss,
        Consume, Unhold, Release, RemoveBase, RebuildFails, Rebuild, CacheKept, CacheDropped,
        InsertObject, TakeWaiters, TakeFrom, EmitDropped, SubmitRebuilds, AfterConsume,
        AfterRelease, TypeInv, ThreadTypes
  <2>3. t # Main => pc'[Main] = pc[Main]
    BY <1>0, <1>3, JobLocal DEF OthersKeep
  <2>4. QED
    BY <2>1, <2>2, <2>3
<1>4. QED
  BY <1>1, <1>2, <1>3 DEF Next, Spin, Returned, vars

\* A verdict is only given by a step that found the pool idle.
LEMMA ReturnedNext ==
  ASSUME TypeInv, ReturnedInv, [Next]_vars
  PROVE  ReturnedInv'
<1>0. Main \in Threads /\ Main \notin Workers /\ Workers \subseteq Threads
  BY ConstantsAssumption DEF Threads
<1>1. CASE UNCHANGED vars
  BY <1>1 DEF vars, ReturnedInv, PoolIdle
<1>2. CASE Next /\ pc[Main] = "returned"
  BY <1>1, <1>2, Frozen DEF ReturnedInv
<1>3. CASE JoinPool \/ Abort \/ (Next /\ pc[Main] = "header")
  <2>1. ReadHeader \/ RejectHeader \/ JoinPool \/ Abort
    BY <1>3, HeaderFirst DEF ReturnedInv
  <2>2. PoolIdle
    BY <1>3 DEF ReturnedInv, JoinPool, Abort
  <2>3. /\ queue' = queue
        /\ \/ Goto(Main, "returned")
           \/ Goto(Main, "read") /\ result' = result
    BY <2>1 DEF ReadHeader, RejectHeader, JoinPool, Abort
  <2>4. PoolIdle' /\ (pc'[Main] = "returned" \/ (pc'[Main] = "read" /\ result' = result))
    <3>1. pc \in [Threads -> Pcs]
      BY DEF TypeInv, ThreadTypes
    <3>2. PICK p \in {"read", "returned"} : Goto(Main, p) /\ (p = "read" => result' = result)
      BY <2>3
    <3>3. pc'[Main] = p /\ \A w \in Workers : pc'[w] = pc[w]
      BY <1>0, <3>1, <3>2 DEF Goto
    <3>4. QED
      BY <2>2, <2>3, <3>2, <3>3 DEF PoolIdle
  <2>5. pc[Main] # "returned"
    BY <2>1 DEF ReadHeader, RejectHeader, JoinPool, Abort
  <2>6. QED
    BY <2>4, <2>5 DEF ReturnedInv
<1>4. CASE Next /\ pc[Main] \notin {"header", "returned"} /\ ~JoinPool /\ ~Abort
  BY <1>4, OnlyEndReturns DEF ReturnedInv
<1>5. QED
  BY <1>1, <1>2, <1>3, <1>4

\* Until the pool is idle decode_inner has not returned.
THEOREM ReturnedInvariant == Spec => []ReturnedInv
<1>1. Init => ReturnedInv
  BY ConstantsAssumption DEF Init, ReturnedInv, PoolIdle, Threads
<1>2. TypeInv /\ ReturnedInv /\ [Next]_vars => ReturnedInv'
  BY ReturnedNext
<1>3. QED
  BY <1>1, <1>2, TypeInvariant, PTL DEF Spec

\* Every return path of decode_inner joins the pool first: afterwards no object
\* is delivered, no job queued and the verdict stands, in every mode.
THEOREM Quiet == Spec => QuietAfterReturn
<1>1. TypeInv /\ ReturnedInv /\ [Next]_vars
        => [result # "running" => UNCHANGED <<emitted, queue, waitlist, result>>]_vars
  BY Frozen DEF ReturnedInv, vars
<1>2. QED
  BY <1>1, TypeInvariant, ReturnedInvariant, PTL DEF Spec, QuietAfterReturn
=============================================================================
