---------------------------- MODULE CachesProofs ----------------------------
(***************************************************************************)
(* Proofs about Caches, for any number of clients, I/O workers, objects    *)
(* and sizes: nothing is lost before shutdown, a lookup finds what was     *)
(* inserted, resident_hash_set agrees with the LRU map, and no spill file  *)
(* appears once Pack::drop has removed the directory.                      *)
(***************************************************************************)
EXTENDS Caches, SequenceTheorems, TLAPS

Drops == {"drop_evicted", "drop_displaced"}

\* An object the cache can still hand out.
Findable(h) == h \in lru \/ h \in files \/ BeingSaved(h)
Found == {h \in Hashes : Findable(h)}

\* What each place in the code says about the thread that is there.
Control(t) ==
  /\ pc[t] \in Drops <=> dropping[t] # None
  /\ pc[t] # "idle" => key[t] \in Hashes
  /\ pc[t] = "idle" => offset[t] = None
  /\ offset[t] # None => key[t] = HashAt[offset[t]]
  /\ pc[t] \in {"hash_set", "map_offset"} => offset[t] # None
  /\ pc[t] \in Locked <=> lock = t

\* Every client is idle from shutdown until the next decode.
Phases ==
  /\ phase # "open" => completeSignal /\ \A t \in Clients : pc[t] = "idle"

\* Outside the mutex the two views of the LRU map agree; inside, they may differ
\* for the object the holder is about to mark.
Residents ==
  /\ \A h \in lru : Fits(h)
  /\ \A t \in Clients : pc[t] \in {"drop_displaced", "mark"} /\ Fits(key[t]) => key[t] \in lru
  /\ \A h \in Hashes :
       \/ h \in residentHashSet <=> h \in lru
       \/ \E t \in Clients : pc[t] \in {"drop_displaced", "mark"} /\ key[t] = h

\* What the index names, and what an insert is about to name, can be found.
NothingLost ==
  disk = "good" /\ ~completeSignal =>
    /\ \A h \in hashSet : Findable(h)
    /\ \A t \in Clients : pc[t] \in {"drop_displaced", "mark", "hash_set"} => Findable(key[t])

\* The offset map never names an object hash_set does not.
Named ==
  /\ \A o \in mapOffset : HashAt[o] \in hashSet
  /\ \A t \in Clients : pc[t] = "map_offset" => key[t] \in hashSet
  /\ \A t \in Clients : pc[t] = "contains" /\ expected[t] => key[t] \in hashSet
  /\ LookupFinds

CachesInv ==
  /\ TypeOK
  /\ \A t \in Clients : Control(t)
  /\ Phases
  /\ Residents
  /\ NothingLost
  /\ Named

-----------------------------------------------------------------------------
USE DEF callVars, indexVars, clientVars, ioVars

\* The cache starts empty, with every thread idle.
LEMMA CachesInit == Init => CachesInv
<1> SUFFICES ASSUME Init PROVE CachesInv
  OBVIOUS
<1>0. <<>> \in Seq(Hashes)
  OBVIOUS
<1>1. TypeOK
  <2>1. /\ pc \in [Clients -> Pcs]
        /\ expected \in [Clients -> BOOLEAN]
    BY DEF Init, Pcs
  <2>2. QED
    BY <1>0, <2>1, CachesAssumption DEF Init, TypeOK
<1>2. ASSUME NEW t \in Clients
      PROVE  Control(t)
  BY CachesAssumption DEF Init, Control, Drops, Locked
<1>3. Phases /\ Residents
  BY DEF Init, Phases, Residents
<1>4. NothingLost /\ Named
  BY DEF Init, NothingLost, Named, LookupFinds
<1>5. QED
  BY <1>1, <1>2, <1>3, <1>4 DEF CachesInv

\* Every step keeps the types.
LEMMA TypesNext ==
  ASSUME CachesInv, Next
  PROVE  TypeOK'
<1> USE CachesAssumption DEF CachesInv, TypeOK
<1>1. ASSUME NEW t \in Clients, Begin(t)
      PROVE  TypeOK'
  <2>1. ASSUME NEW o \in Offsets, Insert(t, o)
        PROVE  TypeOK'
    BY <2>1 DEF Insert, Goto, Pcs
  <2>2. ASSUME NEW o \in Offsets, GetByOffset(t, o)
        PROVE  TypeOK'
    BY <2>2 DEF GetByOffset, BeginGet, Goto, Pcs
  <2>3. ASSUME NEW h \in Hashes, GetByHash(t, h)
        PROVE  TypeOK'
    BY <2>3 DEF GetByHash, BeginGet, Goto, Pcs
  <2>4. QED
    BY <1>1, <2>1, <2>2, <2>3 DEF Begin
<1>2. ASSUME NEW t \in Clients, ClientStep(t)
      PROVE  TypeOK'
  <2>1. CASE Contains(t) \/ Resident(t) \/ TryGet(t) \/ Load(t) \/ LoadFails(t)
    BY <2>1 DEF Contains, Resident, TryGet, Load, LoadFails, Goto, Pcs
  <2>2. CASE Lock(t)
    BY <2>2 DEF Lock, Acquire, Goto, Pcs, Locked
  <2>3. CASE Evict(t)
    BY <2>3 DEF Evict, Goto, Pcs, Locked
  <2>4. CASE Put(t)
    <3>1. key[t] \in Hashes
      BY <2>4 DEF Put, Control
    <3>2. pc' \in [Clients -> Pcs] /\ dropping' \in [Clients -> Hashes \union {None}]
      BY <2>4, <3>1 DEF Put, Goto, Pcs, Locked
    <3>3. QED
      BY <2>4, <3>1, <3>2 DEF Put
  <2>5. CASE Drop(t)
    <3>1. dropping[t] \in Hashes
      BY <2>5 DEF Drop, Control, Drops
    <3>2. spill' \in Seq(Hashes)
      BY <2>5, <3>1, AppendProperties DEF Drop
    <3>3. QED
      BY <2>5, <3>2 DEF Drop, Goto, Pcs, Locked
  <2>6. CASE Mark(t)
    BY <2>6 DEF Mark, Release, Goto, Pcs, Locked, Control
  <2>7. CASE AddHash(t)
    BY <2>7 DEF AddHash, Goto, Pcs, Control
  <2>8. CASE AddOffset(t)
    BY <2>8 DEF AddOffset, Finish, Goto, Pcs, Control
  <2>9. CASE Answer(t)
    BY <2>9 DEF Answer, Finish, Goto, Pcs
  <2>10. QED
    BY <1>2, <2>1, <2>2, <2>3, <2>4, <2>5, <2>6, <2>7, <2>8, <2>9 DEF ClientStep
<1>3. ASSUME NEW w \in IoWorkers, IoStep(w)
      PROVE  TypeOK'
  <2>1. CASE StartSave(w)
    BY <2>1, HeadTailProperties DEF StartSave
  <2>2. CASE Save(w) \/ SaveFails(w)
    BY <2>2 DEF Save, SaveFails
  <2>3. QED
    BY <1>3, <2>1, <2>2 DEF IoStep
<1>4. CASE Shutdown \/ Clear \/ Reuse \/ RemoveTmpDir
  <2>1. CASE Shutdown
    BY <2>1 DEF Shutdown
  <2>2. CASE Clear
    BY <2>2 DEF Clear
  <2>3. CASE Reuse
    BY <2>3 DEF Reuse
  <2>4. CASE RemoveTmpDir
    BY <2>4 DEF RemoveTmpDir
  <2>5. QED
    BY <1>4, <2>1, <2>2, <2>3, <2>4
<1>5. CASE UNCHANGED vars
  BY <1>5 DEF vars
<1>6. QED
  BY <1>1, <1>2, <1>3, <1>4, <1>5 DEF Next, Sleep, Dropped

\* Every step leaves the threads with what their places need, and the mutex with
\* the thread that holds it.
LEMMA ControlNext ==
  ASSUME CachesInv, Next, NEW u \in Clients
  PROVE  Control(u)'
<1> USE CachesAssumption DEF CachesInv, TypeOK, Control
<1>1. ASSUME NEW t \in Clients, Begin(t)
      PROVE  Control(u)'
  <2>1. ASSUME NEW o \in Offsets, Insert(t, o)
        PROVE  Control(u)'
    BY <2>1 DEF Insert, Goto, Drops, Locked
  <2>2. ASSUME NEW o \in Offsets, GetByOffset(t, o)
        PROVE  Control(u)'
    BY <2>2 DEF GetByOffset, BeginGet, Goto, Drops, Locked
  <2>3. ASSUME NEW h \in Hashes, GetByHash(t, h)
        PROVE  Control(u)'
    BY <2>3 DEF GetByHash, BeginGet, Goto, Drops, Locked
  <2>4. QED
    BY <1>1, <2>1, <2>2, <2>3 DEF Begin
<1>2. ASSUME NEW t \in Clients, ClientStep(t)
      PROVE  Control(u)'
  <2>1. CASE Contains(t) \/ Resident(t) \/ TryGet(t) \/ Load(t) \/ LoadFails(t)
    BY <2>1 DEF Contains, Resident, TryGet, Load, LoadFails, Goto, Drops, Locked
  <2>2. CASE Lock(t)
    BY <2>2 DEF Lock, Acquire, Goto, Drops, Locked
  <2>3. CASE Evict(t)
    BY <2>3 DEF Evict, Goto, Drops, Locked
  <2>4. CASE Put(t)
    BY <2>4 DEF Put, Goto, Drops, Locked
  <2>5. CASE Drop(t)
    BY <2>5 DEF Drop, Goto, Drops, Locked
  <2>6. CASE Mark(t)
    BY <2>6 DEF Mark, Release, Goto, Drops, Locked
  <2>7. CASE AddHash(t)
    BY <2>7 DEF AddHash, Goto, Drops, Locked
  <2>8. CASE AddOffset(t) \/ Answer(t)
    BY <2>8 DEF AddOffset, Answer, Finish, Goto, Drops, Locked
  <2>9. QED
    BY <1>2, <2>1, <2>2, <2>3, <2>4, <2>5, <2>6, <2>7, <2>8 DEF ClientStep
<1>3. CASE (\E w \in IoWorkers : IoStep(w)) \/ Shutdown \/ Clear \/ Reuse \/ RemoveTmpDir
  BY <1>3 DEF IoStep, StartSave, Save, SaveFails, Shutdown, Clear, Reuse, RemoveTmpDir
<1>4. CASE UNCHANGED vars
  BY <1>4 DEF vars
<1>5. QED
  BY <1>1, <1>2, <1>3, <1>4 DEF Next, Sleep, Dropped

\* Operations only begin while the cache is open, and shutdown waits for them.
LEMMA PhasesNext ==
  ASSUME CachesInv, Next
  PROVE  Phases'
<1> USE DEF CachesInv, TypeOK, Phases
<1>1. ASSUME NEW t \in Clients, Begin(t)
      PROVE  Phases'
  BY <1>1 DEF Begin, Insert, GetByOffset, GetByHash, BeginGet
<1>2. ASSUME NEW t \in Clients, ClientStep(t)
      PROVE  Phases'
  <2>1. pc[t] # "idle"
    BY <1>2 DEF ClientStep, Contains, Resident, TryGet, Load, LoadFails, Lock, Evict, Put, Drop,
                Mark, AddHash, AddOffset, Answer
  <2>2. phase' = phase
    BY <1>2 DEF ClientStep, Contains, Resident, TryGet, Load, LoadFails, Lock, Evict, Put, Drop,
                Mark, AddHash, AddOffset, Answer
  <2>3. QED
    BY <2>1, <2>2
<1>3. CASE \E w \in IoWorkers : IoStep(w)
  BY <1>3 DEF IoStep, StartSave, Save, SaveFails
<1>4. CASE Shutdown \/ Clear \/ Reuse \/ RemoveTmpDir
  BY <1>4 DEF Shutdown, Clear, Reuse, RemoveTmpDir
<1>5. CASE UNCHANGED vars
  BY <1>5 DEF vars
<1>6. QED
  BY <1>1, <1>2, <1>3, <1>4, <1>5 DEF Next, Sleep, Dropped

\* Both views of the LRU map are changed under the mutex, by one thread at a time.
LEMMA ResidentsNext ==
  ASSUME CachesInv, Next
  PROVE  Residents'
<1> DEFINE Marking == {"drop_displaced", "mark"}
<1>0. \A t, u \in Clients : pc[t] \in Locked /\ pc[u] \in Locked => t = u
  BY DEF CachesInv, Control
<1> USE DEF CachesInv, TypeOK, Residents, Fits
<1>1. ASSUME UNCHANGED <<lru, residentHashSet>>,
             \A u \in Clients : (pc[u] \in Marking \/ pc'[u] \in Marking) =>
                                  key'[u] = key[u] /\ (pc[u] \in Marking <=> pc'[u] \in Marking)
      PROVE  Residents'
  BY <1>1
<1>2. ASSUME NEW t \in Clients, Begin(t)
      PROVE  Residents'
  BY <1>1, <1>2 DEF Begin, Insert, GetByOffset, GetByHash, BeginGet, Goto
<1>3. ASSUME NEW t \in Clients, ClientStep(t)
      PROVE  Residents'
  <2>1. CASE Contains(t) \/ Resident(t) \/ TryGet(t) \/ Load(t) \/ LoadFails(t) \/ AddHash(t)
    BY <1>1, <2>1 DEF Contains, Resident, TryGet, Load, LoadFails, AddHash, Goto
  <2>2. CASE Lock(t) \/ Drop(t)
    BY <1>1, <2>2 DEF Lock, Drop, Goto
  <2>3. CASE AddOffset(t) \/ Answer(t)
    BY <1>1, <2>3 DEF AddOffset, Answer, Finish, Goto
  <2>4. CASE Evict(t)
    <3>1. \A u \in Clients : pc[u] \notin Marking /\ pc'[u] \notin Marking
      BY <1>0, <2>4 DEF Evict, Goto, Locked
    <3>2. QED
      BY <2>4, <3>1 DEF Evict
  <2>5. CASE Put(t)
    <3>1. \A u \in Clients : pc[u] \notin Marking
      BY <1>0, <2>5 DEF Put, Locked
    <3>2. \A u \in Clients : pc'[u] \in Marking <=> u = t
      BY <2>5, <3>1 DEF Put, Goto
    <3>3. \A h \in lru' : Fits(h)
      BY <2>5 DEF Put
    <3>4. \A h \in Hashes : h # key[t] => (h \in residentHashSet' <=> h \in lru')
      BY <2>5, <3>1 DEF Put
    <3>5. Fits(key[t]) => key[t] \in lru'
      BY <2>5 DEF Put
    <3>6. key' = key
      BY <2>5 DEF Put
    <3>7. QED
      BY <3>2, <3>3, <3>4, <3>5, <3>6
  <2>6. CASE Mark(t)
    <3>1. \A u \in Clients : pc[u] \in Marking => u = t
      BY <1>0, <2>6 DEF Mark, Locked
    <3>2. \A u \in Clients : pc'[u] \notin Marking
      BY <2>6, <3>1 DEF Mark, Goto
    <3>3. \A h \in Hashes : h \in residentHashSet' <=> h \in lru'
      BY <2>6, <3>1 DEF Mark
    <3>4. QED
      BY <2>6, <3>2, <3>3 DEF Mark
  <2>7. QED
    BY <1>3, <2>1, <2>2, <2>3, <2>4, <2>5, <2>6 DEF ClientStep
<1>4. CASE \E w \in IoWorkers : IoStep(w)
  BY <1>1, <1>4 DEF IoStep, StartSave, Save, SaveFails
<1>5. CASE Shutdown \/ Reuse \/ RemoveTmpDir
  BY <1>1, <1>5 DEF Shutdown, Reuse, RemoveTmpDir
<1>6. CASE Clear
  <2>1. \A u \in Clients : pc[u] = "idle" /\ pc'[u] = "idle"
    BY <1>6 DEF Clear, Phases
  <2>2. QED
    BY <1>6, <2>1 DEF Clear
<1>7. CASE UNCHANGED vars
  BY <1>1, <1>7 DEF vars
<1>8. QED
  BY <1>2, <1>3, <1>4, <1>5, <1>6, <1>7 DEF Next, Sleep, Dropped

\* On a disk that works, no step before shutdown makes an object unfindable: it
\* goes from the LRU map to the thread that drops it, from there to the queue of
\* the I/O pool, to a worker, and to its file.
LEMMA StaysFindable ==
  ASSUME CachesInv, Next, disk = "good", ~completeSignal', NEW h \in Hashes, Findable(h)
  PROVE  Findable(h)'
<1>0. ~completeSignal
  BY DEF CachesInv, TypeOK, Next, Begin, ClientStep, IoStep, Insert, GetByOffset, GetByHash,
         BeginGet, Contains, Resident, TryGet, Load, LoadFails, Lock, Evict, Put, Drop, Mark,
         AddHash, AddOffset, Answer, StartSave, Save, SaveFails, Shutdown, Clear, Reuse,
         RemoveTmpDir, Dropped, Sleep, vars
<1>1. phase = "open"
  BY <1>0 DEF CachesInv, Phases
<1>2. ASSUME lru \subseteq lru', files \subseteq files', UNCHANGED <<dropping, spill, saving>>
      PROVE  Findable(h)'
  BY <1>2 DEF Findable, BeingSaved
<1>3. ASSUME NEW t \in Clients, Evict(t)
      PROVE  Findable(h)'
  <2>1. PICK g \in lru : lru' = lru \ {g} /\ dropping' = [dropping EXCEPT ![t] = g]
    BY <1>3 DEF Evict
  <2>2. dropping[t] = None /\ h # None
    BY <1>3, CachesAssumption DEF Evict, CachesInv, Control, Drops
  <2>3. dropping'[t] = g /\ \A u \in Clients : u # t => dropping'[u] = dropping[u]
    BY <2>1 DEF CachesInv, TypeOK
  <2>4. UNCHANGED <<files, spill, saving>>
    BY <1>3 DEF Evict
  <2>5. QED
    BY <2>1, <2>2, <2>3, <2>4 DEF Findable, BeingSaved
<1>4. ASSUME NEW t \in Clients, Put(t)
      PROVE  Findable(h)'
  <2>1. dropping[t] = None /\ h # None
    BY <1>4, CachesAssumption DEF Put, CachesInv, Control, Drops
  <2>2. \A u \in Clients : u # t => dropping'[u] = dropping[u]
    BY <1>4 DEF Put, CachesInv, TypeOK
  <2>3. lru \subseteq lru' /\ UNCHANGED <<files, spill, saving>>
    BY <1>4 DEF Put
  <2>4. QED
    BY <2>1, <2>2, <2>3 DEF Findable, BeingSaved
<1>5. ASSUME NEW t \in Clients, Drop(t)
      PROVE  Findable(h)'
  <2>1. dropping[t] \in Hashes
    BY <1>5 DEF Drop, CachesInv, TypeOK, Control, Drops
  <2>2. /\ spill \in Seq(Hashes)
        /\ spill' = Append(spill, dropping[t])
    BY <1>0, <1>5 DEF Drop, CachesInv, TypeOK
  <2>3. /\ Len(spill') = Len(spill) + 1
        /\ \A i \in 1..Len(spill) : spill'[i] = spill[i]
        /\ spill'[Len(spill) + 1] = dropping[t]
    BY <2>1, <2>2, AppendProperties
  <2>4. Len(spill) \in Nat
    BY <2>2
  <2>5. \A u \in Clients : u # t => dropping'[u] = dropping[u]
    BY <1>5 DEF Drop, CachesInv, TypeOK
  <2>6. UNCHANGED <<lru, files, saving>>
    BY <1>5 DEF Drop
  <2>7. (\E i \in 1..Len(spill) : spill[i] = h) \/ dropping[t] = h
           => \E i \in 1..Len(spill') : spill'[i] = h
    BY <2>3, <2>4
  <2>8. QED
    BY <2>5, <2>6, <2>7 DEF Findable, BeingSaved
<1>6. ASSUME NEW w \in IoWorkers, StartSave(w)
      PROVE  Findable(h)'
  <2>1. spill \in Seq(Hashes) /\ spill # <<>> /\ spill' = Tail(spill)
    BY <1>6 DEF StartSave, CachesInv, TypeOK
  <2>2. /\ Len(spill') = Len(spill) - 1
        /\ \A i \in 1..Len(spill') : spill'[i] = spill[i + 1]
        /\ Head(spill) = spill[1]
        /\ Len(spill) \in Nat
    BY <2>1, HeadTailProperties
  <2>3. /\ saving[w] = None /\ saving'[w] = Head(spill)
        /\ \A v \in IoWorkers : v # w => saving'[v] = saving[v]
    BY <1>0, <1>6 DEF StartSave, CachesInv, TypeOK
  <2>4. ASSUME NEW i \in 1..Len(spill), spill[i] = h
        PROVE  BeingSaved(h)'
    <3>1. CASE i = 1
      BY <2>2, <2>3, <2>4, <3>1 DEF BeingSaved
    <3>2. CASE i # 1
      <4>1. i - 1 \in 1..Len(spill') /\ spill'[i - 1] = h
        BY <2>2, <2>4, <3>2
      <4>2. QED
        BY <4>1 DEF BeingSaved
    <3>3. QED
      BY <3>1, <3>2
  <2>5. UNCHANGED <<lru, files, dropping>>
    BY <1>6 DEF StartSave
  <2>6. h # None
    BY CachesAssumption
  <2>7. QED
    BY <2>3, <2>4, <2>5, <2>6 DEF Findable, BeingSaved
<1>7. ASSUME NEW w \in IoWorkers, Save(w)
      PROVE  Findable(h)'
  <2>1. \A v \in IoWorkers : v # w => saving'[v] = saving[v]
    BY <1>7 DEF Save, CachesInv, TypeOK
  <2>2. QED
    BY <1>7, <2>1 DEF Save, Findable, BeingSaved
<1>8. QED
  <2>1. CASE \E t \in Clients : Begin(t)
    BY <1>2, <2>1 DEF Begin, Insert, GetByOffset, GetByHash, BeginGet
  <2>2. ASSUME NEW t \in Clients, ClientStep(t)
        PROVE  Findable(h)'
    BY <1>2, <1>3, <1>4, <1>5, <2>2
    DEF ClientStep, Contains, Resident, TryGet, Load, LoadFails, Lock, Mark, AddHash, AddOffset,
        Answer
  <2>3. ASSUME NEW w \in IoWorkers, IoStep(w)
        PROVE  Findable(h)'
    BY <1>6, <1>7, <2>3 DEF IoStep, SaveFails
  <2>4. CASE Shutdown \/ Clear \/ Reuse \/ RemoveTmpDir
    BY <1>1, <2>4 DEF Shutdown, Clear, Reuse, RemoveTmpDir
  <2>5. CASE UNCHANGED vars
    BY <1>2, <2>5 DEF vars
  <2>6. QED
    BY <2>1, <2>2, <2>3, <2>4, <2>5 DEF Next, Sleep, Dropped

\* Every step keeps what the index names findable; an insert names an object
\* after it was put into the LRU map or handed to the I/O pool.
LEMMA NothingLostNext ==
  ASSUME CachesInv, Next
  PROVE  NothingLost'
<1> DEFINE Kept == {"drop_displaced", "mark", "hash_set"}
<1> SUFFICES ASSUME disk' = "good", ~completeSignal'
             PROVE  /\ hashSet' \subseteq Found'
                    /\ \A u \in Clients : pc'[u] \in Kept => key'[u] \in Found'
  BY DEF NothingLost, Found
<1>0. /\ disk = "good"
      /\ ~completeSignal
  BY DEF CachesInv, TypeOK, Next, Begin, ClientStep, IoStep, Insert, GetByOffset, GetByHash,
         BeginGet, Contains, Resident, TryGet, Load, LoadFails, Lock, Evict, Put, Drop, Mark,
         AddHash, AddOffset, Answer, StartSave, Save, SaveFails, Shutdown, Clear, Reuse,
         RemoveTmpDir, Dropped, Sleep, vars
<1>1. /\ hashSet \subseteq Found
      /\ \A u \in Clients : pc[u] \in Kept => key[u] \in Found
  BY <1>0 DEF CachesInv, NothingLost, TypeOK, Control, Found
<1>2. Found \subseteq Found'
  BY <1>0, StaysFindable DEF Found
<1>3. ASSUME hashSet' = hashSet,
             \A u \in Clients : pc'[u] \in Kept => pc[u] \in Kept /\ key'[u] = key[u]
      PROVE  /\ hashSet' \subseteq Found'
             /\ \A u \in Clients : pc'[u] \in Kept => key'[u] \in Found'
  BY <1>1, <1>2, <1>3
<1>4. CASE \E t \in Clients : Begin(t)
  <2>1. hashSet' = hashSet
    BY <1>4 DEF Begin, Insert, GetByOffset, GetByHash, BeginGet
  <2>2. \A u \in Clients : pc'[u] \in Kept => pc[u] \in Kept /\ key'[u] = key[u]
    BY <1>4 DEF Begin, Insert, GetByOffset, GetByHash, BeginGet, Goto, CachesInv, TypeOK
  <2>3. QED
    BY <1>3, <2>1, <2>2
<1>5. ASSUME NEW t \in Clients, ClientStep(t)
      PROVE  /\ hashSet' \subseteq Found'
             /\ \A u \in Clients : pc'[u] \in Kept => key'[u] \in Found'
  <2>1. CASE Put(t)
    <3>1. hashSet' = hashSet /\ key' = key /\ key[t] \in Hashes
      BY <2>1 DEF Put, CachesInv, Control
    <3>2. key'[t] \in Found'
      BY <2>1, <3>1 DEF Put, Found, Findable, BeingSaved, CachesInv, TypeOK
    <3>3. \A u \in Clients : u # t => pc'[u] = pc[u]
      BY <2>1 DEF Put, Goto, CachesInv, TypeOK
    <3>4. QED
      BY <1>1, <1>2, <3>1, <3>2, <3>3
  <2>2. CASE AddHash(t)
    <3>1. hashSet' = hashSet \union {key[t]} /\ key' = key /\ pc[t] \in Kept
      BY <2>2 DEF AddHash
    <3>2. \A u \in Clients : pc'[u] \in Kept => pc[u] \in Kept
      BY <2>2 DEF AddHash, Goto, CachesInv, TypeOK
    <3>3. QED
      BY <1>1, <1>2, <3>1, <3>2
  <2>3. CASE ~Put(t) /\ ~AddHash(t)
    <3>1. hashSet' = hashSet
      BY <1>5, <2>3 DEF ClientStep, Contains, Resident, TryGet, Load, LoadFails, Lock, Evict, Drop,
                        Mark, AddOffset, Answer
    <3>2. \A u \in Clients : pc'[u] \in Kept => pc[u] \in Kept /\ key'[u] = key[u]
      BY <1>5, <2>3 DEF ClientStep, Contains, Resident, TryGet, Load, LoadFails, Lock, Evict, Drop,
                        Mark, AddOffset, Answer, Finish, Goto, CachesInv, TypeOK
    <3>3. QED
      BY <1>3, <3>1, <3>2
  <2>4. QED
    BY <2>1, <2>2, <2>3
<1>6. CASE \E w \in IoWorkers : IoStep(w)
  <2>1. UNCHANGED <<hashSet, pc, key>>
    BY <1>6 DEF IoStep, StartSave, Save, SaveFails
  <2>2. QED
    BY <1>3, <2>1
<1>7. CASE Shutdown \/ Clear \/ Reuse \/ RemoveTmpDir
  BY <1>0, <1>7 DEF Shutdown, Clear, Reuse, RemoveTmpDir, CachesInv, Phases
<1>8. CASE UNCHANGED vars
  <2>1. UNCHANGED <<hashSet, pc, key>>
    BY <1>8 DEF vars
  <2>2. QED
    BY <1>3, <2>1
<1>9. QED
  BY <1>4, <1>5, <1>6, <1>7, <1>8 DEF Next, Sleep, Dropped

\* The index only grows until every client is idle, and map_offset after hash_set.
LEMMA NamedNext ==
  ASSUME CachesInv, Next
  PROVE  Named'
<1> USE CachesAssumption DEF CachesInv, TypeOK, Named, LookupFinds
<1>1. ASSUME NEW t \in Clients, Begin(t)
      PROVE  Named'
  <2>1. ASSUME NEW o \in Offsets, Insert(t, o)
        PROVE  Named'
    BY <2>1 DEF Insert, Goto
  <2>2. ASSUME NEW o \in Offsets, GetByOffset(t, o)
        PROVE  Named'
    BY <2>2 DEF GetByOffset, BeginGet, Goto
  <2>3. ASSUME NEW h \in Hashes, GetByHash(t, h)
        PROVE  Named'
    <3>1. h \in Inserted => h \in hashSet
      BY DEF Inserted
    <3>2. QED
      BY <2>3, <3>1 DEF GetByHash, BeginGet, Goto
  <2>4. QED
    BY <1>1, <2>1, <2>2, <2>3 DEF Begin
<1>2. ASSUME NEW t \in Clients, ClientStep(t)
      PROVE  Named'
  <2>1. CASE Contains(t)
    <3>1. pc'[t] = "miss" => ~expected[t]
      BY <2>1 DEF Contains, Goto
    <3>2. QED
      BY <2>1, <3>1 DEF Contains, Goto
  <2>2. CASE Resident(t) \/ TryGet(t) \/ Load(t) \/ LoadFails(t)
    BY <2>2 DEF Resident, TryGet, Load, LoadFails, Goto
  <2>3. CASE Lock(t) \/ Evict(t) \/ Put(t) \/ Drop(t) \/ Mark(t)
    <3>1. UNCHANGED <<disk, mapOffset, hashSet, key, expected>>
      BY <2>3 DEF Lock, Evict, Put, Drop, Mark
    <3>2. \A u \in Clients : pc'[u] \in {"map_offset", "contains", "miss"} => pc'[u] = pc[u]
      BY <2>3 DEF Lock, Evict, Put, Drop, Mark, Goto
    <3>3. QED
      BY <3>1, <3>2
  <2>4. CASE AddHash(t)
    BY <2>4 DEF AddHash, Goto
  <2>5. CASE AddOffset(t)
    <3>1. HashAt[offset[t]] = key[t]
      BY <2>5 DEF AddOffset, Control
    <3>2. QED
      BY <2>5, <3>1 DEF AddOffset, Finish, Goto
  <2>6. CASE Answer(t)
    BY <2>6 DEF Answer, Finish, Goto
  <2>7. QED
    BY <1>2, <2>1, <2>2, <2>3, <2>4, <2>5, <2>6 DEF ClientStep
<1>3. CASE \E w \in IoWorkers : IoStep(w)
  BY <1>3 DEF IoStep, StartSave, Save, SaveFails
<1>4. CASE Shutdown \/ Reuse \/ RemoveTmpDir
  BY <1>4 DEF Shutdown, Reuse, RemoveTmpDir
<1>5. CASE Clear
  BY <1>5 DEF Clear, Phases
<1>6. CASE UNCHANGED vars
  BY <1>6 DEF vars
<1>7. QED
  BY <1>1, <1>2, <1>3, <1>4, <1>5, <1>6 DEF Next, Sleep, Dropped

-----------------------------------------------------------------------------
\* CachesInv is an invariant.
LEMMA CachesInvariant == Spec => []CachesInv
<1>1. ASSUME CachesInv, UNCHANGED vars
      PROVE  CachesInv'
  <2>1. TypeOK'
    BY <1>1 DEF CachesInv, vars, TypeOK
  <2>2. (\A t \in Clients : Control(t))' /\ Phases'
    BY <1>1 DEF CachesInv, vars, Control, Phases
  <2>3. Residents'
    BY <1>1 DEF CachesInv, vars, Residents, Fits
  <2>4. NothingLost'
    BY <1>1 DEF CachesInv, vars, NothingLost, Findable, BeingSaved
  <2>5. Named'
    BY <1>1 DEF CachesInv, vars, Named, LookupFinds
  <2>6. QED
    BY <2>1, <2>2, <2>3, <2>4, <2>5 DEF CachesInv
<1>2. CachesInv /\ Next => CachesInv'
  BY TypesNext, ControlNext, PhasesNext, ResidentsNext, NothingLostNext, NamedNext DEF CachesInv
<1>3. QED
  BY CachesInit, <1>1, <1>2, PTL DEF Spec

\* Until shutdown, on a disk that works, what hash_set names is in memory, on disk
\* or being written: Caches never loses an object, whatever is evicted when.
THEOREM NeverLost == Spec => []Retrievable
<1>1. CachesInv => Retrievable
  BY DEF CachesInv, NothingLost, Retrievable, Findable
<1>2. QED
  BY CachesInvariant, <1>1, PTL

\* A lookup that begins after an insert of its key has returned is not answered
\* with None (get_by_hash, get_by_offset).
THEOREM LookupFindsInserted == Spec => []LookupFinds
<1>1. CachesInv => LookupFinds
  BY DEF CachesInv, Named
<1>2. QED
  BY CachesInvariant, <1>1, PTL

\* resident_hash_set, which get_by_hash reads without the mutex, is exact
\* whenever the mutex is free (insert_lru_resident).
THEOREM ResidentExact == Spec => []ResidentAgrees
<1>1. ASSUME CachesInv
      PROVE  ResidentAgrees
  <2>1. SUFFICES ASSUME lock = None
                 PROVE  residentHashSet = lru
    BY DEF ResidentAgrees
  <2>2. \A t \in Clients : pc[t] \notin Locked
    BY <1>1, <2>1, CachesAssumption DEF CachesInv, Control
  <2>3. \A h \in Hashes : h \in residentHashSet <=> h \in lru
    BY <1>1, <2>2 DEF CachesInv, Residents, Locked
  <2>4. QED
    BY <1>1, <2>3 DEF CachesInv, TypeOK
<1>2. QED
  BY CachesInvariant, <1>1, PTL

\* Once shutdown has joined the I/O pool it has nothing to do before the Pack is
\* used again, and a directory that was removed stays empty.
Joined ==
  /\ phase \in {"closed", "dropped"} => IoIdle
  /\ phase = "dropped" => files = {}

\* No step gives a pool that was joined a new job, or starts one.
LEMMA JoinedNext ==
  ASSUME CachesInv, Joined, Next
  PROVE  Joined'
<1>1. ASSUME NEW t \in Clients, Begin(t)
      PROVE  Joined'
  <2>1. phase = "open" /\ phase' = phase
    BY <1>1 DEF Begin, Insert, GetByOffset, GetByHash, BeginGet
  <2>2. QED
    BY <2>1 DEF Joined
<1>2. ASSUME NEW t \in Clients, ClientStep(t)
      PROVE  Joined'
  <2>1. pc[t] # "idle" /\ phase' = phase
    BY <1>2 DEF ClientStep, Contains, Resident, TryGet, Load, LoadFails, Lock, Evict, Put, Drop,
                Mark, AddHash, AddOffset, Answer
  <2>2. phase = "open"
    BY <2>1 DEF CachesInv, Phases
  <2>3. QED
    BY <2>1, <2>2 DEF Joined
<1>3. ASSUME NEW w \in IoWorkers, IoStep(w)
      PROVE  Joined'
  <2>1. ~IoIdle /\ phase' = phase
    BY <1>3 DEF IoStep, StartSave, Save, SaveFails, IoIdle
  <2>2. QED
    BY <2>1 DEF Joined
<1>4. CASE Shutdown \/ Reuse
  BY <1>4 DEF Shutdown, Reuse, Joined
<1>5. CASE Clear \/ RemoveTmpDir
  BY <1>5 DEF Clear, RemoveTmpDir, Joined, IoIdle
<1>6. CASE UNCHANGED vars
  BY <1>6 DEF vars, Joined, IoIdle
<1>7. QED
  BY <1>1, <1>2, <1>3, <1>4, <1>5, <1>6 DEF Next, Sleep, Dropped

\* No spill file appears in the directory that Pack::drop removed: by then the
\* I/O pool has been joined, and no operation of the cache is under way.
THEOREM TmpDirStaysGone == Spec => []TmpDirGone
<1>1. Init => Joined
  BY DEF Init, Joined
<1>2. CachesInv /\ Joined /\ [Next]_vars => Joined'
  <2>1. ASSUME Joined, UNCHANGED vars
        PROVE  Joined'
    BY <2>1 DEF vars, Joined, IoIdle
  <2>2. QED
    BY <2>1, JoinedNext
<1>3. Joined => TmpDirGone
  BY DEF Joined, TmpDirGone
<1>4. QED
  BY <1>1, <1>2, <1>3, CachesInvariant, PTL DEF Spec
=============================================================================
