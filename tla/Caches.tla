------------------------------- MODULE Caches -------------------------------
(***************************************************************************)
(* The bounded object cache of the pack decoder                            *)
(* (src/internal/pack/cache.rs, and ArcWrapper in cache_object.rs): an LRU *)
(* map behind a mutex, an index of offsets and hashes read without it, and *)
(* spill files written by an I/O pool when the LRU map gives an object up. *)
(*                                                                         *)
(* Objects are named by their hash; what a hash stands for never changes,  *)
(* so an object is its hash.  The LRU order is left open: any resident     *)
(* object may be the least recently used one.                              *)
(***************************************************************************)
EXTENDS Integers, Sequences, FiniteSets, FiniteSetsExt

CONSTANTS
  Clients,     \* threads that use the cache: decode workers
  IoWorkers,   \* threads of Caches::pool
  Offsets,     \* offsets of the pack's objects
  Hashes,      \* their names
  HashAt,      \* the name of the object at each offset
  Size,        \* entry_size of each object
  MaxSize,     \* Caches::mem_size
  MaxSpill,    \* jobs the I/O pool may have queued (2000) before an eviction waits
  Disks,       \* "good": files can be written and read; "bad": either may fail
  MaxGets,     \* bound on the lookups
  MaxDecodes,  \* how often the Pack is used
  None         \* no thread, object or offset

ASSUME CachesAssumption ==
  /\ HashAt \in [Offsets -> Hashes]
  /\ Size \in [Hashes -> Nat]
  /\ MaxSize \in Nat /\ MaxSpill \in Nat /\ MaxGets \in Nat /\ MaxDecodes \in Nat
  /\ Disks \subseteq {"good", "bad"}
  /\ None \notin Clients /\ None \notin Hashes /\ None \notin Offsets

VARIABLES
  disk,             \* how the temporary directory behaves
  decodes,          \* decodes this cache has served, the current one included
  todo,             \* offsets not inserted yet in this decode
  gets,             \* lookups left
  phase,            \* "open", "closing" (shutdown), "closed", "dropped" (Pack::drop)
  mapOffset,        \* keys of Caches::map_offset
  hashSet,          \* Caches::hash_set
  residentHashSet,  \* Caches::resident_hash_set
  lru,              \* keys of Caches::lru_cache
  lock,             \* the thread that holds its mutex
  pc, offset, key,  \* where each client is, and with what
  dropping,         \* the object whose ArcWrapper a client is dropping
  expected,         \* the client's lookup began after an insert of its key ended
  spill,            \* jobs queued in Caches::pool
  saving,           \* the object each I/O worker is saving
  files,            \* objects with a spill file
  completeSignal    \* Caches::complete_signal

callVars == <<disk, decodes, todo, gets, phase>>
indexVars == <<mapOffset, hashSet>>
clientVars == <<pc, offset, key, dropping, expected>>
ioVars == <<spill, saving, files, completeSignal>>
vars == <<callVars, indexVars, residentHashSet, lru, lock, clientVars, ioVars>>

Init ==
  /\ disk \in Disks
  /\ decodes = 1
  /\ todo = Offsets
  /\ gets = MaxGets
  /\ phase = "open"
  /\ mapOffset = {}
  /\ hashSet = {}
  /\ residentHashSet = {}
  /\ lru = {}
  /\ lock = None
  /\ pc = [t \in Clients |-> "idle"]
  /\ offset = [t \in Clients |-> None]
  /\ key = [t \in Clients |-> None]
  /\ dropping = [t \in Clients |-> None]
  /\ expected = [t \in Clients |-> FALSE]
  /\ spill = <<>>
  /\ saving = [w \in IoWorkers |-> None]
  /\ files = {}
  /\ completeSignal = FALSE

Goto(t, p) == pc' = [pc EXCEPT ![t] = p]

\* The mutex of lru_cache.
Acquire(t) == lock = None /\ lock' = t
Release == lock' = None

\* The operation is over.
Finish(t) ==
  /\ Goto(t, "idle")
  /\ offset' = [offset EXCEPT ![t] = None]
  /\ key' = [key EXCEPT ![t] = None]
  /\ expected' = [expected EXCEPT ![t] = FALSE]

-----------------------------------------------------------------------------
(* Caches::insert, get_by_offset, get_by_hash                              *)

\* insert: the decoder puts the object of each offset into the cache once.
Insert(t, o) ==
  /\ pc[t] = "idle" /\ phase = "open"
  /\ o \in todo
  /\ todo' = todo \ {o}
  /\ offset' = [offset EXCEPT ![t] = o]
  /\ key' = [key EXCEPT ![t] = HashAt[o]]
  /\ Goto(t, "lock")
  /\ UNCHANGED <<disk, decodes, gets, phase, indexVars, residentHashSet, lru, lock, dropping,
                 expected, ioVars>>

\* Objects whose insert has returned.
Inserted == {HashAt[o] : o \in mapOffset}

BeginGet(t, h, inserted) ==
  /\ pc[t] = "idle" /\ phase = "open"
  /\ gets > 0
  /\ gets' = gets - 1
  /\ key' = [key EXCEPT ![t] = h]
  /\ expected' = [expected EXCEPT ![t] = inserted]
  /\ UNCHANGED <<disk, decodes, todo, phase, indexVars, residentHashSet, lru, lock, offset,
                 dropping, ioVars>>

\* get_by_offset copies the hash out of map_offset and goes on as get_by_hash.
GetByOffset(t, o) ==
  /\ BeginGet(t, HashAt[o], o \in mapOffset)
  /\ Goto(t, IF o \in mapOffset THEN "contains" ELSE "miss")

GetByHash(t, h) ==
  /\ BeginGet(t, h, h \in Inserted)
  /\ Goto(t, "contains")

\* hash_set.contains, then resident_hash_set.contains.
Contains(t) ==
  /\ pc[t] = "contains"
  /\ Goto(t, IF key[t] \in hashSet THEN "resident" ELSE "miss")
  /\ UNCHANGED <<callVars, indexVars, residentHashSet, lru, lock, offset, key, dropping, expected,
                 ioVars>>

Resident(t) ==
  /\ pc[t] = "resident"
  /\ Goto(t, IF key[t] \in residentHashSet THEN "try_get" ELSE "fallback")
  /\ UNCHANGED <<callVars, indexVars, residentHashSet, lru, lock, offset, key, dropping, expected,
                 ioVars>>

\* try_get takes and releases the mutex.
TryGet(t) ==
  /\ pc[t] = "try_get"
  /\ lock = None
  /\ Goto(t, IF key[t] \in lru THEN "hit" ELSE "fallback")
  /\ UNCHANGED <<callVars, indexVars, residentHashSet, lru, lock, offset, key, dropping, expected,
                 ioVars>>

\* get_fallback: read the spill file, sleeping for as long as there is none.
Load(t) ==
  /\ pc[t] = "fallback"
  /\ key[t] \in files
  /\ Goto(t, "lock")
  /\ UNCHANGED <<callVars, indexVars, residentHashSet, lru, lock, offset, key, dropping, expected,
                 ioVars>>

Sleep(t) ==
  /\ pc[t] = "fallback"
  /\ key[t] \notin files
  /\ UNCHANGED vars

\* Another error than NotFound is answered with None.
LoadFails(t) ==
  /\ pc[t] = "fallback"
  /\ key[t] \in files /\ disk = "bad"
  /\ Goto(t, "miss")
  /\ UNCHANGED <<callVars, indexVars, residentHashSet, lru, lock, offset, key, dropping, expected,
                 ioVars>>

-----------------------------------------------------------------------------
(* insert_lru_resident, with the mutex held; offset[t] tells an insert     *)
(* from a lookup that loaded a file.                                       *)

Fits(h) == Size[h] <= MaxSize
Used == MapThenSumSet(LAMBDA h : Size[h], lru)

Lock(t) ==
  /\ pc[t] = "lock"
  /\ Acquire(t)
  /\ Goto(t, "make_room")
  /\ UNCHANGED <<callVars, indexVars, residentHashSet, lru, offset, key, dropping, expected,
                 ioVars>>

\* remove_lru, and the evicted object leaves resident_hash_set before its
\* ArcWrapper is dropped.
NeedsRoom(t) == Fits(key[t]) /\ Used + Size[key[t]] > MaxSize /\ lru # {}

Evict(t) ==
  /\ pc[t] = "make_room"
  /\ NeedsRoom(t)
  /\ \E h \in lru : /\ lru' = lru \ {h}
                    /\ residentHashSet' = residentHashSet \ {h}
                    /\ dropping' = [dropping EXCEPT ![t] = h]
  /\ Goto(t, "drop_evicted")
  /\ UNCHANGED <<callVars, indexVars, lock, offset, key, expected, ioVars>>

\* lru_cache.insert: an object that does not fit comes back and is dropped, and
\* so is the ArcWrapper the same object already had.
Put(t) ==
  /\ pc[t] = "make_room"
  /\ ~NeedsRoom(t)
  /\ lru' = IF Fits(key[t]) THEN lru \union {key[t]} ELSE lru
  /\ IF ~Fits(key[t]) \/ key[t] \in lru
       THEN dropping' = [dropping EXCEPT ![t] = key[t]] /\ Goto(t, "drop_displaced")
       ELSE UNCHANGED dropping /\ Goto(t, "mark")
  /\ UNCHANGED <<callVars, indexVars, residentHashSet, lock, offset, key, expected, ioVars>>

\* Fault: evictions do not wait for the I/O pool.
Drop_NoWait(t) ==
  /\ pc[t] \in {"drop_evicted", "drop_displaced"}
  /\ spill' = IF completeSignal THEN spill ELSE Append(spill, dropping[t])
  /\ dropping' = [dropping EXCEPT ![t] = None]
  /\ Goto(t, IF pc[t] = "drop_evicted" THEN "make_room" ELSE "mark")
  /\ UNCHANGED <<callVars, indexVars, residentHashSet, lru, lock, offset, key, expected, saving,
                 files, completeSignal>>

\* Fault: the wrapper is emptied before the job is built.
Drop_Emptied(t) ==
  /\ pc[t] \in {"drop_evicted", "drop_displaced"}
  /\ completeSignal \/ Len(spill) <= MaxSpill
  /\ spill' = IF completeSignal THEN spill ELSE Append(spill, None)
  /\ dropping' = [dropping EXCEPT ![t] = None]
  /\ Goto(t, IF pc[t] = "drop_evicted" THEN "make_room" ELSE "mark")
  /\ UNCHANGED <<callVars, indexVars, residentHashSet, lru, lock, offset, key, expected, saving,
                 files, completeSignal>>

\* Fault: only an eviction saves the object.
Drop_EvictedOnly(t) ==
  /\ pc[t] \in {"drop_evicted", "drop_displaced"}
  /\ completeSignal \/ Len(spill) <= MaxSpill
  /\ spill' = IF completeSignal \/ pc[t] = "drop_displaced" THEN spill
              ELSE Append(spill, dropping[t])
  /\ dropping' = [dropping EXCEPT ![t] = None]
  /\ Goto(t, IF pc[t] = "drop_evicted" THEN "make_room" ELSE "mark")
  /\ UNCHANGED <<callVars, indexVars, residentHashSet, lru, lock, offset, key, expected, saving,
                 files, completeSignal>>

\* ArcWrapper::drop: unless the cache is complete, wait for room in the I/O
\* pool's queue and have the object saved.
Drop(t) ==
  /\ pc[t] \in {"drop_evicted", "drop_displaced"}
  /\ completeSignal \/ Len(spill) <= MaxSpill
  /\ spill' = IF completeSignal THEN spill ELSE Append(spill, dropping[t])
  /\ dropping' = [dropping EXCEPT ![t] = None]
  /\ Goto(t, IF pc[t] = "drop_evicted" THEN "make_room" ELSE "mark")
  /\ UNCHANGED <<callVars, indexVars, residentHashSet, lru, lock, offset, key, expected, saving,
                 files, completeSignal>>

\* Fault: an object that does not fit is marked resident.
Mark_Always(t) ==
  /\ pc[t] = "mark"
  /\ residentHashSet' = residentHashSet \union {key[t]}
  /\ Release
  /\ Goto(t, IF offset[t] = None THEN "hit" ELSE "hash_set")
  /\ UNCHANGED <<callVars, indexVars, lru, offset, key, dropping, expected, ioVars>>

\* Fault: the offset is shown and hash_set forgotten.
Mark_NoHash(t) ==
  /\ pc[t] = "mark"
  /\ residentHashSet' = IF Fits(key[t]) THEN residentHashSet \union {key[t]}
                        ELSE residentHashSet \ {key[t]}
  /\ Release
  /\ Goto(t, IF offset[t] = None THEN "hit" ELSE "map_offset")
  /\ UNCHANGED <<callVars, indexVars, lru, offset, key, dropping, expected, ioVars>>

\* The outcome is recorded in resident_hash_set, and the mutex released.
Mark(t) ==
  /\ pc[t] = "mark"
  /\ residentHashSet' = IF Fits(key[t]) THEN residentHashSet \union {key[t]}
                        ELSE residentHashSet \ {key[t]}
  /\ Release
  /\ Goto(t, IF offset[t] = None THEN "hit" ELSE "hash_set")
  /\ UNCHANGED <<callVars, indexVars, lru, offset, key, dropping, expected, ioVars>>

-----------------------------------------------------------------------------
\* The index is written after the object can be found: hash_set, map_offset.
AddHash(t) ==
  /\ pc[t] = "hash_set"
  /\ hashSet' = hashSet \union {key[t]}
  /\ Goto(t, "map_offset")
  /\ UNCHANGED <<callVars, mapOffset, residentHashSet, lru, lock, offset, key, dropping, expected,
                 ioVars>>

AddOffset(t) ==
  /\ pc[t] = "map_offset"
  /\ mapOffset' = mapOffset \union {offset[t]}
  /\ Finish(t)
  /\ UNCHANGED <<callVars, hashSet, residentHashSet, lru, lock, dropping, ioVars>>

\* A lookup returns its answer.
Answer(t) ==
  /\ pc[t] \in {"hit", "miss"}
  /\ Finish(t)
  /\ UNCHANGED <<callVars, indexVars, residentHashSet, lru, lock, dropping, ioVars>>

-----------------------------------------------------------------------------
(* The I/O pool.                                                           *)

\* Fault: the test of complete_signal is inverted.
StartSave_Inverted(w) ==
  /\ saving[w] = None
  /\ spill # <<>>
  /\ spill' = Tail(spill)
  /\ saving' = [saving EXCEPT ![w] = IF completeSignal THEN Head(spill) ELSE None]
  /\ UNCHANGED <<callVars, indexVars, residentHashSet, lru, lock, clientVars, files,
                 completeSignal>>

\* Fault: after complete_signal no job is taken off the queue.
StartSave_Stops(w) ==
  /\ saving[w] = None
  /\ spill # <<>>
  /\ ~completeSignal
  /\ spill' = Tail(spill)
  /\ saving' = [saving EXCEPT ![w] = Head(spill)]
  /\ UNCHANGED <<callVars, indexVars, residentHashSet, lru, lock, clientVars, files,
                 completeSignal>>

\* A job looks at complete_signal first.
StartSave(w) ==
  /\ saving[w] = None
  /\ spill # <<>>
  /\ spill' = Tail(spill)
  /\ saving' = [saving EXCEPT ![w] = IF completeSignal THEN None ELSE Head(spill)]
  /\ UNCHANGED <<callVars, indexVars, residentHashSet, lru, lock, clientVars, files,
                 completeSignal>>

\* f_save, write_bytes_atomically: an existing file is left alone.
Save(w) ==
  /\ saving[w] # None
  /\ files' = files \union {saving[w]}
  /\ saving' = [saving EXCEPT ![w] = None]
  /\ UNCHANGED <<callVars, indexVars, residentHashSet, lru, lock, clientVars, spill,
                 completeSignal>>

\* A failed save is printed and forgotten.
SaveFails(w) ==
  /\ saving[w] # None
  /\ disk = "bad" /\ saving[w] \notin files
  /\ saving' = [saving EXCEPT ![w] = None]
  /\ UNCHANGED <<callVars, indexVars, residentHashSet, lru, lock, clientVars, spill, files,
                 completeSignal>>

-----------------------------------------------------------------------------
(* The end of a decode, and of the Pack.                                   *)

\* shutdown: the decoder's pool has been joined, whether or not all objects were
\* inserted (an error may have ended the decode).
Shutdown ==
  /\ phase = "open"
  /\ \A t \in Clients : pc[t] = "idle"
  /\ completeSignal' = TRUE
  /\ phase' = "closing"
  /\ UNCHANGED <<disk, decodes, todo, gets, indexVars, residentHashSet, lru, lock, clientVars,
                 spill, saving, files>>

IoIdle == spill = <<>> /\ \A w \in IoWorkers : saving[w] = None

\* Fault: shutdown does not join the I/O pool.
Clear_NoJoin ==
  /\ phase = "closing"
  /\ mapOffset' = {} /\ hashSet' = {} /\ residentHashSet' = {} /\ lru' = {}
  /\ phase' = "closed"
  /\ UNCHANGED <<disk, decodes, todo, gets, lock, clientVars, ioVars>>

\* pool.join(), and everything is cleared; complete_signal keeps the ArcWrappers
\* from saving themselves.
Clear ==
  /\ phase = "closing"
  /\ IoIdle
  /\ mapOffset' = {} /\ hashSet' = {} /\ residentHashSet' = {} /\ lru' = {}
  /\ phase' = "closed"
  /\ UNCHANGED <<disk, decodes, todo, gets, lock, clientVars, ioVars>>

\* The same Pack decodes again; nothing resets complete_signal.
Reuse ==
  /\ phase = "closed"
  /\ decodes < MaxDecodes
  /\ decodes' = decodes + 1
  /\ todo' = Offsets
  /\ phase' = "open"
  /\ UNCHANGED <<disk, gets, indexVars, residentHashSet, lru, lock, clientVars, ioVars>>

\* Pack::drop: remove_tmp_dir.
RemoveTmpDir ==
  /\ phase = "closed"
  /\ files' = {}
  /\ phase' = "dropped"
  /\ UNCHANGED <<disk, decodes, todo, gets, indexVars, residentHashSet, lru, lock, clientVars,
                 spill, saving, completeSignal>>

Dropped == phase = "dropped" /\ UNCHANGED vars

-----------------------------------------------------------------------------
Begin(t) ==
  \/ \E o \in Offsets : Insert(t, o) \/ GetByOffset(t, o)
  \/ \E h \in Hashes : GetByHash(t, h)

\* A step inside an operation of the cache.
ClientStep(t) ==
  \/ Contains(t) \/ Resident(t) \/ TryGet(t) \/ Load(t) \/ LoadFails(t)
  \/ Lock(t) \/ Evict(t) \/ Put(t) \/ Drop(t) \/ Mark(t)
  \/ AddHash(t) \/ AddOffset(t) \/ Answer(t)

IoStep(w) == StartSave(w) \/ Save(w) \/ SaveFails(w)

Next ==
  \/ \E t \in Clients : Begin(t) \/ ClientStep(t) \/ Sleep(t)
  \/ \E w \in IoWorkers : IoStep(w)
  \/ Shutdown \/ Clear \/ Reuse \/ RemoveTmpDir \/ Dropped

\* Threads that can run are scheduled; nobody is obliged to use the cache.
Fairness ==
  /\ \A t \in Clients : WF_vars(ClientStep(t))
  /\ \A w \in IoWorkers : WF_vars(IoStep(w))
  /\ WF_vars(Clear)

Spec == Init /\ [][Next]_vars
FairSpec == Spec /\ Fairness

-----------------------------------------------------------------------------
Locked == {"make_room", "drop_evicted", "drop_displaced", "mark"}
Pcs == Locked \union {"idle", "contains", "resident", "try_get", "fallback", "lock", "hash_set",
                      "map_offset", "hit", "miss"}

\* Types of the cache's state.
TypeOK ==
  /\ disk \in Disks
  /\ decodes \in Nat /\ gets \in Nat
  /\ todo \subseteq Offsets
  /\ phase \in {"open", "closing", "closed", "dropped"}
  /\ mapOffset \subseteq Offsets
  /\ hashSet \subseteq Hashes /\ residentHashSet \subseteq Hashes
  /\ lru \subseteq Hashes /\ files \subseteq Hashes
  /\ lock \in Clients \union {None}
  /\ pc \in [Clients -> Pcs]
  /\ offset \in [Clients -> Offsets \union {None}]
  /\ key \in [Clients -> Hashes \union {None}]
  /\ dropping \in [Clients -> Hashes \union {None}]
  /\ expected \in [Clients -> BOOLEAN]
  /\ spill \in Seq(Hashes)
  /\ saving \in [IoWorkers -> Hashes \union {None}]
  /\ completeSignal \in BOOLEAN

\* An object on its way to its spill file.
BeingSaved(h) ==
  \/ \E t \in Clients : dropping[t] = h
  \/ \E i \in 1..Len(spill) : spill[i] = h
  \/ \E w \in IoWorkers : saving[w] = h

\* Until shutdown, on a disk that works, the cache never loses an object: what
\* hash_set names is in memory, on disk or being written (insert_lru_resident,
\* ArcWrapper::drop).  It is what get_fallback's waiting loop relies on.
Retrievable ==
  disk = "good" /\ ~completeSignal =>
    \A h \in hashSet : h \in lru \/ h \in files \/ BeingSaved(h)

\* "The file must be written / be writing before, so it won't be dead lock": a
\* lookup only waits for a file that is there or is going to be (get_fallback).
FileComing == \A t \in Clients : pc[t] = "fallback" => key[t] \in files \/ BeingSaved(key[t])

\* A lookup that begins after the object's insert has returned finds it (on a
\* disk that works): insert makes the object resident before it shows its offset.
LookupFinds == disk = "good" => \A t \in Clients : pc[t] = "miss" => ~expected[t]

\* resident_hash_set, read without the mutex, agrees with the LRU map whenever
\* the mutex is free.
ResidentAgrees == lock = None => residentHashSet = lru

\* The LRU map stays within mem_size and the I/O pool's queue within its limit.
WithinLimits == Used <= MaxSize /\ Len(spill) <= MaxSpill + 1

\* Once the temporary directory has been removed no file appears in it any more:
\* shutdown waits for the I/O pool.
TmpDirGone == phase = "dropped" => files = {} /\ IoIdle

\* A lookup that waits for a spill file gets it (get_fallback's loop ends).
FallbackReturns ==
  \A t \in Clients :
    (pc[t] = "fallback" /\ disk = "good" /\ ~completeSignal) ~> pc[t] # "fallback"

\* shutdown ends: the I/O pool runs dry whatever the disk does.
ShutdownEnds == (phase = "closing") ~> (phase # "closing")
=============================================================================
