----------------------------- MODULE PackDecode -----------------------------
(***************************************************************************)
(* One call of Pack::decode_inner (src/internal/pack/decode.rs): the       *)
(* reading thread, the worker pool, the waitlist of deltas whose base has  *)
(* not been decoded yet, the object caches and the retention counters.     *)
(*                                                                         *)
(* An object of the pack is named by its position 1..pack.n, which also    *)
(* stands for its byte offset; 0 is an offset at which no object starts.   *)
(* A name (hash) is a number too.  The maps of the code that are keyed by  *)
(* an offset and their twins keyed by a hash are one function on Keys.     *)
(***************************************************************************)
EXTENDS Integers, Sequences, FiniteSets

CONSTANTS
  MaxObjects,   \* bound on the objects of a pack, and on names
  Workers,      \* the threads a Pack::pool may have
  Main,         \* the thread that called decode
  MaxQueued,    \* MAX_QUEUED_DECODE_TASKS
  Calls         \* what a run decodes: pairs of a pack layout and options

Kinds == {"base", "ofs", "ref"}
Objects == 1..MaxObjects
Names == 1..MaxObjects
NoObject == 0
Threads == Workers \union {Main}
Keys == {"ofs", "ref"} \X (0..MaxObjects)

\* kind[o] and base[o] are the header of entry o; hash[o] is the name of the
\* object it decodes to.  `header` says that the pack's header is accepted.
\* Reading an entry of `unreadable` fails; applying a delta of `corrupt` to its
\* base fails; `trailer` says that the checksum, the idx hash and the end of the
\* stream are as they should be.
Layout ==
  {p \in [n : 0..MaxObjects, kind : [Objects -> Kinds],
          base : [Objects -> 0..MaxObjects], hash : [Objects -> Names],
          unreadable : SUBSET Objects, corrupt : SUBSET Objects,
          header : BOOLEAN, trailer : BOOLEAN] :
     \A o \in Objects : p.kind[o] = "ofs" => p.base[o] <= o}

\* retention: a dependency scan built a DecodeRetention.  skip: unneeded objects
\* are skipped (DecodeRetentionMode).  known: an idx supplied the names.
\* callback: the caller wants every object.  sync: sync_base_callbacks.
\* unbounded: Caches without a limit.  For bounded caches, in cells of their two
\* index maps: limit, which is Pack::mem_limit, and size, what one object weighs;
\* lru: how many objects the LRU cache may keep.
\* pool: the workers Pack::new started.
Options ==
  [retention : BOOLEAN, skip : BOOLEAN, known : BOOLEAN, callback : BOOLEAN, sync : BOOLEAN,
   unbounded : BOOLEAN, limit : Nat, size : Nat, lru : Nat, pool : (SUBSET Workers) \ {{}}]

\* The options the entry points build: Pack::decode and decode_without_callback;
\* decode_file, decode_file_full_without_callback, decode_file_without_callback
\* (`idx`: the pack has one, and its names are used).
DecodeStream(pool, wanted) ==
  [retention |-> FALSE, skip |-> FALSE, known |-> FALSE, callback |-> wanted, sync |-> FALSE,
   unbounded |-> TRUE, limit |-> 0, size |-> 0, lru |-> 0, pool |-> pool]
DecodeFile(pool, wanted, idx) ==
  [DecodeStream(pool, wanted) EXCEPT !.retention = TRUE, !.known = idx, !.sync = TRUE]
VerifyFile(pool, idx) == [DecodeFile(pool, FALSE, idx) EXCEPT !.skip = TRUE]

\* Pack::new with a limit whose four fifths stay below the threshold (1 GiB)
\* bounds the caches; with a larger one they are unbounded, and one worker runs.
WithLimit(options, limit, size, lru) ==
  [options EXCEPT !.unbounded = FALSE, !.limit = limit, !.size = size, !.lru = lru]

ASSUME ConstantsAssumption ==
  /\ MaxObjects \in Nat
  /\ MaxQueued \in Nat
  /\ IsFiniteSet(Workers)
  /\ Main \notin Workers
  /\ Calls \subseteq Layout \X Options

VARIABLES
  pack,       \* the pack being decoded
  opts,       \* how it is decoded
  next,       \* the loop counter i of decode_inner
  queue,      \* jobs submitted to Pack::pool and not started
  pc,         \* where each thread is
  obj,        \* the entry each thread works on
  base,       \* the Arc to a base each thread holds
  taken,      \* deltas a thread has taken off the waitlist
  waitlist,   \* Waitlist::map_offset and map_ref
  index,      \* keys of the offset map and of the hash set of Caches
  stored,     \* per name, the decoded objects Caches can hand out
  remaining,  \* DecodeRetention's counters
  held,       \* the keys present in them
  emitted,    \* how often each object reached its callback
  skipped,    \* objects hashed and dropped without being decoded
  error,      \* SharedParams::error is set
  idSent,     \* pack_id_callback was invoked
  result      \* what decode_inner returned

callVars == <<pack, opts>>
cacheVars == <<index, stored>>
retentionVars == <<remaining, held>>
threadVars == <<pc, obj, base, taken>>
outVars == <<emitted, skipped, error, idSent, result>>
vars == <<callVars, next, queue, threadVars, waitlist, cacheVars, retentionVars, outVars>>

Retention == opts.retention
Unbounded == opts.unbounded

InPack == 1..pack.n
OffsetKey(o) == <<"ofs", o>>
HashKey(o) == <<"ref", pack.hash[o]>>
IsDelta(o) == pack.kind[o] # "base"
DeltaKey(d) == <<pack.kind[d], pack.base[d]>>
Job(op, o, b) == [op |-> op, obj |-> o, base |-> b]
Jobs == [op : {"dependency", "cache", "rebuild"}, obj : Objects, base : 0..MaxObjects]

\* The name under which a key's object is stored.
NameOf(k) == IF k[1] = "ref" THEN k[2] ELSE pack.hash[k[2]]

\* Fault: should_retain forgets the counters of ref deltas.
ShouldRetain_OffsetOnly(o) == OffsetKey(o) \in held

\* DecodeRetention::should_retain
ShouldRetain(o) == OffsetKey(o) \in held \/ HashKey(o) \in held

\* Waitlist::has_waiters
HasWaiters(o) == waitlist[OffsetKey(o)] # <<>> \/ waitlist[HashKey(o)] # <<>>

\* What counts against mem_limit: entries in the pool, in a thread's hands or on
\* the waitlist, what the LRU cache keeps (it evicts above opts.lru), and the
\* cells of the index maps, which are not given back before the call is over.
Holding == {"find", "fetch", "wait", "rebuild", "cache", "insert_lru",
            "drop_offset", "drop_hash", "emit"}
LiveEntries ==
  {o \in InPack : \/ \E i \in 1..Len(queue) : queue[i].obj = o
                  \/ \E t \in Workers : pc[t] \in Holding /\ obj[t] = o
                  \/ \E t \in Threads : \E i \in 1..Len(taken[t]) : taken[t][i] = o
                  \/ \E k \in Keys : \E i \in 1..Len(waitlist[k]) : waitlist[k][i] = o}
Cached == UNION {stored[h] : h \in Names}
\* Fault: nothing is ever evicted.
LruUsed_NoEviction == Cardinality(Cached)
LruUsed == IF Cardinality(Cached) < opts.lru THEN Cardinality(Cached) ELSE opts.lru
MemoryUsedIndex == Cardinality(index)
MemUsed == opts.size * (Cardinality(LiveEntries) + LruUsed) + MemoryUsedIndex

\* The counters the dependency scan leaves behind: one per delta and base key.
Dependents(p, k) ==
  {d \in 1..p.n : p.kind[d] # "base" /\ <<p.kind[d], p.base[d]>> = k}
ScanRetention ==
  [k \in Keys |-> IF Retention THEN Cardinality(Dependents(pack, k)) ELSE 0]

Init ==
  /\ \E c \in Calls : pack = c[1] /\ opts = c[2]
  /\ next = 1
  /\ queue = <<>>
  /\ pc = [t \in Threads |-> IF t = Main THEN "header" ELSE "idle"]
  /\ obj = [t \in Threads |-> NoObject]
  /\ base = [t \in Threads |-> NoObject]
  /\ taken = [t \in Threads |-> <<>>]
  /\ waitlist = [k \in Keys |-> <<>>]
  /\ index = {}
  /\ stored = [h \in Names |-> {}]
  /\ remaining = ScanRetention
  /\ held = {k \in Keys : ScanRetention[k] > 0}
  /\ emitted = [o \in Objects |-> 0]
  /\ skipped = {}
  /\ error = FALSE
  /\ idSent = FALSE
  /\ result = "running"

Goto(t, p) == pc' = [pc EXCEPT ![t] = p]

\* The function a thread was running returns: a worker waits for its next job,
\* the main thread goes on with the next entry of the pack.
Done(t) ==
  /\ Goto(t, IF t = Main THEN "read" ELSE "idle")
  /\ obj' = [obj EXCEPT ![t] = NoObject]
  /\ base' = [base EXCEPT ![t] = NoObject]
  /\ taken' = [taken EXCEPT ![t] = <<>>]

-----------------------------------------------------------------------------
(* The reading thread: the loop of decode_inner.                           *)

\* check_header; on an error decode_inner returns before anything was started.
ReadHeader ==
  /\ pc[Main] = "header"
  /\ pack.header
  /\ Goto(Main, "read")
  /\ UNCHANGED <<callVars, next, queue, obj, base, taken, waitlist, cacheVars, retentionVars,
                 outVars>>

RejectHeader ==
  /\ pc[Main] = "header"
  /\ ~pack.header
  /\ result' = "invalid"
  /\ Goto(Main, "returned")
  /\ UNCHANGED <<callVars, next, queue, obj, base, taken, waitlist, cacheVars, retentionVars,
                 emitted, skipped, error, idSent>>

\* Too much is queued or in memory to read another entry.
Backpressure == Len(queue) > MaxQueued \/ (~Unbounded /\ MemUsed > opts.limit)

\* The loop that waits for it to go away yields and looks again.
Spin ==
  /\ pc[Main] = "read"
  /\ next <= pack.n
  /\ Backpressure
  /\ UNCHANGED vars

MayRead ==
  /\ pc[Main] = "read"
  /\ next <= pack.n
  /\ ~Backpressure

\* should_skip_no_callback_object
MaySkip(o) ==
  pack.kind[o] = "base" /\ opts.skip /\ opts.known /\ Retention /\ ~ShouldRetain(o)

\* decode_pack_object_with_crc (or an idx offset that disagrees) fails.
ReadFails ==
  /\ MayRead
  /\ next \in pack.unreadable
  /\ Goto(Main, "abort")
  /\ UNCHANGED <<callVars, next, queue, obj, base, taken, waitlist, cacheVars, retentionVars,
                 outVars>>

\* The entry is streamed through the hasher and dropped: Ok(None).
SkipEntry ==
  /\ MayRead
  /\ next \notin pack.unreadable
  /\ MaySkip(next)
  /\ skipped' = skipped \union {next}
  /\ next' = next + 1
  /\ UNCHANGED <<callVars, queue, threadVars, waitlist, cacheVars, retentionVars,
                 emitted, error, idSent, result>>

ReadEntry ==
  /\ MayRead
  /\ next \notin pack.unreadable
  /\ ~MaySkip(next)
  /\ obj' = [obj EXCEPT ![Main] = next]
  /\ next' = next + 1
  /\ Goto(Main, "dispatch")
  /\ UNCHANGED <<callVars, queue, base, taken, waitlist, cacheVars, retentionVars, outVars>>

\* should_drop_no_callback_base
MayDrop(o) ==
  ~IsDelta(o) /\ ~opts.callback /\ Retention /\ ~ShouldRetain(o) /\ ~HasWaiters(o)

DropBase ==
  /\ pc[Main] = "dispatch"
  /\ MayDrop(obj[Main])
  /\ skipped' = skipped \union {obj[Main]}
  /\ Done(Main)
  /\ UNCHANGED <<callVars, next, queue, waitlist, cacheVars, retentionVars,
                 emitted, error, idSent, result>>

CacheInline(o) == ~IsDelta(o) /\ (~opts.callback \/ opts.sync)

\* A base handled on the reading thread itself.
CacheBase ==
  /\ pc[Main] = "dispatch"
  /\ ~MayDrop(obj[Main])
  /\ CacheInline(obj[Main])
  /\ Goto(Main, "cache")
  /\ UNCHANGED <<callVars, next, queue, obj, base, taken, waitlist, cacheVars, retentionVars,
                 outVars>>

\* Fault: the entry is taken out of the loop's hands before the job is built.
SubmitEntry_Emptied ==
  /\ pc[Main] = "dispatch"
  /\ ~MayDrop(obj[Main])
  /\ ~CacheInline(obj[Main])
  /\ queue' = Append(queue, Job("cache", NoObject, NoObject))
  /\ Done(Main)
  /\ UNCHANGED <<callVars, next, waitlist, cacheVars, retentionVars, outVars>>

\* Fault: deltas are cached like bases.
SubmitEntry_AsBase ==
  /\ pc[Main] = "dispatch"
  /\ ~MayDrop(obj[Main])
  /\ ~CacheInline(obj[Main])
  /\ queue' = Append(queue, Job("cache", obj[Main], NoObject))
  /\ Done(Main)
  /\ UNCHANGED <<callVars, next, waitlist, cacheVars, retentionVars, outVars>>

\* Everything else becomes a job of the pool.
SubmitEntry ==
  /\ pc[Main] = "dispatch"
  /\ ~MayDrop(obj[Main])
  /\ ~CacheInline(obj[Main])
  /\ queue' = Append(queue, Job(IF IsDelta(obj[Main]) THEN "dependency" ELSE "cache",
                                obj[Main], NoObject))
  /\ Done(Main)
  /\ UNCHANGED <<callVars, next, waitlist, cacheVars, retentionVars, outVars>>

\* All entries read: trailer hash, idx hash, stream hash and end of file.
ReadTrailer ==
  /\ pc[Main] = "read"
  /\ next > pack.n
  /\ Goto(Main, IF pack.trailer THEN "join" ELSE "abort")
  /\ UNCHANGED <<callVars, next, queue, obj, base, taken, waitlist, cacheVars, retentionVars,
                 outVars>>

-----------------------------------------------------------------------------
(* The pool, and process_delta_dependency: find the base or wait for it.   *)

StartJob(w) ==
  /\ w \in opts.pool
  /\ pc[w] = "idle"
  /\ queue # <<>>
  /\ LET job == Head(queue)
     IN  /\ Goto(w, CASE job.op = "dependency" -> "find"
                      [] job.op = "cache" -> "cache"
                      [] job.op = "rebuild" -> "rebuild")
         /\ obj' = [obj EXCEPT ![w] = job.obj]
         /\ base' = [base EXCEPT ![w] = job.base]
  /\ queue' = Tail(queue)
  /\ UNCHANGED <<callVars, next, taken, waitlist, cacheVars, retentionVars, outVars>>

KeyOf(t) == DeltaKey(obj[t])

\* First half of get_by_offset and get_by_hash: the key's entry in the index.
FindBase(t) ==
  /\ \/ pc[t] = "find"   /\ Goto(t, IF KeyOf(t) \in index THEN "fetch" ELSE "wait")
                         /\ UNCHANGED <<obj, base, taken>>
     \/ pc[t] = "refind" /\ KeyOf(t) \in index /\ Goto(t, "refetch")
                         /\ UNCHANGED <<obj, base, taken>>
     \/ pc[t] = "refind" /\ KeyOf(t) \notin index /\ Done(t)
  /\ UNCHANGED <<callVars, next, queue, waitlist, cacheVars, retentionVars, outVars>>

\* Second half: the object itself, from the LRU cache or its spill file.
FetchHit(t) ==
  /\ pc[t] = "fetch"
  /\ \E b \in stored[NameOf(KeyOf(t))] : base' = [base EXCEPT ![t] = b]
  /\ taken' = [taken EXCEPT ![t] = <<obj[t]>>]
  /\ Goto(t, IF Retention THEN "consume" ELSE "submit")
  /\ UNCHANGED <<callVars, next, queue, obj, waitlist, cacheVars, retentionVars, outVars>>

FetchMiss(t) ==
  /\ pc[t] = "fetch"
  /\ stored[NameOf(KeyOf(t))] = {}
  /\ Goto(t, "wait")
  /\ UNCHANGED <<callVars, next, queue, obj, base, taken, waitlist, cacheVars, retentionVars,
                 outVars>>

\* Fault: no second lookup.
Wait_NoRecheck(t) ==
  /\ pc[t] = "wait"
  /\ waitlist' = [waitlist EXCEPT ![KeyOf(t)] = Append(@, obj[t])]
  /\ Done(t)
  /\ UNCHANGED <<callVars, next, queue, cacheVars, retentionVars, outVars>>

\* Waitlist::insert_offset and insert_ref
Wait(t) ==
  /\ pc[t] = "wait"
  /\ waitlist' = [waitlist EXCEPT ![KeyOf(t)] = Append(@, obj[t])]
  /\ Goto(t, IF Retention THEN "consume" ELSE "refind")
  /\ UNCHANGED <<callVars, next, queue, obj, base, taken, cacheVars, retentionVars, outVars>>

\* The second lookup, after the delta has been put on the waitlist.
RefetchHit(t) ==
  /\ pc[t] = "refetch"
  /\ \E b \in stored[NameOf(KeyOf(t))] : base' = [base EXCEPT ![t] = b]
  /\ Goto(t, IF Retention THEN "release" ELSE "take_offset")
  /\ UNCHANGED <<callVars, next, queue, obj, taken, waitlist, cacheVars, retentionVars, outVars>>

RefetchMiss(t) ==
  /\ pc[t] = "refetch"
  /\ stored[NameOf(KeyOf(t))] = {}
  /\ Done(t)
  /\ UNCHANGED <<callVars, next, queue, waitlist, cacheVars, retentionVars, outVars>>

-----------------------------------------------------------------------------
(* DecodeRetention: consume a dependency, release a base nobody needs.     *)

\* A delta that found its base holds it (taken # <<>>) and goes on to release
\* it; one that has put itself on the waitlist looks the base up again.
AfterConsume(t) == IF taken[t] # <<>> THEN "release" ELSE "refind"

\* Fault: a counter that reaches zero stays in the map.
Consume_Keeps(t) ==
  /\ pc[t] = "consume"
  /\ LET k == KeyOf(t)
     IN  remaining' = IF k \in held THEN [remaining EXCEPT ![k] = @ - 1] ELSE remaining
  /\ Goto(t, AfterConsume(t))
  /\ UNCHANGED <<callVars, next, queue, obj, base, taken, waitlist, cacheVars, held, outVars>>

\* consume_offset_dependency, consume_hash_dependency: the count goes down
\* under the entry's guard; at zero the guard is dropped and only then the
\* key removed.
Consume(t) ==
  /\ pc[t] = "consume"
  /\ LET k == KeyOf(t)
     IN  /\ remaining' = IF k \in held THEN [remaining EXCEPT ![k] = @ - 1] ELSE remaining
         /\ Goto(t, IF k \in held /\ remaining[k] = 1 THEN "unhold" ELSE AfterConsume(t))
  /\ UNCHANGED <<callVars, next, queue, obj, base, taken, waitlist, cacheVars, held, outVars>>

Unhold(t) ==
  /\ pc[t] = "unhold"
  /\ held' = held \ {KeyOf(t)}
  /\ Goto(t, AfterConsume(t))
  /\ UNCHANGED <<callVars, next, queue, obj, base, taken, waitlist, cacheVars, remaining, outVars>>

\* A delta that holds its base submits its own rebuild; one that found the base
\* at the second lookup takes everything that waits for it.
AfterRelease(t) == IF taken[t] # <<>> THEN "submit" ELSE "take_offset"

\* maybe_remove_released_base; remove_unbounded does nothing to bounded caches.
MayRelease(b) == Unbounded /\ ~ShouldRetain(b)

Release(t) ==
  /\ pc[t] = "release"
  /\ Goto(t, IF MayRelease(base[t]) THEN "remove_lru" ELSE AfterRelease(t))
  /\ UNCHANGED <<callVars, next, queue, obj, base, taken, waitlist, cacheVars, retentionVars,
                 outVars>>

\* remove_unbounded, in its order: LRU cache, offset cache, hash cache.
RemoveBase(t) ==
  /\ \/ /\ pc[t] = "remove_lru"
        /\ stored' = [stored EXCEPT ![pack.hash[base[t]]] = {}]
        /\ Goto(t, "remove_offset")
        /\ UNCHANGED index
     \/ /\ pc[t] = "remove_offset"
        /\ index' = index \ {OffsetKey(base[t])}
        /\ Goto(t, "remove_hash")
        /\ UNCHANGED stored
     \/ /\ pc[t] = "remove_hash"
        /\ index' = index \ {HashKey(base[t])}
        /\ Goto(t, AfterRelease(t))
        /\ UNCHANGED stored
  /\ UNCHANGED <<callVars, next, queue, obj, base, taken, waitlist, retentionVars, outVars>>

-----------------------------------------------------------------------------
(* process_delta and cache_obj_and_process_waitlist.                       *)

RebuildFails(t) ==
  /\ pc[t] = "rebuild"
  /\ obj[t] \in pack.corrupt
  /\ error' = TRUE
  /\ Done(t)
  /\ UNCHANGED <<callVars, next, queue, waitlist, cacheVars, retentionVars,
                 emitted, skipped, idSent, result>>

Rebuild(t) ==
  /\ pc[t] = "rebuild"
  /\ obj[t] \notin pack.corrupt
  /\ Goto(t, "cache")
  /\ UNCHANGED <<callVars, next, queue, obj, base, taken, waitlist, cacheVars, retentionVars,
                 outVars>>

EmitObject(t) == emitted' = [emitted EXCEPT ![obj[t]] = @ + 1]

\* Whether the new object goes into the caches.
Keep(o) == Retention => ShouldRetain(o)

\* The object is handed to the callback, then put into the caches.
CacheKept(t) ==
  /\ pc[t] = "cache"
  /\ Keep(obj[t])
  /\ EmitObject(t)
  /\ base' = [base EXCEPT ![t] = obj[t]]
  /\ Goto(t, IF Unbounded THEN "insert_hash" ELSE "insert_lru")
  /\ UNCHANGED <<callVars, next, queue, obj, taken, waitlist, cacheVars, retentionVars,
                 skipped, error, idSent, result>>

\* No delta needs the object any more: it serves those that wait, if any.
CacheDropped(t) ==
  /\ pc[t] = "cache"
  /\ ~Keep(obj[t])
  /\ base' = [base EXCEPT ![t] = obj[t]]
  /\ Goto(t, "drop_offset")
  /\ UNCHANGED <<callVars, next, queue, obj, taken, waitlist, cacheVars, retentionVars, outVars>>

\* Caches::insert.  Unbounded: hash cache, offset cache, LRU cache.
\* Bounded: LRU cache, hash set, offset map.
InsertObject(t) ==
  /\ \/ /\ pc[t] = "insert_lru"
        /\ stored' = [stored EXCEPT ![pack.hash[obj[t]]] =
                        IF Unbounded THEN {obj[t]} ELSE @ \union {obj[t]}]
        /\ Goto(t, IF Unbounded THEN "take_offset" ELSE "insert_hash")
        /\ UNCHANGED index
     \/ /\ pc[t] = "insert_hash"
        /\ index' = index \union {HashKey(obj[t])}
        /\ Goto(t, "insert_offset")
        /\ UNCHANGED stored
     \/ /\ pc[t] = "insert_offset"
        /\ index' = index \union {OffsetKey(obj[t])}
        /\ Goto(t, IF Unbounded THEN "insert_lru" ELSE "take_offset")
        /\ UNCHANGED stored
  /\ UNCHANGED <<callVars, next, queue, obj, base, taken, waitlist, retentionVars, outVars>>

\* Fault: the list is read and not removed.
TakeFrom_Copy(t, k, p) ==
  /\ taken' = [taken EXCEPT ![t] = @ \o waitlist[k]]
  /\ UNCHANGED waitlist
  /\ Goto(t, p)

\* Waitlist::take removes the two lists one after the other.
TakeFrom(t, k, p) ==
  /\ taken' = [taken EXCEPT ![t] = @ \o waitlist[k]]
  /\ waitlist' = [waitlist EXCEPT ![k] = <<>>]
  /\ Goto(t, p)

TakeWaiters(t) ==
  /\ \/ pc[t] = "take_offset" /\ TakeFrom(t, OffsetKey(base[t]), "take_hash")
     \/ pc[t] = "take_hash"   /\ TakeFrom(t, HashKey(base[t]), "submit")
     \/ pc[t] = "drop_offset" /\ TakeFrom(t, OffsetKey(base[t]), "drop_hash")
     \/ pc[t] = "drop_hash"   /\ TakeFrom(t, HashKey(base[t]), "emit")
  /\ UNCHANGED <<callVars, next, queue, obj, base, cacheVars, retentionVars, outVars>>

EmitDropped(t) ==
  /\ pc[t] = "emit"
  /\ EmitObject(t)
  /\ Goto(t, "submit")
  /\ UNCHANGED <<callVars, next, queue, obj, base, taken, waitlist, cacheVars, retentionVars,
                 skipped, error, idSent, result>>

\* process_delta for each delta taken, with the base its thread holds.
SubmitRebuilds(t) ==
  /\ pc[t] = "submit"
  /\ queue' = queue \o [i \in 1..Len(taken[t]) |-> Job("rebuild", taken[t][i], base[t])]
  /\ Done(t)
  /\ UNCHANGED <<callVars, next, waitlist, cacheVars, retentionVars, outVars>>

-----------------------------------------------------------------------------
(* The end of decode_inner.                                                *)

PoolIdle == queue = <<>> /\ \A w \in Workers : pc[w] = "idle"
Waiting == {d \in InPack : \E k \in Keys : \E i \in 1..Len(waitlist[k]) : waitlist[k][i] = d}
TotalInserted ==
  Cardinality({k \in index : k[1] = IF Unbounded THEN "ofs" ELSE "ref"})

\* Caches::shutdown
ClearCaches ==
  /\ index' = {}
  /\ stored' = [h \in Names |-> {}]

\* Fault: the error a job left behind is not looked at.
JoinPool_NoError ==
  /\ pc[Main] = "join"
  /\ PoolIdle
  /\ idSent' = TRUE
  /\ result' = IF Waiting # {} THEN "unresolved" ELSE "ok"
  /\ ClearCaches
  /\ Goto(Main, "returned")
  /\ UNCHANGED <<callVars, next, queue, obj, base, taken, waitlist, retentionVars,
                 emitted, skipped, error>>

\* Fault: the waitlist is not looked at.
JoinPool_NoWaiters ==
  /\ pc[Main] = "join"
  /\ PoolIdle
  /\ idSent' = ~error
  /\ result' = IF error THEN "rebuild_failed" ELSE "ok"
  /\ ClearCaches
  /\ Goto(Main, "returned")
  /\ UNCHANGED <<callVars, next, queue, obj, base, taken, waitlist, retentionVars,
                 emitted, skipped, error>>

\* pool.join(), then the checks in their order; the pack id is sent before the
\* waitlist is looked at.
JoinPool ==
  /\ pc[Main] = "join"
  /\ PoolIdle
  /\ idSent' = ~error
  /\ result' = IF error THEN "rebuild_failed"
               ELSE IF Waiting # {} THEN "unresolved"
               ELSE IF pack.n < TotalInserted THEN "miscounted"
               ELSE "ok"
  /\ ClearCaches
  /\ Goto(Main, "returned")
  /\ UNCHANGED <<callVars, next, queue, obj, base, taken, waitlist, retentionVars,
                 emitted, skipped, error>>

\* Fault: an error returns without joining the pool.
Abort_NoJoin ==
  /\ pc[Main] = "abort"
  /\ result' = "invalid"
  /\ ClearCaches
  /\ Goto(Main, "returned")
  /\ UNCHANGED <<callVars, next, queue, obj, base, taken, waitlist, retentionVars,
                 emitted, skipped, error, idSent>>

\* abort_decode on an error of the reading thread.
Abort ==
  /\ pc[Main] = "abort"
  /\ PoolIdle
  /\ result' = "invalid"
  /\ ClearCaches
  /\ Goto(Main, "returned")
  /\ UNCHANGED <<callVars, next, queue, obj, base, taken, waitlist, retentionVars,
                 emitted, skipped, error, idSent>>

\* decode_inner has returned.
Returned == pc[Main] = "returned" /\ UNCHANGED vars

-----------------------------------------------------------------------------
MainStep ==
  \/ ReadHeader \/ RejectHeader \/ ReadFails \/ SkipEntry \/ ReadEntry
  \/ DropBase \/ CacheBase \/ SubmitEntry \/ ReadTrailer \/ JoinPool \/ Abort

\* Steps a worker takes, and the main thread too when it caches a base itself.
JobStep(t) ==
  \/ FindBase(t) \/ FetchHit(t) \/ FetchMiss(t) \/ Wait(t) \/ RefetchHit(t) \/ RefetchMiss(t)
  \/ Consume(t) \/ Unhold(t) \/ Release(t) \/ RemoveBase(t)
  \/ RebuildFails(t) \/ Rebuild(t) \/ CacheKept(t) \/ CacheDropped(t) \/ InsertObject(t)
  \/ TakeWaiters(t) \/ EmitDropped(t) \/ SubmitRebuilds(t)

Next ==
  \/ MainStep
  \/ \E w \in Workers : StartJob(w)
  \/ \E t \in Threads : JobStep(t)
  \/ Spin
  \/ Returned

\* The operating system schedules every thread that can run.
Fairness ==
  /\ WF_vars(MainStep \/ JobStep(Main))
  /\ \A w \in Workers : WF_vars(StartJob(w) \/ JobStep(w))

Spec == Init /\ [][Next]_vars
FairSpec == Spec /\ Fairness

-----------------------------------------------------------------------------
Pcs == {"idle", "header", "read", "dispatch", "join", "abort", "returned", "find", "fetch", "wait",
        "refind", "refetch", "consume", "unhold", "release", "remove_lru",
        "remove_offset", "remove_hash", "rebuild", "cache", "insert_lru", "insert_hash",
        "insert_offset", "take_offset", "take_hash", "drop_offset", "drop_hash", "emit",
        "submit"}
Results == {"running", "ok", "invalid", "rebuild_failed", "unresolved", "miscounted"}

\* Types of the decoder's state: what each map, queue and counter can hold.
TypeOK ==
  /\ <<pack, opts>> \in Calls
  /\ next \in 1..(MaxObjects + 1)
  /\ queue \in Seq(Jobs)
  /\ pc \in [Threads -> Pcs]
  /\ obj \in [Threads -> 0..MaxObjects]
  /\ base \in [Threads -> 0..MaxObjects]
  /\ taken \in [Threads -> Seq(Objects)]
  /\ waitlist \in [Keys -> Seq(Objects)]
  /\ index \subseteq Keys
  /\ stored \in [Names -> SUBSET Objects]
  /\ remaining \in [Keys -> Int]
  /\ held \subseteq Keys
  /\ emitted \in [Objects -> Nat]
  /\ skipped \subseteq Objects
  /\ error \in BOOLEAN
  /\ idSent \in BOOLEAN
  /\ result \in Results

\* Objects that match a delta's base key: the entry at that offset, or the
\* entries that decode to that name.
Matches(d) == {b \in InPack : OffsetKey(b) = DeltaKey(d) \/ HashKey(b) = DeltaKey(d)}

\* No lost wakeup: once the pool is idle and the reader is past the last entry,
\* no delta is left on the waitlist although its base was decoded.  This is what
\* looking the base up a second time after Waitlist::insert is there for
\* (process_delta_dependency), and what makes the final waitlist check mean
\* "the base never appeared".
NoLostWaiter ==
  (pc[Main] \in {"join", "abort", "returned"} /\ PoolIdle) =>
    \A d \in Waiting : \A b \in Matches(d) : emitted[b] = 0 /\ b \notin skipped

\* Every object reaches its callback at most once, and when decode_inner
\* returns Ok every object did, apart from those dropped because nothing
\* depends on them (cache_obj_and_process_waitlist).
EmittedOnce ==
  /\ \A o \in Objects : emitted[o] <= 1
  /\ result = "ok" => \A o \in InPack : emitted[o] = 1 \/ o \in skipped

\* A delta is only handed to the callback after its base was.
BaseBeforeDelta ==
  \A d \in InPack : IsDelta(d) /\ emitted[d] > 0 => \E b \in Matches(d) : emitted[b] > 0

\* The entries that can be resolved, by rounds: bases, then deltas on resolved
\* entries; a corrupt delta never becomes a base.
Resolved ==
  LET round[i \in 0..MaxObjects] ==
        IF i = 0 THEN {o \in InPack : ~IsDelta(o)}
        ELSE round[i - 1] \union
               {d \in InPack : IsDelta(d) /\ Matches(d) \intersect (round[i - 1] \ pack.corrupt) # {}}
  IN  round[MaxObjects]

\* The verdict depends on the pack alone, not on the schedule: an unreadable
\* entry or a bad trailer, else a delta that does not apply, else an unresolved
\* base, else Ok.
Verdict ==
  CASE ~pack.header \/ InPack \intersect pack.unreadable # {} \/ ~pack.trailer -> "invalid"
    [] \E d \in Resolved \intersect pack.corrupt : IsDelta(d) -> "rebuild_failed"
    [] Resolved # InPack -> "unresolved"
    [] OTHER -> "ok"
VerdictOfPack == result # "running" => result = Verdict

\* The usize counter of a dependency never underflows, and a counter at zero is
\* only seen by the thread about to remove its key (consume_*_dependency).
CountersExact ==
  /\ \A t \in Threads : pc[t] = "consume" /\ Retention => remaining[KeyOf(t)] >= 1
  /\ \A k \in held : remaining[k] = 0 => \E t \in Threads : pc[t] = "unhold" /\ KeyOf(t) = k

\* An object is dropped unseen only when nothing in the pack depends on it
\* (should_skip_no_callback_object, should_drop_no_callback_base).
SkippedUnneeded ==
  \A o \in skipped : ~\E d \in InPack : IsDelta(d) /\ o \in Matches(d)

\* After decode_inner has returned no worker calls the callback any more and
\* the verdict stands: every return path joins the pool first.
QuietAfterReturn ==
  [][result # "running" => UNCHANGED <<emitted, queue, waitlist, result>>]_vars

\* Decoding comes to an end, whatever the pack.
Termination == <>(result # "running")

-----------------------------------------------------------------------------
Contract == INSTANCE PackContract
  WITH Packs <- {c[1] : c \in Calls},
       delivered <- {o \in Objects : emitted[o] > 0 \/ o \in skipped},
       outcome <- result

\* Decoding with threads, waitlist and caches implements the contract its caller
\* sees: objects one at a time, bases before deltas, and a verdict that fits.
ImplementsContract == Contract!ContractSpec
=============================================================================
