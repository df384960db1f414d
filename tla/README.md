# TLA+ models of git-internal

This directory holds TLA+ specifications of the parts of `git-internal` in
which several threads, files or partial failures meet, the TLC configurations
that check them on small instances, and TLAPS proofs of the properties that
matter most for instances of any size. All line numbers are those of
`PROJECT.json`, which maps every definition that models code to its source.

## The system

`git-internal` is a library for Git data: it decodes and encodes pack files,
reads and writes idx files and the staging index, and speaks the server side of
the smart protocol. Its parts, and how they are treated here:

| Part | Source | Module | State |
|---|---|---|---|
| pack decoder | `internal/pack/decode.rs` | `PackDecode`, `PackContract`; `PackReaders` (streams), `IdxDecode` (with an idx) | modelled, but for the items under "Not modelled" |
| waitlist of deltas | `internal/pack/waitlist.rs` | `PackDecode` | modelled |
| object cache with spill files | `internal/pack/cache.rs`, `cache_object.rs` | `Caches` (bounded), `PackDecode` (unbounded) | modelled, but for the file encoding |
| pack encoder | `internal/pack/encode/` | `PackEncode`, `PackStore` | modelled, but for the choice of bases |
| idx reader and writer | `internal/pack/pack_index.rs` | `PackIndex` | modelled |
| number encodings, statistics | `internal/pack/utils.rs`, `stats.rs` | `PackTransfer` | modelled |
| hashing and channel readers | `internal/pack/wrapper.rs`, `channel_reader.rs` | `PackReaders` | modelled |
| smart protocol, pack generation | `protocol/smart.rs`, `pack.rs`, `core.rs` | `GitServer`, `PackStream`; `PackTransfer` (side band) | modelled, but for the text of requests |
| example servers | `examples/http_server.rs`, `ssh_server.rs` | `GitServer` | modelled, but for transport details |
| staging index | `internal/index.rs` | `IndexFile` | modelled |
| delta instructions | `delta/` | `DeltaCodec` | modelled, but for the similarity estimates |
| object IDs, Git objects | `hash.rs`, `internal/object/{tree,commit,tag,note,signature}.rs` | `ObjectIds`, `GitObjects` | modelled |
| agent objects | `internal/object/` (sixteen types) | `AgentObjects` | modelled, but for nested records |
| text diff | `diff.rs` | `LineDiff` | modelled, but for the search of the edit script |
| zlib stream, zstd deltas | `internal/zlib/`, `zstdelta/` | | left out: wrappers of a compression library |
| metadata, errors, HTTP and SSH adapters | `internal/metadata/`, `errors.rs`, `protocol/{http,ssh}.rs` | | left out: data types, and functions that pass values on |

The heart of the library is the decoder. `Pack::decode_inner` reads the entries
of a pack one after the other on the calling thread. A complete object (a
"base") is cached; a delta becomes a job of a thread pool, which looks for its
base in the caches and, when it is not there yet, parks the delta on a waitlist.
Whoever caches an object takes the deltas that wait for it and submits a job to
rebuild each. When the file has been scanned beforehand, a `DecodeRetention`
counts the deltas that still need each base, so that bases can be released
early. With a memory limit the caches are an LRU map whose evicted objects are
written to files by a second pool, and read back on demand.

The encoder goes the other way: entries arrive on a channel, a window of recent
objects offers bases for deltas, and the bytes go through bounded channels to
writer tasks that fill a temporary file, which is renamed once its checksum is
known; then the idx is written. A server puts both behind the smart protocol:
a fetch walks the object graph, and a chain of tasks feeds the encoder and
forwards its chunks to the response; a push is decoded, stored object by
object, and then refs are updated one by one.

## Modules

### PackDecode

One call of `decode_inner`. An entry of the pack is its position, which also
stands for its byte offset; offset 0 is one at which no entry starts. Names
(hashes) are numbers. A `Layout` says for each entry its kind, its base, the
name it decodes to, and what is wrong with the pack: an unacceptable header,
entries that cannot be read, deltas that do not apply, a bad trailer. `Options`
are what the entry points `decode`, `decode_without_callback`, `decode_file`,
`decode_file_full_without_callback` and `decode_file_without_callback` pass on
(`DecodeStream`, `DecodeFile`, `VerifyFile`, `WithLimit`).

| State | In the code |
|---|---|
| `next`, `result`, `idSent` | the loop counter, what is returned, `pack_id_callback` |
| `queue`, `pc`, `obj`, `base`, `taken` | the pool's queue and each thread's locals |
| `waitlist` | `Waitlist::map_offset` and `map_ref`, one function on keys |
| `index`, `stored` | the maps of `Caches` that are looked at first, and the objects behind them |
| `remaining`, `held` | the counters of `DecodeRetention`, and which keys are present |
| `emitted`, `skipped`, `error` | callbacks, objects dropped without decoding, `SharedParams::error` |

A step is one access to shared state: the two halves of a lookup, the append to
the waitlist, the decrement of a counter and the later removal of its key, the
three removals of `remove_unbounded`, the three insertions of `Caches::insert`,
the two removals of `Waitlist::take`. Three groups are one step. `should_retain`
reads two maps, but keys only ever leave them, so the answer is that of the
moment of the second read. The jobs a thread submits in a row are appended
together. And reaching the callback is counted in `emitted` whether the caller
passed one or not. `MemUsed` is `memory_used`: entries in the pool, in a
thread's hands or waiting, what the LRU map keeps, and the cells of the two index
maps (`MemoryUsedIndex`), which no eviction gives back before the call is over. The
limit is in cells; an object weighs `size` of them.

### PackContract

What the caller is promised, without threads, waitlist or caches: objects are
delivered one at a time, a delta after its base; `Ok` means everything was
delivered, "unresolved" that nothing more could be, "rebuild failed" that some
delta whose base was delivered does not apply. `PackDecode` instantiates it with
`delivered` as the objects emitted or dropped as unneeded.

### Caches

The bounded cache on its own, with the mutex of the LRU map, the index that is
read without it, the objects that save themselves when they are dropped, the
I/O pool and its queue limit, `shutdown`, the reuse of a `Pack`, and the removal
of the temporary directory. It is what justifies the one step `FetchHit` with
which `PackDecode` reads a bounded cache: a lookup that starts after the insert
finds the object. An object is its hash, since a name never changes its
content. The LRU order is left open: any resident object may be evicted. On a
"bad" disk every write and every read may fail. A comment at
`cache.rs:352` says `insert()` holds the mutex across the `map_offset` write; the
code has since released it before (`cache.rs:321`), and the model follows the code.

### PackIndex, PackEncode, PackStore

`PackIndex` has the idx as operators: the sequence of fields `IdxBuilder` sends,
and what the readers of versions 1 and 2 accept. The 256 first bytes are `Buckets` here, and the
limit of 31-bit offsets is `MaxSmall`, so that full and empty buckets and both kinds of
offset occur. A checksum is the list of fields it covers, tagged with its kind.

`PackEncode` is `encode_and_output_to_files`. `enc[s]` is the caller's task
(what it received, window, offset, running hash, position in the call), `chan`
the two bounded channels, `task` the two writers, `dir` and `data` the directory
and the files behind its names. The caller receives entries, sorts them by type, searches
each chunk, sends the bytes, drops the sender, joins the writer, renames the file and
does the same for the idx. Any write may fail, entries of a wrong type or kind
make the call fail, wrong counts make the parallel path panic, and a crash ends
everything at once. Whether a delta is worth it and which candidate of the
window is best is left open, within the guards of the code (same type, chain
length below the limit); lengths of encoded entries are any of `Lens`.

`PackStore` is what a reader of the directory is promised: a pack appears
under its name at once and holds the objects of one call; an idx that can be
read lists the objects of its pack; `Ok` means both are there; nothing disappears.

### PackStream, GitServer

`PackStream` has the tasks behind a fetch: feeder, encoder task, forwarding loop,
response stream, with the three bounded channels and who has dropped which end.
`GitServer` has the requests. A step takes a task from one await to the next; it
may resume on another worker, and whatever other code did to that worker's
thread-local hash kind (`SetHashKind`) is what the request sees, because
`FsRepository` does not override `object_hash_kind`. `disk` has complete objects,
torn ones (a write that failed half-way) and refs; `git` the `update-ref`
process, which goes on when its request is dropped. A client may disconnect at
any time. The objects are a small graph whose references carry the tree entry's
mode. Requests come parsed, as lists of wants, haves and commands.

What the server makes of an object is part of the instance. `Reparsed[o]` is the
object that the parsed form of `o` serialises to, or none if it does not parse:
`unpack_stream` drops such entries with a warning, and `write_loose_object` hashes
the new bytes on the thread it runs on (`Rehashed`). `Listed[o]` is the tree that
`get_tree` builds from the listing of `git cat-file -p`, where names may be quoted
and modes are normalised; its ID is computed anew (`Readback`, `IdOf`). `get_commit`
and `get_blob` take the ID as it was asked for and do not look at the thread's kind;
a tree with entries gets an ID of that kind, and `ensure_object_kind` compares it
(`Fetched`). The producer of the response is started when the collection ends, and
the kind is compared once more after that: on a drifted thread the request is refused
and the response dropped, with the producer already running (`Walk`, `SpawnDropped`).

### IndexFile

Programs that load, edit, refresh and save one index file. The file is the
sequence of records that `to_file` writes one by one, and each writer has its own
offset, so that two writers overlap. A program may be killed between two writes.
`fresh` records for each refreshed entry the tick of its `stat`. The working tree
changes at any time; times are ticks of a bounded clock.

### PackReaders, IdxDecode

`PackReaders` is `decode_stream`: the forwarding task, the channel, the reader
over it, and the two routes of the decoder (directly through the hashing
`Wrapper`; or through `TeeReader` to a temporary file that is then decoded).
Units are abstract bytes; how many of them one call of `read` or `fill_buf` gets is open.

`IdxDecode` is `decode_file` with an idx beside the pack: reading the idx
(versions 1 and 2), two threads that follow its offsets and count dependencies,
and the decoder that checks each object's start, CRC and name, the number of
objects and both checksums. The reader finishes bases itself or, for a callback,
leaves them to the pool, as it does deltas: a delta looks its base up, consumes its
claim and releases the base, or goes on the waitlist, consumes its claim and looks
again. Any number of jobs runs at once. A step here is a lookup with what follows it,
or an insertion with the removal of the waiters; the steps inside these are `PackDecode`'s.

### DeltaCodec, PackTransfer, ObjectIds, GitObjects, AgentObjects, LineDiff

These have the algorithms. `DeltaCodec` runs the Rabin encoder turn by turn, with
scaled-down limits (`Radix` for a byte, `DataInsLen` for 127, `RabinWindow` for 16)
and a fingerprint that collides, and the decoder after it. `PackTransfer` sends a
pack from `encode_one_object` through side-band packets to `PackStats`, group by
group and byte by byte. `ObjectIds` has the forms an ID travels in; `GitObjects`
builds, hashes, writes and loads trees, commits, tags and notes on threads
whose kind changes. `AgentObjects` has the schema of each of the sixteen types
(required, defaulted, optional, list and JSON fields, enum labels) and one
reader and one writer over it, as the derived code is; and the revision chain of plans. `LineDiff` cuts hunks out
of any edit script. A line has words and an ending (line feed, CR LF, or none at
the end of a text); a printed line loses its ending and gets a newline (`diff.rs:312`).

`MCComponents` runs these, `IndexFile`, `PackReaders` and `IdxDecode`: they share no
state, so a behaviour chooses one of them (`part`) and the others stand still.

Operators whose name has the form `Action_Fault` restate an action with a
plausible slip in it (a lookup left out, a join forgotten). No specification
uses them; replacing the action by one of them must break a property, which
shows that the property can fail.

## Runs

| Run | Configuration | Result |
|---|---|---|
| `decode` | `PackDecode_all.cfg` | all properties hold, 676,126 states |
| `release_race` | `PackDecode_race.cfg` | `NoLostWaiter` violated |
| `release_duplicate` | `PackDecode_duplicate.cfg` | `NoLostWaiter` violated |
| `skip_forward` | `PackDecode_skip_forward.cfg` | `SkippedUnneeded` violated |
| `backpressure` | `PackDecode_backpressure.cfg` | `Termination` violated |
| `caches` | `Caches.cfg` | all properties hold, 336,699 states |
| `caches_reuse` | `Caches_reuse.cfg` | `FileComing` violated |
| `encode` | `PackEncode.cfg` | all properties hold, 98,689 states |
| `encode_same_stamp` | `PackEncode_same_stamp.cfg` | `MatchingPair` violated |
| `server` | `GitServer.cfg` | all properties hold, 268,518 states |
| `server_symlink` | `GitServer_symlink.cfg` | `CloneComplete` violated |
| `components` | `Components.cfg` | all properties hold, 663,548 states |

**decode.** The packs are all packs of three entries (any mixture of bases,
offset deltas and ref deltas, on an earlier or later entry, on the entry itself
or on nothing), packs with one damage each, the empty pack, and packs of four
entries whose bases come first. Three entries are enough for a chain, a fork, a
cycle and a base after its delta; the fourth makes the memory limit bite. Two
workers suffice for every race found: each is between one thread that looks and
one that stores or releases. `MaxQueued` is 1 so that the reader does get stopped
by the queue. It checks that

- no delta is left waiting for a base that was decoded (`NoLostWaiter`);
- objects reach the callback once, and all of them when the result is `Ok`
  (`EmittedOnce`), deltas after their base (`BaseBeforeDelta`);
- the result is a function of the pack, not of the schedule (`VerdictOfPack`),
  against a definition by rounds of resolution;
- dependency counters neither wrap around nor stay behind (`CountersExact`);
- what is dropped unseen is needed by nothing (`SkippedUnneeded`);
- after the return nothing is delivered any more (`QuietAfterReturn`);
- the call returns (`Termination`), with bounded caches under a limit with
  room for the cells of the index maps before the last of four entries is read and for
  one object in the LRU map; with one cell less the reader waits for memory that
  nothing gives back;
- the whole implements `PackContract` (`ImplementsContract`).

In the modes that release bases, this run gives two workers only packs in which
an entry that is itself a delta has at most one dependent and bases precede
their deltas, one worker with skipping only packs whose bases come first, and
the bounded modes only packs that keep at most one delta waiting. What happens
outside these classes is shown by the next four runs:

- **release_race.** A delta misses its base, goes on the waitlist and gives up its
  claim on the base before it looks a second time (`decode.rs:2149-2153`). If
  the base is cached and another dependent uses and releases it in between,
  the second look misses too: the delta waits for ever, and the sound pack is
  reported as thin. It takes two workers and a delta that is the base of two others.
- **release_duplicate.** Bases are released by name (`cache.rs:257`), counted by
  offset: if a pack stores an object twice, releasing one copy takes the other away.
- **skip_forward.** `should_skip_no_callback_object` does not ask whether deltas
  wait for the base; one stored before its base has already given up its claim.
- **backpressure.** Waiting deltas fill the memory limit, and the reader waits for
  memory before it reads their base (`decode.rs:1771`).

**caches.** Two decode workers, one I/O worker, three objects of which the map
has room for one small one and never for the third, so that eviction, refusal
and re-insertion all happen; a spill queue that is full with one job; two
lookups; two uses of the `Pack`. It checks that nothing is lost before shutdown
(`Retrievable`), that a lookup after an insert finds the object (`LookupFinds`),
that the set read without the mutex agrees with the map (`ResidentAgrees`), the
limits (`WithinLimits`), that no file outlives the directory (`TmpDirGone`), that
a waiting lookup gets its file (`FallbackReturns`) and shutdown ends
(`ShutdownEnds`).

- **caches_reuse.** After a first decode `complete_signal` stays set, so in a second
  decode evicted objects are not saved and `get_fallback` waits for a file that
  never comes. With a single decode (`MaxDecodes = 1`) the property holds.

**encode.** Ten calls: windowed ones whose objects split over two chunks, or bring a
chain length of their own, or fill one window; parallel ones; and calls that end
in an error or a panic (agent objects, a foreign hash kind, a delta entry, a wrong
count, nothing at all). Channels hold one chunk, the window two objects, chains
two deltas; entry lengths 1 and 2 and `MaxSmall = 4` put offsets on both sides of
the large-offset limit. Writes fail and the process dies at any point. It checks
that the directory changes only as `PackStore` allows (`StoreRefined`), that no
object of a pack in place is deeper than the limit (`ChainBounded`), that
channels stay within their bound and an idx is only begun for a finished pack (`TypeOK`),
and that every call returns (`CallEnds`).

- **encode_same_stamp.** The temporary file is named after a time in
  milliseconds and created with truncation (`output.rs:74`). Two calls within
  one millisecond share it, and the file renamed to one pack's checksum holds the other's bytes.

**server.** Pairs of requests against two SHA-256 repositories: clones and incremental
fetches while a push goes on, two pushes to one ref, deletion, a tag, an unknown
`have`, SSH sessions, IDs or a capability of another format, a pack cut short,
a missing flush, a repository that does not exist; clones, fetches and pushes of a
tree that git lists or the server serialises differently, of one that does not parse,
and a want that is no commit. Two workers, and one change
of a worker's kind by other code; channels hold one item. It checks that every
effect happens under the repository's format, on a thread that was set to it when the
task last compared and, while objects are stored, still is (`KindSafe`); that of
everything a ref reaches the object, or what the server's parser makes of it, was
stored, but for objects that do not parse (`RefsClosed`); that a response that ends
cleanly completes the client's objects as the server reads them (`CloneComplete`); and
that every request ends with no task, process or blocked sender left (`SessionEnds`).
The two properties say "as the server reads them" because the code keeps no more: a
pushed tree with a mode of 100664 is stored under another ID than the commit names,
and the ref is updated all the same.

- **server_symlink.** With a symbolic link in the tree, `CloneComplete` fails: the
  walk has no arm for the mode Link (`pack.rs:310`), so the blob is never sent.

**components.** Each part with its own instance:

- `LoadsWhole`: two programs that load and save over each other, killed anywhere,
  with names that do not fit, foreign kinds and no file at the start: a load that
  succeeds returns what one save was called with.
- `RefreshHonest`: a program refreshes while files and a link are edited and
  touched over four ticks: an entry that looks unchanged names the file's contents, but
  for a change in the very tick of the `stat`.
- `StreamDecoded`, `StreamEnds`: a pack of four units and its trailer in every
  division into chunks, damaged, short, failing or too long, on a full disk or not, on both routes.
- `DeltaRebuilds`: sources and targets that make runs fill up, matches grow
  backwards, copies split and buckets overflow.
- `AgentHistory`: three setter calls on each type, read back as each of the
  sixteen types; three plans built from each other.
- `ObjectsKept`: objects of each type, with every form of ID and every kind
  on the thread of each step; bytes that other programs wrote.
- `DiffApplies`: all edit scripts up to eight edits with one line of context, with CR LF
  lines and texts without a final newline. The patch gives the new text up to
  line endings: an inserted line always ends in a newline (the repository's own test at
  `diff.rs:962-970` shows the missing newline). The line operations give it exactly.
- `TransferSound`: sizes and distances of one to three groups, both
  side-band sizes and none, a break at every byte, and right, permuted, shifted, doubled and short indexes.
- `IndexVerified`: packs with deltas before and after their bases, with no idx,
  a true one, and every idx that swaps, moves, doubles, drops or adds one thing. `Ok` means
  a whole pack and a true idx, and every claim consumed. A sound pack with a true idx or
  none fails only at the join, for a delta left waiting, and only if two deltas share
  a base (`release_race`) or a skipping decode met a delta before its base (`skip_forward`).

**Fairness.** In `PackDecode` each thread that can take a step eventually takes
one (weak fairness per thread): all are operating-system threads, and the
yielding loop of the reader is a step that changes nothing, on which no fairness
is assumed. In `Caches` the same holds for threads inside an operation and for
I/O workers; nobody is obliged to begin an operation. Weak fairness suffices for the mutex because
the number of operations is bounded in an instance, so no thread is overtaken for ever.
In `PackEncode`, `PackStream` and `GitServer` a task whose await is over is
polled, as Tokio does with a task that was woken; git processes end; the
transport goes on reading the response until the client hangs up (nobody is
obliged to). In `PackReaders` the runtime polls the forwarding task and the
blocking thread runs. No run assumes that a failure or a crash happens or not.

## Proofs

All seven proof modules are checked by TLAPS, for arbitrary constants that satisfy
the named assumptions of the modules.

- `PackDecodeProofs`: `TypeCorrect` (`TypeOK` always holds, for any packs, options
  and workers) and `Quiet` (`QuietAfterReturn`). The second needs the invariant
  that a returned call has an empty queue, idle workers, and a main thread that
  stays where it is (`ReturnedInvariant`): each way out of the call joins the
  pool first, and only jobs submit jobs.
- `PackDecodeWakeup`: `NoLostWakeup`, that `NoLostWaiter` holds in every mode
  without retention when objects have distinct names. The two conditions are
  exactly what `release_race` and `release_duplicate` violate. The inductive
  invariant says for each waiting delta whose base was emitted who will still
  serve it: the delta's own thread, which has the second lookup ahead; or the
  thread that emitted the base, which has the removal of the waitlist ahead. It
  rests on two facts about the caches: an emitted base is either still being
  inserted or stored under both keys, and without retention nothing leaves them.
- `PackDecodeOrder`: `DeltaAfterBase` (`BaseBeforeDelta`), in every mode and for packs
  that name an object twice. A delta is *ready* once an object that is its base, by
  offset or by name, was delivered. The inductive invariant `OrderInv` says that a key
  in the index, a rebuild job in the queue and a delta that found its base or was
  taken off the waitlist are ready, and that what the caches store was delivered. Two cases make it
  more than "a thread holds a delivered base": the caches may hand out another
  object of the same name, and an object no delta needs any more takes its
  waiters *before* it is delivered (`decode.rs`, `cache_obj_and_process_waitlist`), so
  that they are ready only when they are submitted.
- `CachesProofs`: `NeverLost` (`Retrievable`), `LookupFindsInserted`
  (`LookupFinds`) and `ResidentExact` (`ResidentAgrees`), from one inductive
  invariant: who holds the mutex and what it is doing, that the sets agree up to
  the object being replaced, that what is named is findable, and that what an
  insert or a lookup holds is findable or about to be saved. `TmpDirStaysGone`
  (`TmpDirGone`) follows from `Joined`: after shutdown the I/O pool is idle, so
  nothing can write once `Pack::drop` has removed the files.
- `GitServerProofs`: `KindSafety` (`KindSafe`), for any number of requests, workers
  and repositories, from `OneFormat`: all repositories of a process have one format.
  The invariant says that `GLOBAL_HASH_KIND` is unset or that format, that a task
  past the detection is bound to it, and that one about to act last compared it on
  the thread it ran on. Nothing is said of a task that collects: it reads objects on
  threads of any kind and becomes a stream only through the comparison after the
  producer's start. A third part, `Pinned`, says that the thread of a task that
  stores objects exists and has that format: the comparison and the storing have no
  await between them, and other code sets kinds on free threads only. The assumption is needed: `detect_and_configure_hash_kind`
  takes the global kind without reading the repository once it is set
  (`http_server.rs:122`), so a process serving two formats would bind the second
  repository to the first one's kind.
- `IndexFileProofs`: `LoadSafety` (`LoadsWhole`). The invariant `LoadInv` says that
  every checksum record in the file covers the records of one whole save, that a
  loading program has in memory what the records it read decode to, and that a
  saving one has written or has still to write each of its entries. A load that
  reaches a checksum it accepts has therefore read one save. It rests on checksums
  that do not collide, and on `WorkOK`, `CallsOK` and `StartOK`, which type the
  working tree, the calls and the file at the start.
- `IndexRefreshProofs`: `RefreshSafety` (`RefreshHonest`). The invariant adds that a
  file was last changed now or earlier (`Timed`), and that a refresh under way, and
  then the entry it wrote, knows the contents of every file last changed before the
  tick in which it looked (`Watched`): the `stat` precedes the reading, so a change
  in between has a later time.

`NoLostWaiter` under retention, the other invariants of `PackDecode`, the
refinements of `PackContract` and `PackStore`, `WithinLimits`, and
the properties of the other modules are model-checked only. Liveness
(`Termination`, `FallbackReturns`, `ShutdownEnds`, `CallEnds`, `SessionEnds`,
`StreamEnds`) needs fairness and stays with TLC, and so do the algorithms over
sequences, which would need induction over data.

## Not modelled in the modelled parts

What the models leave out, and behaviour met while writing them that no property
speaks of (mostly because no doc of the repository promises otherwise):

- **Decoder.** The low-memory callback mode (`decode.rs:368`), which is switched
  on by the name of one executable; the unix fast path over the already opened file
  (`decode.rs:1370-1454`); several decodes on one `Pack`, but for its caches; the bytes of
  spill files; panics inside callbacks. The pack id is sent before the waitlist is
  checked (`decode.rs:1905`). `decode_stream` panics on a decode error
  (`decode.rs:1978`, `2022`), and an empty chunk of a stream looks like its end
  (`channel_reader.rs:28`). A waitlist left over from a failed decode stays in the
  `Pack` (`decode.rs:1915`). A limit below what the index maps need never lets the
  reader go on. The capacity of a map, which grows in steps, is counted as its cells.
- **Encoder.** Which base is best, the candidate path without Rabin deltas
  (`delta_search.rs:194`) and zstd deltas. `start_encoding` is never set
  (`encode/mod.rs:253`). The windowed path does not compare the number of objects
  received with the number announced: the idx then fails, after the pack was renamed.
  A second call with identical content truncates the idx it finds. An entry given
  twice to one windowed call is not modelled. `PackTransfer` also reads packs with ref
  deltas, which `encode_one_object` does not write (`header.rs:88`), takes the magic and
  version of a header as right, damages only sizes, types and distances, and has no
  sizes that would not fit 64 bits.
- **Server.** The text of requests; `http.rs` and `ssh.rs`. A process that serves
  repositories of two formats (see `KindSafety`). A request that resumes on a worker whose kind was never
  set is refused although it is sound. One unknown `have` beside known ones fails the
  fetch (`pack.rs:111`). Refs are updated one by one although `atomic` is
  listed as implemented (`types.rs:137`), and an error after some of them leaves those standing
  (`smart.rs:486`). Annotated tags, and objects that do not parse (`pack.rs:147-166`), are
  dropped on unpacking while the report says "unpack ok". `write_loose_object` trusts a file that exists, a torn one included;
  `RefsClosed` counts torn files as present for this reason.
- **Index file.** There is no lock file: a save may undo another program's.
  A change in the same tick as the `stat` is not noticed. The `stat` of
  a tracked link is the link's, the hash that of its target (`index.rs:562`, `579`).
  A name longer than 4095 bytes is refused after the file was truncated. A stage above
  3, which nothing in the library sets, would be shifted into other flag bits (`index.rs:147`).
- **Deltas.** Similarity estimates (`delta/mod.rs:21-118`, `rabin/mod.rs:708-870`).
  The edit-script encoder cannot express a copy longer than 0xFFFFFF.
- **Git objects.** Blobs; compression. A tag names one of git's four types, not the agent
  types of `types.rs:223-247`. Legacy modes, names in GBK, zero-padded times,
  carriage returns and additional tag headers do not serialise back to the bytes they came
  from (`Canonical` excludes them). The legacy readers relabel a BLAKE3 ID as SHA-256.
- **Agent objects.** Infinite numbers and NaN, which serde_json writes as null
  (`provenance.rs:57`, `run_usage.rs:55`); nested records, `Header::set_version` and its checksum,
  the lineage of intents, `integrity.rs`. The header's type is not compared when an object is loaded;
  `set_parents` and `add_parent` of a plan do not compare intents.
- **Diff.** The search for the edit script. An empty side is printed as line 1
  where the unified format has 0; a missing final newline and CR LF are not shown.
- **Not modelled at all.** `internal/zlib/`, `zstdelta/`, `errors.rs`,
  `internal/metadata/`: wrappers of compression libraries and data types.

## Plan

1. Proofs: `CountersExact`, the refinements of `PackContract` and `PackStore`,
   `RefsClosed`, `WithinLimits`.
2. Several decodes on one `Pack` (a waitlist left over from a failed one).
3. Repositories of two formats in one process, once the detection reads each repository's own.
4. The nested records of agent objects and `integrity.rs`.
