----------------------------- MODULE PackEncode -----------------------------
(***************************************************************************)
(* Writing a pack and its index: encode_and_output_to_files, the encoder it *)
(* drives (windowed with delta search, or parallel without), the two writer *)
(* tasks that drain the pack and the index channel, and the files they      *)
(* leave.  Every session is one call; sessions share the output directory.  *)
(* An I/O call may fail, and the process may crash at any point: memory is  *)
(* lost, files stay.                                                        *)
(*                                                                          *)
(* Data.  An object is a record with its name (a number), hash kind, type,  *)
(* sort rank and inherited chain length; whether a delta against a base     *)
(* pays, and how long an encoded entry is, are left open.  A pack file is a *)
(* sequence of chunks; its checksum is the sequence of chunks it covers.    *)
(***************************************************************************)
EXTENDS PackIndex, FiniteSetsExt

CONSTANTS Sessions,     \* concurrent calls of encode_and_output_to_files
          Calls,        \* possible arguments of a call
          Stamps,       \* values of the millisecond clock that names the temporary file
          Lens,         \* possible lengths of an encoded entry
          ChanCap,      \* capacity of the two channels (1024)
          Batch,        \* entries per batch of the parallel path (1000)
          Window,       \* window of the delta search (10, whatever window_size says)
          MaxChain,     \* MAX_CHAIN_LEN (50)
          Threads,      \* Rayon threads
          PerThread,    \* blob chunks per thread (20)
          MinChunk,     \* least entries per blob chunk (max(window_size * 10, 50))
          HeaderLen     \* length of the pack header (12)

VARIABLES call,   \* call[s]: the arguments of the session
          enc,    \* enc[s]: the caller's task, with its PackEncoder
          chan,   \* chan[s][f]: the channel of file f: queue, sender and receiver
          task,   \* task[s][f]: the writer task of file f
          dir,    \* the output directory: path -> inode
          data    \* the contents: inode -> sequence of chunks

vars == <<call, enc, chan, task, dir, data>>

Files == {"pack", "idx"}
Ended == {"ok", "failed", "panicked", "crashed"}
BaseTypes == {"commit", "tree", "blob", "tag"}

TmpPath(stamp) == <<"tmp", stamp>>
PackPath(hash) == <<"pack", hash>>
IdxPath(hash) == <<"idx", hash>>

HeadChunk(n) == [t |-> "head", n |-> n]
ObjChunk(o, base, dist, len) ==
  [t |-> "obj", name |-> o.name, type |-> o.type, base |-> base, dist |-> dist, len |-> len]

Sum(kind, chunks) == Digest(kind, chunks)

-----------------------------------------------------------------------------
(* Laying out the windowed path's work                                      *)

\* magic_sort: by rank.  The tie-break compares addresses of elements that the
\* sort is moving, so equal ranks may come out in any order.
Sorted(objs) ==
  {p \in SetToSeqs(objs):
     \A i, j \in DOMAIN p: i < j => p[i].rank <= p[j].rank}

DivCeil(a, b) == (a + b - 1) \div b

\* How many blob chunks to make, and how long: many when there are threads to
\* feed, fewer when the chunks would be too short for the window.
ChunkCount(n) ==
  LET many == IF Threads > 1 /\ n > Threads * PerThread THEN Threads * PerThread ELSE 1
  IN  IF DivCeil(n, many) < MinChunk THEN Max({n \div MinChunk, 1}) ELSE many

\* Chunks are split off the end of the list and then reversed.
BlobChunks(blobs) ==
  LET n == Len(blobs)
      per == DivCeil(n, ChunkCount(n))
      m == IF n = 0 THEN 0 ELSE Min({ChunkCount(n), DivCeil(n, per)})
  IN  [i \in 1 .. m |->
         SubSeq(blobs, Max({1, n - (m - i + 1) * per + 1}), n - (m - i) * per)]

\* Commits, trees, the blob chunks, tags: the order of the pack.
WorkItems(commits, trees, blobs, tags) ==
  <<commits, trees>> \o BlobChunks(blobs) \o <<tags>>

\* The entries of one type; no entry is given twice.
OfType(objs, t) == {objs[i]: i \in {j \in DOMAIN objs: objs[j].type = t}}

-----------------------------------------------------------------------------
(* Delta search in one work item.  A result is [o, base, dist, len, chain]; *)
(* base is the object the delta was made from, dist its backward distance.  *)

Span(found, i, j) == FoldFunctionOnSet(+, 0, [k \in DOMAIN found |-> found[k].len], i .. j)

\* The window holds the last Window entries of the item.  A base has the same
\* type, a chain still below the limit and another hash; the size and
\* similarity tests decide whether its delta pays, which is left open.
Candidates(found, o) ==
  {i \in Max({1, Len(found) - Window + 1}) .. Len(found):
     /\ found[i].o.type = o.type
     /\ found[i].chain < MaxChain
     /\ found[i].o.name # o.name}

Whole(o, len) == [o |-> o, base |-> 0, dist |-> 0, len |-> len, chain |-> o.chain]

\* Fault: the window keeps the chain length the entry came with.
Delta_OldChain(found, o, i, len) ==
  [o |-> o, base |-> found[i].o.name, dist |-> Span(found, i, Len(found)),
   len |-> len, chain |-> o.chain]

\* A delta is one link longer than its base, and names it by distance.
Delta(found, o, i, len) ==
  [o |-> o, base |-> found[i].o.name, dist |-> Span(found, i, Len(found)),
   len |-> len, chain |-> found[i].chain + 1]

TryAsOffsetDelta(found, o) ==
  UNION {{Whole(o, len)} \union {Delta(found, o, i, len): i \in Candidates(found, o)}:
           len \in Lens}

-----------------------------------------------------------------------------
(* Initial state                                                            *)

NewEncoder ==
  [pc |-> "start", got |-> 0, batch |-> << >>, items |-> << >>, found |-> << >>,
   out |-> << >>, offset |-> HeaderLen, hashed |-> << >>, idx |-> << >>,
   tmp |-> "none", final |-> "none", sent |-> 0]

Init ==
  /\ call \in [Sessions -> Calls]
  /\ enc = [s \in Sessions |-> NewEncoder]
  /\ chan = [s \in Sessions |-> [f \in Files |-> [q |-> << >>, tx |-> TRUE, rx |-> TRUE]]]
  /\ task = [s \in Sessions |-> [f \in Files |-> [pc |-> "none", inode |-> "none", pos |-> 0]]]
  /\ dir = << >>
  /\ data = << >>

-----------------------------------------------------------------------------
(* Helpers of the caller's task                                             *)

Goto(s, pc) == enc' = [enc EXCEPT ![s].pc = pc]

\* Leaving by an error or a panic drops the encoder, and with it both senders;
\* a writer task already spawned is detached and goes on by itself.
Leave(s, how) ==
  /\ Goto(s, how)
  /\ chan' = [chan EXCEPT ![s].pack.tx = FALSE, ![s].idx.tx = FALSE]
  /\ UNCHANGED <<call, task, dir, data>>

\* Fault: the channel does not hold the sender back.
Room_Unbounded(s, f) == chan[s][f].rx

Room(s, f) == chan[s][f].rx /\ Len(chan[s][f].q) < ChanCap
Push(s, f, chunk) == chan' = [chan EXCEPT ![s][f].q = Append(@, chunk)]

\* File::create: a new file, or the existing one truncated.
Create(s, path, inode) ==
  LET ino == IF path \in DOMAIN dir THEN dir[path] ELSE inode
  IN  /\ dir' = [p \in DOMAIN dir \union {path} |-> IF p = path THEN ino ELSE dir[p]]
      /\ data' = [i \in DOMAIN data \union {ino} |-> IF i = ino THEN << >> ELSE data[i]]
      /\ task' = [task EXCEPT ![s][inode[2]] = [pc |-> "run", inode |-> ino, pos |-> 0]]

-----------------------------------------------------------------------------
(* The caller's task: encode_and_output_to_files                            *)

\* Create the temporary file and spawn the pack writer.
Start(s) ==
  /\ enc[s].pc = "start"
  /\ \E stamp \in Stamps:
       /\ Create(s, TmpPath(stamp), <<s, "pack">>)
       /\ enc' = [enc EXCEPT ![s].pc = "header", ![s].tmp = TmpPath(stamp)]
  /\ UNCHANGED <<call, chan>>

\* The header, of a count that is not zero, is hashed and sent.  The test of
\* start_encoding follows, but nothing ever sets that flag.
SendHeader(s) ==
  /\ enc[s].pc = "header" /\ call[s].number # 0
  /\ Room(s, "pack")
  /\ Push(s, "pack", HeadChunk(call[s].number))
  /\ enc' = [enc EXCEPT ![s].pc = "receive",
                        ![s].hashed = Append(@, HeadChunk(call[s].number))]
  /\ UNCHANGED <<call, task, dir, data>>

NextObj(s) == call[s].objs[enc[s].got + 1]
MoreInput(s) == enc[s].got < Len(call[s].objs)

Acceptable(s, o) ==
  /\ o.kind = call[s].kind
  /\ IF call[s].window = 0 THEN o.type # "ai" ELSE o.type \in BaseTypes

\* check_entry_kind and the type tests of both paths.
Receive(s) ==
  /\ enc[s].pc = "receive" /\ MoreInput(s)
  /\ call[s].window = 0 => Len(enc[s].batch) < Batch
  /\ Acceptable(s, NextObj(s))
  /\ enc' = [enc EXCEPT ![s].got = @ + 1, ![s].batch = Append(@, NextObj(s))]
  /\ UNCHANGED <<call, chan, task, dir, data>>

RejectEntry(s) ==
  /\ enc[s].pc = "receive" /\ MoreInput(s)
  /\ call[s].window = 0 => Len(enc[s].batch) < Batch
  /\ ~ Acceptable(s, NextObj(s))
  /\ Leave(s, "failed")

\* Windowed: all input is in; sort it by type and build the work items.
BuildWork(s) ==
  /\ enc[s].pc = "receive" /\ call[s].window # 0 /\ ~ MoreInput(s)
  /\ \E c \in Sorted(OfType(enc[s].batch, "commit")),
        t \in Sorted(OfType(enc[s].batch, "tree")),
        b \in Sorted(OfType(enc[s].batch, "blob")),
        g \in Sorted(OfType(enc[s].batch, "tag")):
       LET items == WorkItems(c, t, b, g)
       IN  enc' = [enc EXCEPT ![s].pc = "search", ![s].items = items,
                              ![s].found = [i \in DOMAIN items |-> << >>]]
  /\ UNCHANGED <<call, chan, task, dir, data>>

\* One worker advances one work item by one entry.
Search(s, i) ==
  /\ enc[s].pc = "search"
  /\ i \in DOMAIN enc[s].items
  /\ LET item == enc[s].items[i]
         found == enc[s].found[i]
     IN  /\ Len(found) < Len(item)
         /\ \E r \in TryAsOffsetDelta(found, item[Len(found) + 1]):
              enc' = [enc EXCEPT ![s].found[i] = Append(@, r)]
  /\ UNCHANGED <<call, chan, task, dir, data>>

\* All items are done: their results, in the order of the items, are the pack.
SearchDone(s) ==
  /\ enc[s].pc = "search"
  /\ \A i \in DOMAIN enc[s].items: Len(enc[s].found[i]) = Len(enc[s].items[i])
  /\ enc' = [enc EXCEPT ![s].pc = "write", ![s].out = FlattenSeq(enc[s].found)]
  /\ UNCHANGED <<call, chan, task, dir, data>>

\* The thread pool cannot be built, a worker panics, or an entry cannot be
\* encoded: the search ends in an error and nothing of it is written.
SearchFails(s) ==
  /\ enc[s].pc = "search"
  /\ Leave(s, "failed")

\* Parallel: a batch is full or the input has ended.  An entry that claims to
\* be a delta makes encode_one_object panic; an empty batch ends the loop,
\* and a wrong count then panics.
EncodeBatch(s) ==
  /\ enc[s].pc = "receive" /\ call[s].window = 0
  /\ Len(enc[s].batch) = Batch \/ ~ MoreInput(s)
  /\ \/ /\ enc[s].batch # << >>
        /\ \A i \in DOMAIN enc[s].batch: enc[s].batch[i].type \in BaseTypes
        /\ \E lens \in [DOMAIN enc[s].batch -> Lens]:
             enc' = [enc EXCEPT ![s].pc = "write", ![s].batch = << >>,
                       ![s].out = [i \in DOMAIN enc[s].batch |->
                                     Whole(enc[s].batch[i], lens[i])]]
        /\ UNCHANGED <<call, chan, task, dir, data>>
     \/ /\ \E i \in DOMAIN enc[s].batch: enc[s].batch[i].type \notin BaseTypes
        /\ Leave(s, "panicked")
     \/ /\ enc[s].batch = << >> /\ enc[s].got = call[s].number
        /\ Goto(s, "trailer")
        /\ UNCHANGED <<call, chan, task, dir, data>>
     \/ /\ enc[s].batch = << >> /\ enc[s].got # call[s].number
        /\ Leave(s, "panicked")

\* Writing one entry: its offset and CRC go to the index entry, its bytes to
\* the running checksum and the channel.
WriteEntry(s) ==
  /\ enc[s].pc = "write" /\ enc[s].out # << >>
  /\ Room(s, "pack")
  /\ LET r == Head(enc[s].out)
         chunk == ObjChunk(r.o, r.base, r.dist, r.len)
     IN  /\ Push(s, "pack", chunk)
         /\ enc' = [enc EXCEPT ![s].out = Tail(@),
                      ![s].idx = Append(@, [hash |-> r.o.name, crc32 |-> chunk,
                                            offset |-> enc[s].offset]),
                      ![s].hashed = Append(@, chunk),
                      ![s].offset = @ + r.len]
  /\ UNCHANGED <<call, task, dir, data>>

\* Nothing left to write: the next batch, or the trailer.
WriteDone(s) ==
  /\ enc[s].pc = "write" /\ enc[s].out = << >>
  /\ Goto(s, IF call[s].window = 0 THEN "receive" ELSE "trailer")
  /\ UNCHANGED <<call, chan, task, dir, data>>

\* Fault: the sender is kept, so the writer never sees the end of the stream.
Trailer_KeepSender(s) ==
  /\ enc[s].pc = "trailer"
  /\ Room(s, "pack")
  /\ LET sum == Sum(call[s].kind, enc[s].hashed)
     IN  /\ chan' = [chan EXCEPT ![s].pack.q = Append(@, sum)]
         /\ enc' = [enc EXCEPT ![s].pc = "join", ![s].final = sum]
  /\ UNCHANGED <<call, task, dir, data>>

\* The checksum of all that was hashed is the trailer, and the end of the stream.
Trailer(s) ==
  /\ enc[s].pc = "trailer"
  /\ Room(s, "pack")
  /\ LET sum == Sum(call[s].kind, enc[s].hashed)
     IN  /\ chan' = [chan EXCEPT ![s].pack.q = Append(@, sum), ![s].pack.tx = FALSE]
         /\ enc' = [enc EXCEPT ![s].pc = "join", ![s].final = sum]
  /\ UNCHANGED <<call, task, dir, data>>

\* send_data unwraps the result of a send: the receiver of a failed writer is
\* gone.  A header for no objects at all fails its assertion.
SendPanics(s) ==
  /\ \/ /\ \/ enc[s].pc \in {"header", "trailer"}
           \/ enc[s].pc = "write" /\ enc[s].out # << >>
        /\ ~ chan[s].pack.rx
     \/ enc[s].pc = "header" /\ call[s].number = 0
  /\ Leave(s, "panicked")

\* Fault: the file is renamed before its writer has finished.
Rename_Early(s) ==
  /\ enc[s].pc = "join"
  /\ dir' = [p \in (DOMAIN dir \ {enc[s].tmp}) \union {PackPath(enc[s].final)} |->
               IF p = PackPath(enc[s].final) THEN dir[enc[s].tmp] ELSE dir[p]]
  /\ Goto(s, "create_idx")
  /\ UNCHANGED <<call, chan, task, data>>

\* Wait for the pack writer, then give the file its name.
Rename(s) ==
  /\ enc[s].pc = "join" /\ task[s].pack.pc = "ok"
  /\ LET tmp == enc[s].tmp
         name == PackPath(enc[s].final)
     IN  /\ tmp \in DOMAIN dir
         /\ dir' = [p \in (DOMAIN dir \ {tmp}) \union {name} |->
                      IF p = name THEN dir[tmp] ELSE dir[p]]
  /\ Goto(s, "create_idx")
  /\ UNCHANGED <<call, chan, task, data>>

\* Create the index file and spawn its writer.
CreateIdx(s) ==
  /\ enc[s].pc = "create_idx"
  /\ Create(s, IdxPath(enc[s].final), <<s, "idx">>)
  /\ Goto(s, "idx")
  /\ UNCHANGED <<call, chan>>

IdxOf(s) == IdxChunks(call[s].kind, enc[s].idx, enc[s].final)

\* write_idx: the count must match; then the chunks go out one by one, and
\* both senders are dropped after the last.
SendIdx(s) ==
  /\ enc[s].pc = "idx" /\ Len(enc[s].idx) = call[s].number
  /\ Room(s, "idx")
  /\ LET n == enc[s].sent + 1
         last == n = Len(IdxOf(s))
     IN  /\ chan' = [chan EXCEPT ![s].idx.q = Append(@, IdxOf(s)[n]),
                                 ![s].idx.tx = ~ last]
         /\ enc' = [enc EXCEPT ![s].sent = n, ![s].pc = IF last THEN "join_idx" ELSE @]
  /\ UNCHANGED <<call, task, dir, data>>

Finish(s) ==
  /\ enc[s].pc = "join_idx" /\ task[s].idx.pc = "ok"
  /\ Goto(s, "ok")
  /\ UNCHANGED <<call, chan, task, dir, data>>

\* Every way the call returns an error after an I/O failure: creating either
\* file, a failed writer found at its join, a rename that fails (always, when
\* the temporary file is gone), a closed index channel, or a count that
\* disagrees with the index entries.
Fail(s) ==
  /\ \/ enc[s].pc \in {"start", "create_idx"}
     \/ enc[s].pc = "join" /\ task[s].pack.pc \in {"ok", "err"}
     \/ enc[s].pc = "join_idx" /\ task[s].idx.pc = "err"
     \/ enc[s].pc = "idx" /\ (~ chan[s].idx.rx \/ Len(enc[s].idx) # call[s].number)
  /\ Leave(s, "failed")

-----------------------------------------------------------------------------
(* A writer task: write each chunk at the file's own position, then flush   *)

Overlay(content, pos, chunk) ==
  IF pos <= Len(content) THEN [content EXCEPT ![pos] = chunk] ELSE Append(content, chunk)

WriteChunk(s, f) ==
  /\ task[s][f].pc = "run" /\ chan[s][f].q # << >>
  /\ LET pos == task[s][f].pos + 1
     IN  /\ data' = [data EXCEPT ![task[s][f].inode] = Overlay(@, pos, Head(chan[s][f].q))]
         /\ task' = [task EXCEPT ![s][f].pos = pos]
  /\ chan' = [chan EXCEPT ![s][f].q = Tail(@)]
  /\ UNCHANGED <<call, enc, dir>>

Flush(s, f) ==
  /\ task[s][f].pc = "run" /\ chan[s][f].q = << >> /\ ~ chan[s][f].tx
  /\ task' = [task EXCEPT ![s][f].pc = "ok"]
  /\ UNCHANGED <<call, enc, chan, dir, data>>

\* A write or the flush fails: the task returns, and its receiver is dropped.
WriteFails(s, f) ==
  /\ task[s][f].pc = "run"
  /\ chan[s][f].q # << >> \/ ~ chan[s][f].tx
  /\ task' = [task EXCEPT ![s][f].pc = "err"]
  /\ chan' = [chan EXCEPT ![s][f].rx = FALSE, ![s][f].q = << >>]
  /\ UNCHANGED <<call, enc, dir, data>>

-----------------------------------------------------------------------------
\* The process dies: all tasks stop, the files stay.
Crash ==
  /\ \E s \in Sessions: enc[s].pc \notin Ended
  /\ enc' = [s \in Sessions |-> IF enc[s].pc \in Ended THEN enc[s]
                                ELSE [enc[s] EXCEPT !.pc = "crashed"]]
  /\ task' = [s \in Sessions |-> [f \in Files |->
                IF task[s][f].pc = "run" THEN [task[s][f] EXCEPT !.pc = "dead"]
                ELSE task[s][f]]]
  /\ UNCHANGED <<call, chan, dir, data>>

CallStep(s) ==
  \/ Start(s) \/ SendHeader(s) \/ Receive(s) \/ RejectEntry(s) \/ BuildWork(s)
  \/ (\E i \in DOMAIN enc[s].items: Search(s, i))
  \/ SearchDone(s) \/ SearchFails(s) \/ EncodeBatch(s) \/ WriteEntry(s) \/ WriteDone(s) \/ Trailer(s)
  \/ SendPanics(s) \/ Rename(s) \/ CreateIdx(s) \/ SendIdx(s) \/ Finish(s) \/ Fail(s)

WriterStep(s, f) == WriteChunk(s, f) \/ Flush(s, f) \/ WriteFails(s, f)

Next ==
  \/ \E s \in Sessions: CallStep(s) \/ \E f \in Files: WriterStep(s, f)
  \/ Crash

\* Every task runs when it can: Tokio polls a task that has been woken.
Fairness ==
  \A s \in Sessions: WF_vars(CallStep(s)) /\ \A f \in Files: WF_vars(WriterStep(s, f))

Spec == Init /\ [][Next]_vars /\ Fairness

-----------------------------------------------------------------------------
(* Properties                                                               *)

Objs(c) == {c.objs[i].name: i \in DOMAIN c.objs}

\* Every part of the state is of its kind; a session that reached the join has
\* a checksum, and an index is only created for a pack that has one.
TypeOK ==
  /\ call \in [Sessions -> Calls]
  /\ \A s \in Sessions:
       /\ enc[s].got \in 0 .. Len(call[s].objs)
       /\ enc[s].offset >= HeaderLen
       /\ enc[s].pc \in {"join", "create_idx", "idx", "join_idx", "ok"} =>
            enc[s].final.f = "sum"
       /\ \A f \in Files:
            /\ Len(chan[s][f].q) <= ChanCap
            /\ task[s][f].pc \in {"none", "run", "ok", "err", "dead"}
            /\ task[s][f].pc # "none" => task[s][f].inode \in DOMAIN data
       /\ task[s].idx.pc # "none" => enc[s].final.f = "sum"
  /\ \A p \in DOMAIN dir: dir[p] \in DOMAIN data

\* The entry a delta of a pack file was made against, found by its distance.
BaseAt(pack, i) ==
  {j \in 2 .. i - 1:
     FoldFunctionOnSet(+, 0, [k \in 2 .. i - 1 |-> pack[k].len], j .. i - 1) = pack[i].dist}

\* The links between an entry and the whole object it goes back to.
Depth(pack) ==
  LET depth[i \in 2 .. Len(pack) - 1] ==
        IF pack[i].dist = 0 THEN 0 ELSE 1 + depth[CHOOSE j \in BaseAt(pack, i): TRUE]
  IN  depth

\* A file holds the pack its name promises: the count of its header, a
\* trailer over everything before it, and deltas whose distance leads to the
\* object they were made from.
IsPack(pack, hash) ==
  /\ Len(pack) >= 2
  /\ pack[1].t = "head" /\ pack[1].n = Len(pack) - 2
  /\ pack[Len(pack)] = hash
  /\ hash = Sum(hash.v[1], SubSeq(pack, 1, Len(pack) - 1))
  /\ \A i \in 2 .. Len(pack) - 1:
       pack[i].dist # 0 =>
         \E j \in BaseAt(pack, i):
           pack[j].name = pack[i].base /\ pack[j].type = pack[i].type

PackHashes == {p[2]: p \in {q \in DOMAIN dir: q[1] = "pack"}}
IdxHashes == {p[2]: p \in {q \in DOMAIN dir: q[1] = "idx"}}
PackFile(h) == data[dir[PackPath(h)]]
ReadIdx(h) == ParseIdxV2(data[dir[IdxPath(h)]], h.v[1])

\* The objects a reader of a pack file gets; a damaged file gives none.
Held(h) ==
  IF IsPack(PackFile(h), h)
  THEN {PackFile(h)[i].name: i \in 2 .. Len(PackFile(h)) - 1}
  ELSE {}

\* The objects a readable index lists: names, offsets and CRCs must be those of
\* the entries of the pack it names.
EntriesOf(pack) ==
  {[hash |-> pack[i].name, crc32 |-> pack[i],
    offset |-> HeaderLen
                 + FoldFunctionOnSet(+, 0, [k \in 2 .. i - 1 |-> pack[k].len], 2 .. i - 1)]:
     i \in 2 .. Len(pack) - 1}
Listed(h) ==
  IF ReadIdx(h).pack_hash = h /\ Range(ReadIdx(h).entries) = EntriesOf(PackFile(h))
  THEN {e.hash: e \in Range(ReadIdx(h).entries)}
  ELSE {}

Store == INSTANCE PackStore
         WITH requests <- {Objs(call[s]): s \in Sessions},
              packs <- [h \in PackHashes |-> Held(h)],
              index <- [h \in {k \in IdxHashes: ReadIdx(k).ok} |-> Listed(h)],
              answered <- {enc[s].final: s \in {t \in Sessions: enc[t].pc = "ok"}}

\* Through every crash, failed write and interleaving of the tasks, the
\* directory changes only as PackStore allows: a reader never sees a partial
\* pack under its final name, nor an index it accepts that is not the one of
\* the pack beside it, and Ok is returned only when both are there.
StoreRefined == Store!Spec

\* A file named after a checksum holds the bytes with that checksum: the pair
\* written is a matching pair.
MatchingPair == \A h \in PackHashes: IsPack(PackFile(h), h)

\* No object of a pack in place is more than MAX_CHAIN_LEN deltas away from a
\* whole object, also when the input brought chain lengths of its own.
ChainBounded ==
  \A h \in PackHashes:
    \A i \in 2 .. Len(PackFile(h)) - 1: Depth(PackFile(h))[i] <= MaxChain

\* Every call returns: the bounded channels between the caller's task and the
\* writers never leave them waiting for each other, whatever fails.
CallEnds == \A s \in Sessions: <>(enc[s].pc \in Ended)
=============================================================================
