------------------------------ MODULE IndexFile ------------------------------
(***************************************************************************)
(* The staging index: programs that load an index file, edit the entries in *)
(* memory, refresh them from the working tree and save them, while the      *)
(* files of the working tree change and while other programs do the same.   *)
(*                                                                          *)
(* The file is the sequence of its records, each written by one write_all:  *)
(* a header, the entries, extensions, and the checksum.  A writer keeps its *)
(* own offset, so two writers overlap record by record.  (The sample names  *)
(* pad to entries of one length, so offsets are record numbers.)            *)
(***************************************************************************)
EXTENDS SequencesExt, Integers, FiniteSetsExt

CONSTANTS Sessions,     \* programs using the library
          IndexScenarios, \* the calls and hash kinds of each program, the file
                          \* at the start, and the bound on the clock (0: nobody
                          \* edits the working tree)
          Names,          \* path names in index order
          NameLen,        \* NameLen[n]: bytes of a name
          Below,          \* Below[d]: the names strictly under directory d
          ContentSize,           \* ContentSize[c]: bytes of a content
          InitWork,       \* the working tree at the start
          Contents        \* contents an editor may write

VARIABLES plan,           \* the scenario
          ses,            \* ses[s]: program counter, entries and calls in flight
          file,           \* the records of the index file
          work,           \* work[n]: the file of that name, or NoFile
          clock,          \* the file system's clock, in ticks
          saved           \* every set of entries a save was called with

NoFile == [type |-> "none"]
NameSet == Range(Names)
NoEntries == [k \in {} |-> NoFile]
Hole == [t |-> "hole"]
Absent == <<Hole>>       \* there is no index file
SizeMod == 65536        \* stands for the 2^32 of `as u32`

\* No file of the working tree was changed in the future.
ASSUME WorkOK ==
  /\ DOMAIN InitWork = NameSet
  /\ \A n \in NameSet : InitWork[n].type = "file" =>
       /\ {"type", "data", "ctime", "mtime"} \subseteq DOMAIN InitWork[n]
       /\ InitWork[n].ctime \in Int /\ InitWork[n].ctime <= 1

\* Programs refresh names, and add blobs with the two extended flags.
ASSUME CallsOK ==
  \A p \in IndexScenarios : \A s \in Sessions :
    /\ p.calls[s] \in Seq(Range(p.calls[s]))
    /\ \A i \in DOMAIN p.calls[s] :
         /\ p.calls[s][i].op = "refresh" => p.calls[s][i].name \in NameSet
         /\ p.calls[s][i].op = "blob" =>
              p.calls[s][i].skip \in BOOLEAN /\ p.calls[s][i].intent \in BOOLEAN

-----------------------------------------------------------------------------
(* Entries                                                                  *)

Stat(f) == [size |-> IF f.type = "link" THEN f.linkLen ELSE ContentSize[f.data],
            ctime |-> f.ctime, mtime |-> f.mtime]

\* What File::open reads: a symbolic link is followed.
ReadFile(f) == IF f.type = "link" THEN work[f.to].data ELSE f.data

\* Times before the epoch are clamped to it.
Time(t) == IF t < 0 THEN 0 ELSE t

FileDigest(kind, len, data) == [kind |-> kind, len |-> len, data |-> data]
BlobId(kind, c) == FileDigest(kind, ContentSize[c], c)

Flags(n) == [valid |-> FALSE, extended |-> FALSE, stage |-> 0, len |-> NameLen[n] % 65536,
             skip |-> FALSE, intent |-> FALSE]

FromStat(n, hash, st) ==
  [name |-> n, hash |-> hash, size |-> st.size % SizeMod, ctime |-> Time(st.ctime),
   mtime |-> Time(st.mtime), flags |-> Flags(n)]

FromBlob(n, hash, size) ==
  [name |-> n, hash |-> hash, size |-> size, ctime |-> 0, mtime |-> 0, flags |-> Flags(n)]

KeyOf(e) == <<e.name, e.flags.stage>>
With(entries, e) == [k \in DOMAIN entries \union {KeyOf(e)} |-> IF k = KeyOf(e) THEN e ELSE entries[k]]
Without(entries, ks) == [k \in DOMAIN entries \ ks |-> entries[k]]

IsModified(e, f) ==
  ~(/\ e.ctime = Time(f.ctime) /\ e.mtime = Time(f.mtime)
    /\ e.size = Stat(f).size % SizeMod)

\* BTreeMap order: by name, then by stage.
Before(a, b) == LET i == CHOOSE x \in DOMAIN Names : Names[x] = a[1]
                    j == CHOOSE x \in DOMAIN Names : Names[x] = b[1]
                IN i < j \/ (i = j /\ a[2] < b[2])
InOrder(entries) ==
  {[i \in DOMAIN ks |-> entries[ks[i]]]:
     ks \in {q \in Bijection(1..Cardinality(DOMAIN entries), DOMAIN entries):
              \A i, j \in DOMAIN q : i < j => Before(q[i], q[j])}}

-----------------------------------------------------------------------------
(* The file format                                                          *)

HasWord(fl) == fl.extended \/ fl.skip \/ fl.intent

\* The packed flags hold no skip-worktree or intent-to-add bit: those are in
\* the extended word, present when the CE_EXTENDED bit is.  Stages are 0 to 3.
EntryRecord(e) ==
  [t |-> "entry", stat |-> <<e.ctime, e.mtime, e.size>>, hash |-> e.hash,
   packed |-> [valid |-> e.flags.valid, extended |-> HasWord(e.flags), stage |-> e.flags.stage,
               len |-> e.flags.len],
   word |-> IF HasWord(e.flags) THEN <<e.flags.skip, e.flags.intent>> ELSE << >>,
   name |-> e.name]

HeadRecord(entries) ==
  [t |-> "head", n |-> Cardinality(DOMAIN entries),
   version |-> IF \E k \in DOMAIN entries : HasWord(entries[k].flags) THEN 3 ELSE 2]

SumRecord(kind, records) == [t |-> "sum", kind |-> kind, of |-> records]

DecodedEntry(r) ==
  [name |-> r.name, hash |-> r.hash, ctime |-> r.stat[1], mtime |-> r.stat[2], size |-> r.stat[3],
   flags |-> [valid |-> r.packed.valid, extended |-> r.packed.extended, stage |-> r.packed.stage,
              len |-> r.packed.len,
              skip |-> r.word # << >> /\ r.word[1], intent |-> r.word # << >> /\ r.word[2]]]

\* An entry of another kind is wider or narrower, and a wrapped name length
\* leaves the reader in the middle of a name: what follows does not parse.
Parses(kind, r) == r.t = "entry" /\ r.hash.kind = kind /\ r.packed.len = NameLen[r.name]

Put(f, i, r) == [j \in 1..(IF i > Len(f) THEN i ELSE Len(f)) |->
                   IF j = i THEN r ELSE IF j <= Len(f) THEN f[j] ELSE Hole]

\* What a later load is to return for entries that were saved.
ReadBack(entries) == [k \in DOMAIN entries |->
                        [entries[k] EXCEPT !.flags.extended = HasWord(entries[k].flags)]]

\* Records that decode to exactly these entries.
Holds(records, entries) ==
  LET Decoded == {i \in DOMAIN records : records[i].t = "entry"} IN
    /\ entries = [k \in DOMAIN entries |-> entries[k]]
    /\ DOMAIN entries = {KeyOf(DecodedEntry(records[i])) : i \in Decoded}
    /\ \A i \in Decoded :
         entries[KeyOf(DecodedEntry(records[i]))] = DecodedEntry(records[i])

\* A checksum of the file at the start covers the entries at the start.
ASSUME StartOK ==
  \A p \in IndexScenarios :
    /\ p.start.records \in Seq(Range(p.start.records))
    /\ \A i \in DOMAIN p.start.records :
         p.start.records[i].t = "sum" => Holds(p.start.records[i].of, p.start.entries)

-----------------------------------------------------------------------------

NewSession == [at |-> 1, pc |-> "idle", mem |-> NoEntries, base |-> NoEntries, fresh |-> NoEntries,
               recs |-> << >>, todo |-> << >>, total |-> 0, st |-> NoFile]

IndexStart ==
  /\ ses = [s \in Sessions |-> NewSession]
  /\ file = plan.start.records /\ work = InitWork /\ clock = 1
  /\ saved = {NoEntries, plan.start.entries}
IndexInit == plan \in IndexScenarios /\ IndexStart

Call(s) == plan.calls[s][ses[s].at]
AtCall(s, pc) == ses[s].pc = pc
Calls(s, op) == AtCall(s, "idle") /\ ses[s].at <= Len(plan.calls[s]) /\ Call(s).op = op
Step(s, rec) == ses' = [ses EXCEPT ![s] = rec]
Return(s, rec) == Step(s, [rec EXCEPT !.pc = "idle", !.at = @ + 1, !.recs = << >>,
                                      !.todo = << >>, !.total = 0, !.st = NoFile])
\* The call returns Err or panics, or the program is killed: it does nothing more.
Stop(s) == Step(s, [ses[s] EXCEPT !.pc = "stopped"])

-----------------------------------------------------------------------------
(* load                                                                     *)

LoadOpen(s) ==
  /\ Calls(s, "load")
  /\ IF file = Absent
     THEN Return(s, [ses[s] EXCEPT !.mem = NoEntries, !.base = NoEntries, !.fresh = NoEntries])
     ELSE Step(s, [ses[s] EXCEPT !.pc = "head", !.total = Len(file)])
  /\ UNCHANGED <<plan, file, work, clock, saved>>

Next1(s) == Len(ses[s].recs) + 1
HasNext(s) == Next1(s) <= Len(file)
Taken(s) == Append(ses[s].recs, file[Next1(s)])

ReadHead(s) ==
  /\ AtCall(s, "head")
  /\ IF HasNext(s) /\ file[Next1(s)].t = "head"
     THEN Step(s, [ses[s] EXCEPT !.pc = "body", !.recs = Taken(s), !.mem = NoEntries,
                                 !.fresh = NoEntries])
     ELSE Stop(s)
  /\ UNCHANGED <<plan, file, work, clock, saved>>

Declared(s) == ses[s].recs[1].n

ReadRecord(s) ==
  /\ AtCall(s, "body") /\ Len(ses[s].recs) <= Declared(s)
  /\ IF HasNext(s) /\ Parses(plan.kinds[s], file[Next1(s)])
     THEN Step(s, [ses[s] EXCEPT !.recs = Taken(s), !.mem = With(@, DecodedEntry(file[Next1(s)]))])
     ELSE Stop(s)
  /\ UNCHANGED <<plan, file, work, clock, saved>>

\* Extensions fill the file up to the checksum, by the length it had at open.
ReadExtension(s) ==
  /\ AtCall(s, "body") /\ Len(ses[s].recs) > Declared(s) /\ Next1(s) < ses[s].total
  /\ IF HasNext(s) /\ file[Next1(s)].t = "ext" /\ file[Next1(s)].optional
     THEN Step(s, [ses[s] EXCEPT !.recs = Taken(s)])
     ELSE Stop(s)
  /\ UNCHANGED <<plan, file, work, clock, saved>>

Loaded(s) == Return(s, [ses[s] EXCEPT !.base = ses[s].mem, !.fresh = NoEntries])

AtSum(s) == AtCall(s, "body") /\ Len(ses[s].recs) > Declared(s) /\ Next1(s) >= ses[s].total

\* Fault: the checksum is read and not compared.
ReadSum_Unchecked(s) ==
  /\ AtSum(s)
  /\ IF HasNext(s) /\ file[Next1(s)].t = "sum" THEN Loaded(s) ELSE Stop(s)
  /\ UNCHANGED <<plan, file, work, clock, saved>>

ReadSum(s) ==
  /\ AtSum(s)
  /\ IF /\ HasNext(s) /\ file[Next1(s)] = SumRecord(plan.kinds[s], ses[s].recs)
        /\ Cardinality(DOMAIN ses[s].mem) = Declared(s)
     THEN Loaded(s) ELSE Stop(s)
  /\ UNCHANGED <<plan, file, work, clock, saved>>

-----------------------------------------------------------------------------
(* Edits in memory                                                          *)

Set(s, e) ==
  Return(s, [ses[s] EXCEPT !.mem = With(@, e), !.fresh = Without(@, {KeyOf(e)})])

\* The caller hashes the file, then new_from_file looks at its metadata.
AddHash(s) ==
  /\ Calls(s, "add")
  /\ IF work[Call(s).name].type = "none" THEN Stop(s)
     ELSE Step(s, [ses[s] EXCEPT !.pc = "add", !.st = BlobId(plan.kinds[s], ReadFile(work[Call(s).name]))])
  /\ UNCHANGED <<plan, file, work, clock, saved>>

AddEntry(s) ==
  /\ AtCall(s, "add")
  /\ LET f == work[Call(s).name] IN
       IF f.type = "none" THEN Stop(s) ELSE Set(s, FromStat(Call(s).name, ses[s].st, Stat(f)))
  /\ UNCHANGED <<plan, file, work, clock, saved>>

\* new_from_blob, with the flags the caller sets.
AddBlob(s) ==
  /\ Calls(s, "blob")
  /\ LET c == Call(s)
         e == FromBlob(c.name, BlobId(c.kind, c.data), ContentSize[c.data])
     IN Set(s, [e EXCEPT !.flags.stage = c.stage, !.flags.skip = c.skip, !.flags.intent = c.intent])
  /\ UNCHANGED <<plan, file, work, clock, saved>>

Drop(s, ks) == Return(s, [ses[s] EXCEPT !.mem = Without(@, ks), !.fresh = Without(@, ks)])

RemoveEntry(s) ==
  /\ Calls(s, "remove") /\ Drop(s, {<<Call(s).name, Call(s).stage>>})
  /\ UNCHANGED <<plan, file, work, clock, saved>>

RemoveDir(s) ==
  /\ Calls(s, "remove_dir") /\ Drop(s, {k \in DOMAIN ses[s].mem : k[1] \in Below[Call(s).dir]})
  /\ UNCHANGED <<plan, file, work, clock, saved>>

-----------------------------------------------------------------------------
(* refresh: the metadata first, then the contents                           *)

Target(s) == <<Call(s).name, 0>>

RefreshStat(s) ==
  /\ Calls(s, "refresh")
  /\ IF Target(s) \notin DOMAIN ses[s].mem THEN Return(s, ses[s])
     ELSE IF \/ ses[s].mem[Target(s)].hash.kind # plan.kinds[s]
             \/ work[Call(s).name].type = "none"
          THEN Stop(s)
          ELSE Step(s, [ses[s] EXCEPT !.pc = "refresh", !.total = clock,
                                      !.st = Stat(work[Call(s).name])])
  /\ UNCHANGED <<plan, file, work, clock, saved>>

\* The four compared fields are the four that are set.
Refreshed(s, at, st, data) ==
  LET e == FromStat(Call(s).name, FileDigest(plan.kinds[s], st.size, data), st)
      old == ses[s].mem[Target(s)]
  IN [ses[s] EXCEPT !.mem = With(@, [e EXCEPT !.flags = old.flags]),
                    !.fresh = [k \in DOMAIN @ \union {Target(s)} |->
                                 IF k = Target(s) THEN at ELSE @[k]]]

RefreshRead(s) ==
  /\ AtCall(s, "refresh")
  /\ LET f == work[Call(s).name] IN
       IF f.type = "none" \/ (f.type = "link" /\ work[f.to].type = "none") THEN Stop(s)
       ELSE Step(s, [ses[s] EXCEPT !.pc = "apply", !.recs = <<ReadFile(f)>>])
  /\ UNCHANGED <<plan, file, work, clock, saved>>

\* Fault: the metadata is that of the file after its contents were read.
RefreshApply_Late(s) ==
  /\ AtCall(s, "apply")
  /\ Return(s, Refreshed(s, clock, Stat(work[Call(s).name]), ses[s].recs[1]))
  /\ UNCHANGED <<plan, file, work, clock, saved>>

RefreshApply(s) ==
  /\ AtCall(s, "apply")
  /\ Return(s, Refreshed(s, ses[s].total, ses[s].st, ses[s].recs[1]))
  /\ UNCHANGED <<plan, file, work, clock, saved>>

-----------------------------------------------------------------------------
(* save                                                                     *)

\* Every entry's kind is checked before the file is truncated.
SaveCreate(s) ==
  /\ Calls(s, "save")
  /\ IF \E k \in DOMAIN ses[s].mem : ses[s].mem[k].hash.kind # plan.kinds[s]
     THEN Stop(s) /\ UNCHANGED <<file, saved>>
     ELSE /\ \E es \in InOrder(ses[s].mem) : Step(s, [ses[s] EXCEPT !.pc = "save", !.todo = es])
          /\ file' = << >> /\ saved' = saved \union {ReadBack(ses[s].mem)}
  /\ UNCHANGED <<plan, work, clock>>

Write(s, r) == file' = Put(file, Next1(s), r)

SaveHead(s) ==
  /\ AtCall(s, "save") /\ ses[s].recs = << >>
  /\ LET r == HeadRecord(ses[s].mem)
     IN Write(s, r) /\ Step(s, [ses[s] EXCEPT !.recs = <<r>>])
  /\ UNCHANGED <<plan, work, clock, saved>>

\* A name longer than the 12 bits of its length fails here, the file half written.
SaveRecord(s) ==
  /\ AtCall(s, "save") /\ ses[s].recs # << >> /\ ses[s].todo # << >>
  /\ LET e == Head(ses[s].todo)
         r == EntryRecord(e)
     IN IF e.flags.len > 4095 THEN Stop(s) /\ UNCHANGED file
        ELSE Write(s, r) /\ Step(s, [ses[s] EXCEPT !.recs = Append(@, r), !.todo = Tail(@)])
  /\ UNCHANGED <<plan, work, clock, saved>>

SaveSum(s) ==
  /\ AtCall(s, "save") /\ ses[s].recs # << >> /\ ses[s].todo = << >>
  /\ Write(s, SumRecord(plan.kinds[s], ses[s].recs)) /\ Return(s, ses[s])
  /\ UNCHANGED <<plan, work, clock, saved>>

-----------------------------------------------------------------------------
(* The environment                                                          *)

Crash(s) ==
  /\ ses[s].pc \notin {"idle", "stopped"} /\ Stop(s)
  /\ UNCHANGED <<plan, file, work, clock, saved>>

\* An editor writes a file; several writes may share one tick of the clock.
Edit(n, c) ==
  /\ plan.ticks > 0 /\ work[n].type = "file"
  /\ work' = [work EXCEPT ![n] = [@ EXCEPT !.data = c, !.ctime = clock, !.mtime = clock]]
  /\ UNCHANGED <<plan, ses, file, clock, saved>>

\* utimes: the modification time may be set back, the change time may not.
Touch(n) ==
  /\ plan.ticks > 0 /\ work[n].type = "file"
  /\ work' = [work EXCEPT ![n] = [@ EXCEPT !.ctime = clock, !.mtime = -1]]
  /\ UNCHANGED <<plan, ses, file, clock, saved>>

Tick == clock < plan.ticks /\ clock' = clock + 1 /\ UNCHANGED <<plan, ses, file, work, saved>>

Program(s) ==
  \/ LoadOpen(s) \/ ReadHead(s) \/ ReadRecord(s) \/ ReadExtension(s) \/ ReadSum(s)
  \/ AddHash(s) \/ AddEntry(s) \/ AddBlob(s) \/ RemoveEntry(s) \/ RemoveDir(s)
  \/ RefreshStat(s) \/ RefreshRead(s) \/ RefreshApply(s)
  \/ SaveCreate(s) \/ SaveHead(s) \/ SaveRecord(s) \/ SaveSum(s)

IndexNext ==
  \/ \E s \in Sessions : Program(s) \/ Crash(s)
  \/ \E n \in NameSet : (\E c \in Contents : Edit(n, c)) \/ Touch(n)
  \/ Tick

indexVars == <<plan, ses, file, work, clock, saved>>

-----------------------------------------------------------------------------

\* A load that succeeds returns exactly the entries one save was called with
\* (or those of the file found at the start): never the torn file of a program
\* that died between two writes, never a mixture of two programs that saved
\* over each other, never a file whose names did not fit (the checksum of
\* Index::from_file_with_hash_kind against the writes of Index::to_file).
LoadsWhole == \A s \in Sessions : ses[s].base \in saved

\* An entry that Index::refresh wrote and that Index::is_modified takes for
\* unchanged names the contents the regular file has now, unless the file was
\* last changed in the very tick in which the refresh looked at its metadata:
\* that is taken before the contents are read, so a write in between, or any
\* later one, shows.
RefreshHonest ==
  \A s \in Sessions : \A k \in DOMAIN ses[s].fresh :
    LET e == ses[s].mem[k]
        f == work[k[1]]
    IN (f.type = "file" /\ ~IsModified(e, f) /\ f.ctime # ses[s].fresh[k])
         => e.hash = BlobId(e.hash.kind, f.data)
=============================================================================
