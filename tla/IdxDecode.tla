------------------------------ MODULE IdxDecode ------------------------------
(***************************************************************************)
(* Decoding a pack file that may have an index beside it: the index is      *)
(* read, two threads follow its offsets through the pack to count which     *)
(* objects are delta bases, and the decoder then checks every offset, CRC,  *)
(* name and checksum the index supplied.  Every job of the pool is here,    *)
(* with unbounded caches and any number of workers: lookup, waitlist,       *)
(* second lookup, rebuilding, and the claims that deltas consume.           *)
(* PackDecode has the finer steps of these jobs, bounded caches and the     *)
(* reader's limits.                                                         *)
(*                                                                          *)
(* The pack is a sequence of units: the header with the count, per object a *)
(* head, the base reference of a delta and the data, and the checksum.  The *)
(* name of an object is its content, a number; a delta adds to its base.    *)
(***************************************************************************)
EXTENDS Integers, Sequences, FiniteSets, SequencesExt, FiniteSetsExt

CONSTANTS IdxCases,    \* the pack's objects, its bytes on disk, the index, the mode
          PrefixLen,   \* PACK_OBJECT_PREFIX_READ_SIZE
          WindowLen    \* PACK_SCAN_WINDOW_SIZE

VARIABLES icase,       \* the case
          listed,       \* what the index says, in order of offset
          scanners,        \* the scanning threads
          counts,      \* DecodeRetention: dependencies counted, as a set of <<offset, key>>
          idec         \* the decoder

Idx == INSTANCE PackIndex WITH Buckets <- 2, Spread <- 8, MaxSmall <- 9

-----------------------------------------------------------------------------
(* The bytes of a pack.                                                     *)

HeadUnit(t) == [u |-> "head", type |-> t]
DataUnit(v) == [u |-> "data", v |-> v]
DistanceUnit(d) == [u |-> "distance", d |-> d]
NameUnit(n) == [u |-> "name", n |-> n]

EntryLen(o) == IF o.type = "base" THEN 2 ELSE 3

\* The header is one unit; an object starts where the one before it ends.
StartOf(objs, i) == FoldLeft(LAMBDA n, o: n + EntryLen(o), 1, SubSeq(objs, 1, i - 1))

EntryUnits(objs, i) ==
  LET o == objs[i]
  IN  <<HeadUnit(o.type)>>
      \o (CASE o.type = "base" -> <<DataUnit(o.content)>>
            [] o.type = "ofs" -> <<DistanceUnit(StartOf(objs, i) - StartOf(objs, o.base)),
                                   DataUnit(o.content - objs[o.base].content)>>
            [] o.type = "ref" -> <<NameUnit(objs[o.base].content),
                                   DataUnit(o.content - objs[o.base].content)>>)

PackBody(objs) ==
  <<[u |-> "count", n |-> Len(objs)]>> \o FlattenSeq([i \in DOMAIN objs |-> EntryUnits(objs, i)])
SumUnit(kind, units) == [u |-> "sum", of |-> Idx!Digest(kind, units)]
WholeFile(kind, objs) == Append(PackBody(objs), SumUnit(kind, PackBody(objs)))

TrueEntries(objs) ==
  [i \in DOMAIN objs |-> [hash |-> objs[i].content, crc32 |-> EntryUnits(objs, i),
                          offset |-> StartOf(objs, i)]]

OffsetDep(o) == <<"offset", o>>
HashDep(n) == <<"hash", n>>

\* The dependencies of a pack, each by the offset of the delta that has it.
TrueCounts(objs) ==
  {<<StartOf(objs, i), IF objs[i].type = "ofs" THEN OffsetDep(StartOf(objs, objs[i].base))
                       ELSE HashDep(objs[objs[i].base].content)>> :
     i \in {j \in DOMAIN objs: objs[j].type # "base"}}

-----------------------------------------------------------------------------
Disk == icase.disk
Number == Disk[1].n
NotRead == [read |-> FALSE, entries |-> << >>, crcs |-> FALSE, pack_hash |-> << >>]
IdleThread == [todo |-> << >>, start |-> 0, win |-> << >>, failed |-> FALSE]

IdxStart ==
  /\ listed = NotRead
  /\ scanners = << >>
  /\ counts = {}
  /\ idec = [pc |-> "open", i |-> 1, off |-> 1, bases |-> {}, jobs |-> {}, missed |-> {},
             pending |-> {}, again |-> {}, ready |-> {}, used |-> {}, kept |-> {}, out |-> {},
             error |-> FALSE]

IdxInit == icase \in IdxCases /\ IdxStart

Refuse == idec' = [idec EXCEPT !.pc = "fail"]

-----------------------------------------------------------------------------
(* Reading the index                                                        *)

\* The magic decides the version; version 1 is for SHA-1 repositories only.
ParseIdx(file) ==
  CASE file[1] = Idx!Magic -> Idx!ParseIdxV2(file, icase.kind)
    [] file[1] # Idx!Magic /\ icase.kind = "sha1" -> Idx!ParseIdxV1(file)
    [] OTHER -> [ok |-> FALSE]

ByOffset(entries) == SortSeq(entries, LAMBDA a, b: a.offset < b.offset)

OffsetsDistinct(list) == \A i \in 1 .. Len(list) - 1: list[i].offset # list[i + 1].offset

\* The offsets are cut into one run per thread, two threads at most.
Chunks2(list) ==
  LET n == Len(list)
      size == (n + 1) \div 2
  IN  IF n <= 1 THEN <<list>> ELSE <<SubSeq(list, 1, size), SubSeq(list, size + 1, n)>>

\* No index: the pack itself is walked from start to end, which also checks
\* that the objects are whole and the checksum ends the file.
ScanPack ==
  /\ idec.pc = "open" /\ icase.found = "missing"
  /\ IF Len(Disk) = Len(PackBody(icase.objs)) + 1
     THEN counts' = TrueCounts(icase.objs) /\ idec' = [idec EXCEPT !.pc = "decode"]
     ELSE Refuse /\ UNCHANGED counts
  /\ UNCHANGED <<icase, listed, scanners>>

\* An index that is there but cannot be opened is an error, never a missing one.
Unreadable ==
  /\ idec.pc = "open" /\ icase.found = "unreadable"
  /\ Refuse /\ UNCHANGED <<icase, listed, scanners, counts>>

ReadIndex ==
  /\ idec.pc = "open" /\ icase.found = "present"
  /\ LET parsed == ParseIdx(icase.idx)
         list == ByOffset(parsed.entries)
     IN  IF parsed.ok /\ OffsetsDistinct(list) /\ Len(list) = Number
         THEN /\ listed' = [read |-> TRUE, entries |-> list,
                           crcs |-> icase.idx[1] = Idx!Magic, pack_hash |-> parsed.pack_hash]
              /\ scanners' = [t \in DOMAIN Chunks2(list) |-> [IdleThread EXCEPT !.todo = Chunks2(list)[t]]]
              /\ idec' = [idec EXCEPT !.pc = "scan"]
         ELSE Refuse /\ UNCHANGED <<listed, scanners>>
  /\ UNCHANGED <<icase, counts>>

-----------------------------------------------------------------------------
(* scan_object_dependencies_from_index_window, by each thread               *)

NeedsRefill(th, off) ==
  th.win = << >> \/ off < th.start \/ off + PrefixLen > th.start + Len(th.win)

Window(th, off) ==
  IF NeedsRefill(th, off)
  THEN [th EXCEPT !.start = off, !.win = SubSeq(Disk, off + 1, Min({off + WindowLen, Len(Disk)}))]
  ELSE th

Prefix(th, off) == SubSeq(th.win, off - th.start + 1, Min({off - th.start + PrefixLen, Len(th.win)}))

\* What the header bytes at an offset may be read as: no dependency, one, or an
\* error.  Bytes that are no header can be read as any of the three.
HeaderReads(prefix) ==
  CASE prefix = << >> -> {"error"}
    [] prefix # << >> /\ prefix[1].u # "head" -> {"error", "none", "other"}
    [] prefix # << >> /\ prefix[1] = HeadUnit("base") -> {"none"}
    [] OTHER -> IF Len(prefix) > 1 THEN {"dep"} ELSE {"error"}

DependencyAt(prefix, off) ==
  IF prefix[2].u = "distance" THEN OffsetDep(off - prefix[2].d) ELSE HashDep(prefix[2].n)

ScanOne(t) ==
  /\ idec.pc = "scan" /\ scanners[t].todo # << >> /\ ~scanners[t].failed
  /\ LET off == Head(scanners[t].todo).offset
         th == Window(scanners[t], off)
         prefix == Prefix(th, off)
     IN \E r \in HeaderReads(prefix) :
          /\ scanners' = [scanners EXCEPT ![t] = [th EXCEPT !.todo = Tail(@), !.failed = (r = "error")]]
          /\ counts' = CASE r = "dep" -> counts \union {<<off, DependencyAt(prefix, off)>>}
                         [] r = "other" -> counts \union {<<off, OffsetDep(1)>>}
                         [] OTHER -> counts
  /\ UNCHANGED <<icase, listed, idec>>

\* The scope ends when both threads have.
JoinScan ==
  /\ idec.pc = "scan" /\ \A t \in DOMAIN scanners: scanners[t].todo = << >> \/ scanners[t].failed
  /\ IF \E t \in DOMAIN scanners: scanners[t].failed THEN Refuse ELSE idec' = [idec EXCEPT !.pc = "decode"]
  /\ UNCHANGED <<icase, listed, scanners, counts>>

-----------------------------------------------------------------------------
(* The decoder                                                              *)

Indexed == listed.read

\* The keys of an object in the caches, the counters and the waitlist.
Keys(b) == {OffsetDep(b.off), HashDep(b.content)}

\* should_retain: some delta counted by the scan has not consumed its claim.
Retained(d, b) ==
  \E k \in Keys(b) : Cardinality({c \in counts: c[2] = k}) > Cardinality({u \in d.used: u[2] = k})

\* Fault: the name that justified skipping an object is taken on trust.
NameOk_Trusted(i, name, skipped) == skipped \/ ~Indexed \/ listed.entries[i].hash = name

\* verify_known_hash: also of an object that is hashed and dropped.
NameOk(i, name, skipped) == ~Indexed \/ listed.entries[i].hash = name

\* verify_known_crc: a version 1 index has no CRCs.
CrcOk(i, units) == listed.crcs => listed.entries[i].crc32 = units

\* An object is skipped by the name the index has for it, waiting deltas or not.
Skipped(i) ==
  /\ icase.skip /\ Indexed
  /\ ~Retained(idec, [off |-> idec.off, content |-> listed.entries[i].hash])

\* A delta gives up its claim on its base.
Consumed(d, p) == [d EXCEPT !.used = @ \union {<<p.off, p.needs>>}]

\* maybe_remove_released_base, of unbounded caches.
Released(d, b) ==
  [d EXCEPT !.kept = IF Retained(d, b) THEN @ ELSE {k \in @: k.key \notin Keys(b)}]

\* process_waitlist: every delta that waits for the object is to be rebuilt.
Woken(d, b) ==
  LET taken == {p \in d.pending: p.needs \in Keys(b)}
  IN  [d EXCEPT !.pending = @ \ taken,
                !.ready = @ \union {[delta |-> p, base |-> b.content] : p \in taken}]

\* An object that is still claimed is cached; a callback gets them all.
Finished(d, b) ==
  Woken([d EXCEPT !.kept = IF Retained(d, b)
                           THEN @ \union {[key |-> k, off |-> b.off, content |-> b.content] : k \in Keys(b)}
                           ELSE @,
                  !.out = IF icase.callback THEN @ \union {[off |-> b.off, name |-> b.content]} ELSE @], b)

OffsetOk == Indexed => listed.entries[idec.i].offset = idec.off

\* The object at the reader's place, if it is whole.
Here == LET end == idec.off + (IF Disk[idec.off + 1] = HeadUnit("base") THEN 2 ELSE 3)
        IN  SubSeq(Disk, idec.off + 1, Min({end, Len(Disk)}))
HereWhole == /\ Len(Disk) > idec.off
             /\ Disk[idec.off + 1].u = "head"
             /\ Here[Len(Here)].u = "data"

\* The reader finishes a base itself unless a callback wants it; deltas go to the pool.
DecodeObject ==
  /\ idec.pc = "decode" /\ idec.i <= Number
  /\ IF ~OffsetOk \/ ~HereWhole THEN Refuse
     ELSE LET next == [idec EXCEPT !.i = @ + 1, !.off = @ + Len(Here)]
              data == Here[Len(Here)].v
              base == [off |-> idec.off, content |-> data]
          IN  IF ~CrcOk(idec.i, Here) THEN Refuse
              ELSE IF Here[1] = HeadUnit("base")
              THEN CASE ~NameOk(idec.i, data, Skipped(idec.i)) -> Refuse
                     [] NameOk(idec.i, data, Skipped(idec.i)) /\ Skipped(idec.i) -> idec' = next
                     [] OTHER -> idec' = IF icase.callback THEN [next EXCEPT !.bases = @ \union {base}]
                                         ELSE Finished(next, base)
              ELSE idec' = [next EXCEPT !.jobs = @ \union
                              {[i |-> idec.i, off |-> idec.off, adds |-> data,
                                needs |-> DependencyAt(Here, idec.off)]}]
  /\ UNCHANGED <<icase, listed, scanners, counts>>

BaseOf(p) == {k \in idec.kept: k.key = p.needs}

(* The jobs of the pool, also while the call is being abandoned.            *)

CacheBase ==
  /\ \E b \in idec.bases : idec' = Finished([idec EXCEPT !.bases = @ \ {b}], b)
  /\ UNCHANGED <<icase, listed, scanners, counts>>

\* process_delta_dependency: the first lookup, and what follows when it finds the base.
LookUp ==
  /\ \E p \in idec.jobs :
       LET rest == [idec EXCEPT !.jobs = @ \ {p}]
       IN  \/ /\ BaseOf(p) = {}
              /\ idec' = [rest EXCEPT !.missed = @ \union {p}]
           \/ \E b \in BaseOf(p) :
                idec' = [Released(Consumed(rest, p), b) EXCEPT
                           !.ready = @ \union {[delta |-> p, base |-> b.content]}]
  /\ UNCHANGED <<icase, listed, scanners, counts>>

\* It goes on the waitlist and gives up its claim.
WaitForBase ==
  /\ \E p \in idec.missed :
       idec' = [Consumed(idec, p) EXCEPT !.missed = @ \ {p}, !.pending = @ \union {p},
                                         !.again = @ \union {p}]
  /\ UNCHANGED <<icase, listed, scanners, counts>>

\* Then it looks once more.
LookAgain ==
  /\ \E p \in idec.again :
       LET rest == [idec EXCEPT !.again = @ \ {p}]
       IN  \/ BaseOf(p) = {} /\ idec' = rest
           \/ \E b \in BaseOf(p) : idec' = Woken(Released(rest, b), b)
  /\ UNCHANGED <<icase, listed, scanners, counts>>

\* process_delta: the rebuilt object is checked against the index and finished.
Rebuild ==
  /\ \E r \in idec.ready :
       LET object == [off |-> r.delta.off, content |-> r.base + r.delta.adds]
           rest == [idec EXCEPT !.ready = @ \ {r}]
       IN  idec' = IF NameOk(r.delta.i, object.content, FALSE) THEN Finished(rest, object)
                   ELSE [rest EXCEPT !.error = TRUE]
  /\ UNCHANGED <<icase, listed, scanners, counts>>

PoolIdle == idec.bases = {} /\ idec.jobs = {} /\ idec.missed = {} /\ idec.again = {} /\ idec.ready = {}

\* The checksum that ends the file against the index's copy and the running hash.
ReadTrailer ==
  /\ idec.pc = "decode" /\ idec.i > Number
  /\ IF /\ Len(Disk) = idec.off + 1
        /\ Disk[idec.off + 1] = SumUnit(icase.kind, SubSeq(Disk, 1, idec.off))
        /\ Indexed => listed.pack_hash = Disk[idec.off + 1].of
     THEN idec' = [idec EXCEPT !.pc = "join"] ELSE Refuse
  /\ UNCHANGED <<icase, listed, scanners, counts>>

\* The pool is joined; a worker's error or a delta still waiting fails the call.
JoinPool ==
  /\ idec.pc = "join" /\ PoolIdle
  /\ idec' = [idec EXCEPT !.pc = IF idec.error \/ idec.pending # {} THEN "fail" ELSE "ok"]
  /\ UNCHANGED <<icase, listed, scanners, counts>>

IdxNext == \/ ScanPack \/ Unreadable \/ ReadIndex \/ JoinScan
           \/ \E t \in DOMAIN scanners: ScanOne(t)
           \/ DecodeObject \/ CacheBase \/ LookUp \/ WaitForBase \/ LookAgain \/ Rebuild
           \/ ReadTrailer \/ JoinPool

idxVars == <<icase, listed, scanners, counts, idec>>

-----------------------------------------------------------------------------
SoundDisk == Disk = WholeFile(icase.kind, icase.objs)

\* The index lists exactly the pack's objects under this pack's checksum.
TrueIdx ==
  LET parsed == ParseIdx(icase.idx)
      list == ByOffset(parsed.entries)
      want == TrueEntries(icase.objs)
  IN  /\ parsed.ok /\ Len(list) = Len(want)
      /\ parsed.pack_hash = Idx!Digest(icase.kind, PackBody(icase.objs))
      /\ \A i \in DOMAIN want: /\ list[i].offset = want[i].offset /\ list[i].hash = want[i].hash
                               /\ icase.idx[1] = Idx!Magic => list[i].crc32 = want[i].crc32

\* Two deltas on one base, or one that a skipping decode meets before its base.
Shared == \E i, j \in DOMAIN icase.objs :
            i # j /\ icase.objs[i].base # 0 /\ icase.objs[i].base = icase.objs[j].base
LateBase == \E i \in DOMAIN icase.objs : icase.objs[i].type = "ref" /\ icase.objs[i].base > i

\* decode_file with an index beside the pack succeeds only if the pack is whole
\* and the index names each of its objects, at its offset and with its CRC.  No
\* check of the index refuses a sound pack with a true index or none: such a
\* pack fails only at the end, for a delta left waiting, and only if two deltas
\* share a base (one releases it while the other looks for it) or the base of a
\* delta before it was skipped.  What the two scanning threads count for a true
\* index is what a walk through the pack counts, and every claim is consumed;
\* whatever the index says, a sound pack's objects are only handed to the
\* callback under their own names.
IndexVerified ==
  /\ idec.pc = "ok" => SoundDisk /\ (icase.found = "missing" \/ TrueIdx)
  /\ idec.pc = "fail" =>
       \/ ~SoundDisk \/ icase.found = "unreadable" \/ (icase.found = "present" /\ ~TrueIdx)
       \/ /\ idec.i > Number /\ ~idec.error /\ idec.pending # {}
          /\ Shared \/ (icase.skip /\ Indexed /\ LateBase)
  /\ idec.pc = "ok" => counts = TrueCounts(icase.objs) /\ idec.used = counts
  /\ SoundDisk => \A e \in idec.out : \E i \in DOMAIN icase.objs :
                    e.off = StartOf(icase.objs, i) /\ e.name = icase.objs[i].content
  /\ idec.pc = "ok" /\ icase.callback => Cardinality(idec.out) = Len(icase.objs)
=============================================================================
