--------------------------- MODULE MCComponents ---------------------------
(* The components that share no state, checked side by side: a behaviour
   picks one part, whose module alone takes steps while the variables of the
   others rest. The definitions give each part its small instance.          *)
EXTENDS IndexFile, PackReaders, DeltaCodec, AgentObjects, GitObjects, LineDiff, PackTransfer,
        IdxDecode

VARIABLE part

Parts == {"index", "readers", "delta", "agent", "git", "diff", "transfer", "idx"}
-----------------------------------------------------------------------------
(* IndexFile: two programs on one index file, then one that refreshes while
   the working tree changes under it.                                       *)

WorkFile(c) == [type |-> "file", data |-> c, ctime |-> 0, mtime |-> 0]
WorkLink(to) == [type |-> "link", to |-> to, linkLen |-> 2, ctime |-> 0, mtime |-> 0]
MCNames == <<"ab", "d/f", "long">>
MCNameLen == ("ab" :> 2 @@ "d/f" :> 3 @@ "long" :> 5000)
MCBelow == ("d" :> {"d/f"})
MCContentSize == ("x" :> 1 @@ "y" :> 1 @@ "z" :> 2)
MCWork == ("ab" :> WorkFile("x") @@ "d/f" :> WorkLink("ab") @@ "long" :> NoFile)

Staged1 == FromBlob("ab", BlobId("sha1", "x"), 1)
Staged2 == [FromBlob("d/f", BlobId("sha1", "z"), 2) EXCEPT !.flags.stage = 2]
StartEntries == With(With(NoEntries, Staged1), Staged2)
StartRecords == <<HeadRecord(StartEntries), EntryRecord(Staged1), EntryRecord(Staged2),
                  [t |-> "ext", optional |-> TRUE]>>
StartFile == [entries |-> StartEntries,
              records |-> Append(StartRecords, SumRecord("sha1", StartRecords))]
NoIndex == [entries |-> NoEntries, records |-> Absent]

CallOf(o) == [op |-> o]
AddOf(n, k, d, skip) == [op |-> "blob", name |-> n, kind |-> k, data |-> d, stage |-> 0,
                         skip |-> skip, intent |-> FALSE]
OnName(o, n) == [op |-> o, name |-> n]
PlanOf(start, a, ka, b, kb, t) ==
  [start |-> start, calls |-> ("s1" :> a @@ "s2" :> b), kinds |-> ("s1" :> ka @@ "s2" :> kb),
   ticks |-> t]
MCPlans == {
  PlanOf(StartFile,
    <<CallOf("load"), AddOf("ab", "sha1", "z", FALSE), AddOf("d/f", "sha1", "y", TRUE),
      [op |-> "remove", name |-> "d/f", stage |-> 2], CallOf("save")>>, "sha1",
    <<CallOf("load"), [op |-> "remove_dir", dir |-> "d"], AddOf("d/f", "sha1", "z", FALSE),
      CallOf("save"), CallOf("load")>>, "sha1", 0),
  PlanOf(StartFile,
    <<CallOf("load"), AddOf("long", "sha1", "x", FALSE), CallOf("save")>>, "sha1",
    <<CallOf("load"), AddOf("ab", "sha256", "x", FALSE), CallOf("save")>>, "sha1", 0),
  PlanOf(NoIndex, <<CallOf("save"), CallOf("load")>>, "sha256", <<CallOf("load")>>, "sha1", 0),
  PlanOf(StartFile,
    <<CallOf("load"), OnName("refresh", "ab"), OnName("refresh", "d/f"), OnName("add", "d/f"),
      OnName("refresh", "d/f"), OnName("add", "ab"), OnName("refresh", "ab")>>, "sha1",
    << >>, "sha1", 4)}

IndexIdle == plan = (CHOOSE p \in MCPlans : p.start = NoIndex) /\ IndexStart
-----------------------------------------------------------------------------
(* PackReaders: a pack of four units and its trailer, or a damaged, short,
   failing or over-long one, cut into chunks in every way.                  *)

GoodBody == <<Unit(1), Unit(2), Unit(3), Unit(4)>>
GoodPack == GoodBody \o DigestUnits(GoodBody)
BadPack == <<Unit(1), Unit(2), Unit(9), Unit(4)>> \o DigestUnits(GoodBody)
DecodeSteps == <<[how |-> "read", n |-> 1], [how |-> "read", n |-> 1],
                 [how |-> "inflate", n |-> 2], [how |-> "read", n |-> 2]>>
Chunks(us, c) == <<SubSeq(us, 1, c[1]), SubSeq(us, c[1] + 1, c[2]), SubSeq(us, c[2] + 1, Len(us))>>
Cuts == {c \in (0..6) \X (0..6) : c[1] <= c[2]}
StreamOf(items, large, full) ==
  [items |-> items, steps |-> DecodeSteps, large |-> large, diskFull |-> full]
NonEmpty(items) == SelectSeq(items, LAMBDA c : c # << >>)
MCStreams ==
  {StreamOf(NonEmpty(Chunks(p, c)), l, FALSE) : p \in {GoodPack, BadPack}, c \in Cuts, l \in BOOLEAN}
  \union {StreamOf(Chunks(GoodPack, c), l, TRUE) : c \in Cuts, l \in BOOLEAN}
  \union {StreamOf(NonEmpty(Chunks(SubSeq(GoodPack, 1, 4), c)) \o e, l, FALSE) :
            c \in {d \in Cuts : d[2] <= 4}, e \in {<< >>, <<ErrItem>>}, l \in BOOLEAN}
  \union {StreamOf(<<GoodPack>> \o e, l, FALSE) :
            e \in {<< <<Unit(7)>> >>, << << >>, <<Unit(7)>> >>, <<ErrItem>>}, l \in BOOLEAN}

(* At rest a call has ended: nothing is left to do and nothing to wait for.  *)
ReadersIdle ==
  /\ input = StreamOf(<< >>, FALSE, TRUE)
  /\ feeder = [items |-> << >>, done |-> TRUE]
  /\ chan = << >> /\ buf = << >>
  /\ dec = [pc |-> "panic", at |-> 1, left |-> 0, seen |-> << >>, payload |-> << >>,
            tail |-> << >>, tmp |-> << >>, werr |-> TRUE]
-----------------------------------------------------------------------------
(* DeltaCodec: all short binary strings, with and without a size limit.     *)

Bits(n) == BoundedSeq({0, 1}, n)
DeltaOf(o, n, via, max) == [old |-> o, new |-> n, via |-> via, max |-> max]
MCJobs ==
  {DeltaOf(o, n, "rabin", NoLimit) : o \in Bits(5), n \in Bits(5)}
  \union {DeltaOf(o, n, "diff", NoLimit) : o \in Bits(3), n \in Bits(4)}
  \union {DeltaOf(o, n, "rabin", 9) : o \in {<<0, 1, 1, 0, 1, 0>>, <<1, 1, 1, 0, 0, 1>>}, n \in Bits(5)}
  \union {DeltaOf(o, o, "rabin", NoLimit) : o \in Bits(7)}

DeltaIdle == job = DeltaOf(<< >>, << >>, "diff", NoLimit) /\ DeltaStart
-----------------------------------------------------------------------------
(* AgentObjects: every type.                                                *)

MCAgentTypes == DOMAIN Schemas
-----------------------------------------------------------------------------
(* GitObjects: objects built with names, mails and messages that hold the
   format's own separators and digests that hold a NUL or a space; and bytes
   another program wrote.                                                   *)

MCIds == [a2 |-> <<"x", "y">>, n2 |-> <<"0", " ">>, a3 |-> <<"x", "0", "y">>, n3 |-> <<"0", "0", "100644">>]
IdsOf(kind) == IF kind = "Sha1" THEN {"a2", "n2"} ELSE {"a3", "n3"}
SigBy(role, name, email) == [role |-> role, name |-> name, email |-> email, time |-> "7", zone |-> "+0800"]
People == {<< <<"ada">>, <<"a@b">> >>, << << >>, <<"a@b">> >>, << <<"ada", " ", "l">>, << >> >>,
           << <<"a", " ", "<", "b">>, <<"c">> >>, << <<"ada", " ">>, <<"a", "<", "b">> >>}
Messages == {<< >>, <<"\n", "hi">>, <<"parent", " ", "a2", "\n", "\n", "tagger", " ", "x">>}
TreesOf(kind) ==
  {[type |-> "Tree", items |-> its] : its \in
     {<<[mode |-> m, name |-> n, id |-> Ref(kind, i)]>> :
        m \in {"Blob", "Link"}, n \in {<<"f">>, <<"f", " ", "g">>}, i \in IdsOf(kind)}
     \union {<<[mode |-> "Tree", name |-> <<"d">>, id |-> Ref(kind, i)],
               [mode |-> "Commit", name |-> <<"s">>, id |-> Ref(kind, j)]>> : i, j \in IdsOf(kind)}
     \union {<< >>}}
CommitsOf(kind) ==
  {[type |-> "Commit", tree |-> Ref(kind, t), parents |-> ps, author |-> SigBy("author", p[1], p[2]),
    committer |-> SigBy("committer", <<"bot">>, <<"b">>), message |-> msg] :
     t \in IdsOf(kind), ps \in {<< >>, <<Ref(kind, CHOOSE i \in IdsOf(kind) : TRUE)>>},
     p \in People, msg \in Messages}
TagsOf(kind) ==
  {[type |-> "Tag", object |-> Ref(kind, t), of_type |-> "commit", name |-> n,
    tagger |-> SigBy("tagger", p[1], p[2]), message |-> msg] :
     t \in IdsOf(kind), n \in {<<"v1">>, <<"v", "\n", "object", " ", "a2">>}, p \in People, msg \in Messages}
NotesOf(kind) == {[type |-> "Note", target |-> Ref(kind, t), content |-> c] :
                    t \in IdsOf(kind), c \in Messages \ {<< >>}}

Ways == {"kind", "thread"}
BuildOf(how, kind, obj, reads) == [how |-> how, kind |-> kind, obj |-> obj, reads |-> reads]
Built == UNION {
  {BuildOf(h, k, o, <<"x", "intr", "x", "x">>) : h \in Ways, o \in TreesOf(k) \union CommitsOf(k) \union TagsOf(k)}
  \union {BuildOf(h, k, o, r) : h \in Ways, o \in NotesOf(k),
            r \in {<<"x", "intr", "x", "x">>, <<"x", "x", "eof">>, <<"x", "fail">>}} : k \in Kinds}
MixedKinds == {BuildOf(h, k, o, <<"x", "x", "x">>) : h \in Ways, k \in Kinds,
                 o \in UNION {TreesOf(j) : j \in Kinds}}

RawTrees == {<<m, " ">> \o n \o <<"0">> \o b : m \in {"100644", "100664", "bogus"},
               n \in {<<"f">>, <<"f", "gbk">>, <<"bad">>},
               b \in {<<"x", "y">>, <<"0", " ">>, <<"x", "0", "y">>, <<"x">>}}
Stamp(mail, time, zone) == <<"<", mail, ">", " ", time, " ", zone>>
RawCommit(lines) == <<"tree", " ", "a2", "\n">> \o lines
                      \o <<"\n", "committer", " ", "c", " ">> \o Stamp("c", "7", "+0000") \o <<"\n", "m">>
RawCommits == {RawCommit(s) : s \in {
   <<"author", " ">> \o Stamp("a", "7", "+0000"),
   <<"author", " ", "n", " ">> \o Stamp("a", "007", "+0000"),
   <<"author", " ", "n", " ">> \o Stamp("a", "7", "+0000"),
   <<"author", " ", "n">> \o Stamp("a", "7", "+0000"),
   <<"author", " ", "n", " ">> \o Stamp("a", "7", "zone"),
   <<"parent", " ", "a3", "\n", "author", " ", "n", " ">> \o Stamp("a", "7", "+0000"),
   <<"gpgsig", " ", "x">>}}
RawTag(lines) == <<"object", " ", "a2", "\n", "type", " ", "commit", "\n">> \o lines
Tagger == <<"tagger", " ", "t", " ">> \o Stamp("t", "7", "+0000")
RawTags == {RawTag(s) : s \in {
   <<"tag", " ", "v", "\n">> \o Tagger \o <<"\n", "\n", "m">>,
   <<"tag", " ", "v", "\n">> \o Tagger \o <<"\n">>,
   <<"tag", " ", "v", "\r", "\n">> \o Tagger \o <<"\n", "\n", "m">>,
   <<"tag", " ", "v", "\n">> \o Tagger \o <<"\n", "tag", " ", "w", "\n", "\n", "m", "bad">>,
   Tagger \o <<"\n", "\n", "m">>}}
RawOf(type, raws) == {[raw |-> r, type |-> type, kind |-> k] : r \in raws, k \in Kinds}
MCGit == Built \union MixedKinds \union RawOf("Tree", RawTrees) \union RawOf("Commit", RawCommits)
           \union RawOf("Tag", RawTags) \union RawOf("Note", {<<"t">>, <<"bad">>})

GitIdle ==
  /\ gjob = (CHOOSE g \in RawOf("Note", {<<"t">>}) : g.kind = "Sha1") /\ tls = "Sha1"
  /\ GitStart
-----------------------------------------------------------------------------
(* LineDiff: files added, removed and changed, in and out of the filter, with
   lines that end in LF and in CR LF and with and without a last newline.    *)

MCUnder == [a |-> {"d"}, b |-> {}, c |-> {"d", "c"}]
FileMaps == {[a |-> 1, b |-> 1], [a |-> 2, c |-> 1], [b |-> 1]}
DiffOf(o, n, f, x, t, l) == [old |-> o, new |-> n, filter |-> f, file |-> x, text |-> t, crlf |-> l]
MCDiffs ==
  {c \in {DiffOf(o, n, f, x, TRUE, {2, 4, 5}) : o, n \in FileMaps, f \in {{}, {"d"}}, x \in {"a", "b", "c"}} :
     c.file \in DOMAIN c.old \union DOMAIN c.new}
  \union {DiffOf([a |-> 1], [a |-> 2], {}, "a", FALSE, {})}

DiffIdle == dcase = [c |-> DiffOf([a |-> 1], [a |-> 2], {}, "a", FALSE, {}), at |-> "read"] /\ LinesStart
-----------------------------------------------------------------------------
(* PackTransfer: sizes and distances of one, two and three groups; right,
   permuted, shifted, doubled and short indexes; breaks at every byte.      *)

MCPayload == ("side-band" :> 3 @@ "side-band-64k" :> 40)
MCInflated == [c |-> 0, t |-> 1, b |-> 2, d |-> 40, e |-> 600, h |-> 5]
MCPacked == [c |-> 1, t |-> 2, b |-> 3, d |-> 20, e |-> 4, h |-> 290]
EntryOf(t, d, b) == [type |-> t, data |-> d, base |-> b]
FarPack == <<EntryOf("Blob", "h", 0), EntryOf("OffsetDelta", "c", 1), EntryOf("OffsetDelta", "t", 1)>>
NearPacks == {
  <<EntryOf("Commit", "c", 0), EntryOf("Tree", "t", 0), EntryOf("OffsetDelta", "b", 1)>>,
  <<EntryOf("Blob", "d", 0), EntryOf("OffsetZstdelta", "e", 1), EntryOf("OffsetDelta", "c", 2)>>,
  <<EntryOf("Tag", "e", 0), EntryOf("HashDelta", "t", 1), EntryOf("Blob", "b", 0)>>}
Listed(of, at, off) == [of |-> of, at |-> at, off |-> off]
RightIdx == <<Listed(1, 1, 0), Listed(2, 2, 0), Listed(3, 3, 0)>>
Idxs == {<< >>, RightIdx,
         <<Listed(1, 1, 0), Listed(3, 2, 0), Listed(2, 3, 0)>>,
         <<Listed(3, 1, 0), Listed(2, 2, 0), Listed(1, 3, 0)>>,
         <<Listed(1, 1, 0), Listed(2, 2, 1), Listed(3, 3, 0)>>,
         <<Listed(1, 1, 0), Listed(2, 1, 0), Listed(3, 3, 0)>>,
         <<Listed(1, 1, 0), Listed(2, 2, 0)>>}
Transfer(p, i, own, caps, breaks) ==
  [entries |-> p, idx |-> i, idxOfThisPack |-> own, caps |-> caps, breaks |-> breaks]
MCTransfers ==
  {Transfer(p, i, TRUE, {"side-band-64k"}, FALSE) : p \in NearPacks \union {FarPack}, i \in Idxs}
  \union {Transfer(p, RightIdx, own, caps, FALSE) : p \in NearPacks, own \in BOOLEAN,
            caps \in {{}, {"side-band"}, {"side-band", "side-band-64k"}}}
  \union {Transfer(p, << >>, TRUE, caps, TRUE) : p \in {q \in NearPacks : q[1].data \in {"c", "e"}},
            caps \in {{}, {"side-band"}, {"side-band-64k"}}}

TransferIdle == tcase = Transfer(FarPack, << >>, TRUE, {"side-band-64k"}, FALSE) /\ TransferStart
-----------------------------------------------------------------------------
(* IdxDecode: packs with deltas of both kinds, on and before their bases, with
   no index, a true one, and every index that swaps, moves, doubles, drops or
   adds one thing, of both versions and of a foreign kind.                   *)

ObjOf(t, b, c) == [type |-> t, base |-> b, content |-> c]
MCObjs == {
  << >>,
  <<ObjOf("base", 0, 5)>>,
  <<ObjOf("ref", 2, 9), ObjOf("base", 0, 5)>>,
  <<ObjOf("base", 0, 5), ObjOf("ofs", 1, 7), ObjOf("base", 0, 1)>>,
  <<ObjOf("ref", 2, 9), ObjOf("base", 0, 5), ObjOf("ofs", 2, 12), ObjOf("ref", 3, 14)>>,
  <<ObjOf("base", 0, 5), ObjOf("base", 0, 11), ObjOf("ofs", 2, 12), ObjOf("ofs", 1, 6)>>}
SwapField(es, i, j) ==
  {[es EXCEPT ![i].hash = es[j].hash, ![j].hash = es[i].hash],
   [es EXCEPT ![i].crc32 = es[j].crc32, ![j].crc32 = es[i].crc32],
   [es EXCEPT ![i].offset = es[j].offset, ![j].offset = es[i].offset]}
OneOff(es, i) ==
  {[es EXCEPT ![i].hash = 15], [es EXCEPT ![i].offset = @ + 1], [es EXCEPT ![i].offset = 30],
   [es EXCEPT ![i].offset = es[1].offset], RemoveAt(es, i), Append(es, [es[i] EXCEPT !.hash = 15])}
EntriesOf(objs) ==
  LET es == TrueEntries(objs)
  IN  {es} \union UNION {OneOff(es, i) : i \in DOMAIN es}
      \union UNION {SwapField(es, i, j) : i, j \in DOMAIN es}

IdxV1File(es, sum) ==
  LET body == Idx!Fanout(es)
              \o FlattenSeq([i \in DOMAIN es |-> <<Idx!Word(es[i].offset), Idx!Name("sha1", es[i].hash)>>])
              \o <<sum>>
  IN  Append(body, Idx!Digest("sha1", body))
IdxOf(found, idx, kind, objs, disk, skip, callback) ==
  [found |-> found, idx |-> idx, kind |-> kind, objs |-> objs, disk |-> disk, skip |-> skip,
   callback |-> callback]
Damaged(disk) == [i \in DOMAIN disk |-> IF disk[i].u = "data" THEN DataUnit(disk[i].v + 1) ELSE disk[i]]
DisksOf(kind, objs) ==
  LET whole == WholeFile(kind, objs)
  IN  {whole, Damaged(whole)} \union {SubSeq(whole, 1, n) : n \in 1 .. Len(whole) - 1}
Modes == {<<TRUE, FALSE>>, <<FALSE, FALSE>>, <<FALSE, TRUE>>}
PackSum(kind, objs) == Idx!Digest(kind, PackBody(objs))
MCIdxCases ==
  {IdxOf(f, << >>, "sha1", o, d, m[1], m[2]) : f \in {"missing", "unreadable"}, o \in {q \in MCObjs : Len(q) = 3},
     d \in DisksOf("sha1", CHOOSE q \in MCObjs : Len(q) = 3), m \in Modes}
  \union UNION {
    {IdxOf("present", Idx!IdxChunks("sha1", e, PackSum("sha1", o)), "sha1", o, WholeFile("sha1", o), m[1], m[2]) :
       e \in EntriesOf(o), m \in Modes}
    \union {IdxOf("present", IdxV1File(e, PackSum("sha1", o)), "sha1", o, WholeFile("sha1", o), m[1], m[2]) :
       e \in EntriesOf(o), m \in Modes}
    \union {IdxOf("present", Idx!IdxChunks("sha1", TrueEntries(o), PackSum("sha1", o)), "sha1", o, d, m[1], m[2]) :
       d \in DisksOf("sha1", o), m \in Modes}
    \union {IdxOf("present", IdxV1File(TrueEntries(o), PackSum("sha1", o)), k, o, WholeFile(k, o), TRUE, FALSE) :
       k \in {"sha1", "sha256"}}
    \union {IdxOf("present", Idx!IdxChunks(k, TrueEntries(o), PackSum(j, o)), "sha256", o, WholeFile("sha256", o), FALSE, TRUE) :
       k, j \in {"sha256", "blake3"}} : o \in MCObjs}

IdxIdle == icase = IdxOf("missing", << >>, "sha1", << >>, << >>, FALSE, FALSE) /\ IdxStart
-----------------------------------------------------------------------------
Init ==
  /\ part \in Parts
  /\ IF part = "index" THEN IndexInit ELSE IndexIdle
  /\ IF part = "readers" THEN ReadersInit ELSE ReadersIdle
  /\ IF part = "delta" THEN DeltaInit ELSE DeltaIdle
  /\ AgentInit
  /\ IF part = "git" THEN GitInit ELSE GitIdle
  /\ IF part = "diff" THEN DiffInit ELSE DiffIdle
  /\ IF part = "transfer" THEN TransferInit ELSE TransferIdle
  /\ IF part = "idx" THEN IdxInit ELSE IdxIdle

Next ==
  \/ /\ part = "index" /\ IndexNext
     /\ UNCHANGED <<part, readersVars, deltaVars, agentVars, gitVars, diffVars, transferVars, idxVars>>
  \/ /\ part = "readers" /\ ReadersNext
     /\ UNCHANGED <<part, indexVars, deltaVars, agentVars, gitVars, diffVars, transferVars, idxVars>>
  \/ /\ part = "delta" /\ DeltaNext
     /\ UNCHANGED <<part, indexVars, readersVars, agentVars, gitVars, diffVars, transferVars, idxVars>>
  \/ /\ part = "agent" /\ AgentNext
     /\ UNCHANGED <<part, indexVars, readersVars, deltaVars, gitVars, diffVars, transferVars, idxVars>>
  \/ /\ part = "git" /\ GitNext
     /\ UNCHANGED <<part, indexVars, readersVars, deltaVars, agentVars, diffVars, transferVars, idxVars>>
  \/ /\ part = "diff" /\ DiffNext
     /\ UNCHANGED <<part, indexVars, readersVars, deltaVars, agentVars, gitVars, transferVars, idxVars>>
  \/ /\ part = "transfer" /\ TransferNext
     /\ UNCHANGED <<part, indexVars, readersVars, deltaVars, agentVars, gitVars, diffVars, idxVars>>
  \/ /\ part = "idx" /\ IdxNext
     /\ UNCHANGED <<part, indexVars, readersVars, deltaVars, agentVars, gitVars, diffVars, transferVars>>

vars == <<part, indexVars, readersVars, deltaVars, agentVars, gitVars, diffVars, transferVars, idxVars>>

Spec == Init /\ [][Next]_vars /\ ReadersFairness
=============================================================================
