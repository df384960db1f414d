----------------------------- MODULE GitObjects ------------------------------
(***************************************************************************)
(* Trees, commits, tags and notes: built by a caller, hashed, written, and  *)
(* loaded again by an ID that travelled.  Data is a sequence of units: "0"  *)
(* is the NUL byte, "\n", "\r", " ", "<" and ">" themselves, "gbk" a byte   *)
(* that is GBK text but not UTF-8, "bad" one that is neither, and any other *)
(* unit a word.                                                             *)
(***************************************************************************)
EXTENDS ObjectIds, FiniteSetsExt, TLC

CONSTANTS GitScenarios     \* [how, kind, obj] to build, or [raw, type, kind] to load

VARIABLES gjob,            \* the scenario
          tls,             \* the hash kind of the thread that runs the next call
          made,            \* the object built
          data,            \* its bytes
          known,           \* the ID as the loader got it
          loaded           \* what from_bytes returned

Find(u, s) == SelectInSeq(s, LAMBDA x : x = u)
Upto(s, i) == SubSeq(s, 1, i)
From(s, i) == SubSeq(s, i, Len(s))
Has(u, s) == \E i \in DOMAIN s : s[i] = u
Utf8(s) == ~Has("gbk", s) /\ ~Has("bad", s)
Line(s) == IF Find("\n", s) = 0 THEN s ELSE Upto(s, Find("\n", s) - 1)
AfterLine(s) == From(s, Find("\n", s) + 1)

-----------------------------------------------------------------------------
(* Signatures                                                               *)

SigData(sig) ==
  <<sig.role, " ">> \o sig.name \o <<" ", "<">> \o sig.email \o <<">", " ", sig.time, " ", sig.zone>>

\* usize::to_string of the parsed timestamp.
Decimal(word) == IF word = "007" THEN "7" ELSE word
Numeric(word) == word \in {"7", "007", "1700000000"}
ZoneOk(word) == word \in {"+0800", "+0000", "-0130"}

SigFromData(line) ==
  LET space == Find(" ", line)
      open == Find("<", line)
      close == Find(">", line)
      between == SubSeq(line, space + 1, open - 1)
      name == IF between # << >> /\ Last(between) = " " THEN Front(between) ELSE between
      rest == From(line, close + 2)
  IN IF \/ space = 0 \/ line[1] \notin {"author", "committer", "tagger"} \/ space # 2
        \/ open <= space \/ close <= open
        \/ (between # << >> /\ Last(between) # " ")
        \/ ~Utf8(line)
        \/ close + 1 > Len(line) \/ line[close + 1] # " "
        \/ Len(rest) # 3 \/ rest[2] # " " \/ ~Numeric(rest[1]) \/ ~ZoneOk(rest[3])
     THEN Err
     ELSE [role |-> line[1], name |-> name, email |-> SubSeq(line, open + 1, close - 1),
           time |-> Decimal(rest[1]), zone |-> rest[3]]

-----------------------------------------------------------------------------
(* Trees                                                                    *)

ModeOf(word) ==
  CASE word = "40000" -> "Tree" [] word = "100755" -> "BlobExecutable" [] word = "120000" -> "Link"
    [] word = "160000" -> "Commit" [] word \in {"100644", "100664", "100640"} -> "Blob" [] OTHER -> "none"
ModeBytes(mode) ==
  CASE mode = "Tree" -> "40000" [] mode = "BlobExecutable" -> "100755" [] mode = "Link" -> "120000"
    [] mode = "Commit" -> "160000" [] mode = "Blob" -> "100644"

ItemData(item) == <<ModeBytes(item.mode), " ">> \o item.name \o <<"0">> \o RefBytes(item.id)
TreeData(items) == FlattenSeq([i \in DOMAIN items |-> ItemData(items[i])])

\* A name that is not UTF-8 is decoded as GBK, and is UTF-8 from then on.
Decoded(raw) == IF Utf8(raw) THEN raw ELSE [i \in DOMAIN raw |-> IF raw[i] = "gbk" THEN "ideograph" ELSE raw[i]]

ItemFromBytes(bytes, kind) ==
  LET space == Find(" ", bytes)
      rest == From(bytes, space + 1)
      nul == Find("0", rest)
      name == Upto(rest, nul - 1)
      id == RefOf(kind, From(rest, nul + 1))
  IN IF space # 2 \/ nul = 0 \/ ModeOf(bytes[1]) = "none" \/ Has("bad", name) \/ IsErr(id) THEN Err
     ELSE [mode |-> ModeOf(bytes[1]), name |-> Decoded(name), id |-> id]

\* The items from position i on: an ID is as wide as kind says.
ItemsFrom(raw, kind, size) ==
  LET items[i \in 1 .. Len(raw) + 1] ==
        LET nul == Find("0", From(raw, i))
            next == i + nul + size
            item == ItemFromBytes(SubSeq(raw, i, next - 1), kind)
        IN IF i > Len(raw) THEN << >>
           ELSE IF nul = 0 \/ next > Len(raw) + 1 THEN <<Err>>
           ELSE IF IsErr(item) THEN <<Err>> ELSE <<item>> \o items[next]
  IN items[1]

\* Fault: the width of an entry's ID is the thread's.
TreeFromBytes_ThreadKind(raw, kind) ==
  LET items == ItemsFrom(raw, kind, Size(tls))
  IN IF items # << >> /\ IsErr(Last(items)) THEN Err ELSE [type |-> "Tree", items |-> items]

TreeFromBytes(raw, kind) ==
  LET items == ItemsFrom(raw, kind, Size(kind))
  IN IF items # << >> /\ IsErr(Last(items)) THEN Err ELSE [type |-> "Tree", items |-> items]

-----------------------------------------------------------------------------
(* Commits                                                                  *)

CommitData(c) ==
  <<"tree", " ", c.tree.of[2], "\n">>
    \o FlattenSeq([i \in DOMAIN c.parents |-> <<"parent", " ", c.parents[i].of[2], "\n">>])
    \o SigData(c.author) \o <<"\n">> \o SigData(c.committer) \o <<"\n">> \o c.message

\* Zero or more parent lines; at is where the author line must be.
Parents(raw, kind) ==
  LET parse[i \in 1 .. Len(raw) + 1] ==
        LET line == Line(From(raw, i)) IN
        IF Find("\n", From(raw, i)) = 0 THEN [at |-> 0, ids |-> << >>]
        ELSE IF IsPrefix(<<"parent", " ">>, line)
             THEN IF Len(line) # 3 \/ IsErr(RefHex(kind, line[3])) THEN [at |-> 0, ids |-> << >>]
                  ELSE LET more == parse[i + 4] IN [more EXCEPT !.ids = <<RefHex(kind, line[3])>> \o @]
        ELSE [at |-> IF IsPrefix(<<"author", " ">>, line) THEN i ELSE 0, ids |-> << >>]
  IN parse[1]

CommitFromBytes(raw, kind) ==
  LET first == Line(raw)
      treeOk == Find("\n", raw) # 0 /\ Len(first) = 3 /\ IsPrefix(<<"tree", " ">>, first)
      body == AfterLine(raw)
      parents == Parents(body, kind)
      people == From(body, parents.at)
      author == SigFromData(Line(people))
      second == AfterLine(people)
      committer == SigFromData(Line(second))
  IN IF ~treeOk THEN Err
     ELSE IF IsErr(RefHex(kind, first[3])) \/ parents.at = 0 THEN Err
     ELSE IF IsErr(author) \/ Find("\n", second) = 0 THEN Err
     ELSE IF ~IsPrefix(<<"committer", " ">>, second) \/ IsErr(committer) THEN Err
     ELSE [type |-> "Commit", tree |-> RefHex(kind, first[3]), parents |-> parents.ids, author |-> author,
           committer |-> committer, message |-> AfterLine(second)]

-----------------------------------------------------------------------------
(* Tags and notes                                                           *)

TagData(t) ==
  <<"object", " ", t.object.of[2], "\n", "type", " ", t.of_type, "\n", "tag", " ">> \o t.name
    \o <<"\n">> \o SigData(t.tagger) \o <<"\n", "\n">> \o t.message

\* The first blank line, 0 if there is none.
BlankLine(raw) ==
  LET ends == {i \in 1 .. Len(raw) - 1 : raw[i] = "\n" /\ raw[i + 1] = "\n"}
  IN IF ends = {} THEN 0 ELSE Min(ends)

\* Headers up to the first blank line, in any order: a later line of the same
\* key wins, an unknown one is skipped.  The message is decoded lossily.
Headers(raw) ==
  LET split[i \in 1 .. Len(raw) + 1] ==
        IF i > Len(raw) THEN << >>
        ELSE LET line == Line(From(raw, i)) IN <<line>> \o split[Min({i + Len(line) + 1, Len(raw) + 1})]
      trimmed(line) == IF line # << >> /\ Last(line) = "\r" THEN Front(line) ELSE line
      lines == split[1]
  IN [i \in DOMAIN lines |-> trimmed(lines[i])]

\* Of the names ObjectType::from_string takes, those git has.
TypeNames == {"commit", "tree", "blob", "tag"}

TagFromBytes(raw, kind) ==
  LET end == BlankLine(raw)
      lines == Headers(IF end = 0 THEN raw ELSE Upto(raw, end - 1))
      of(key) == SelectSeq(lines, LAMBDA l : IsPrefix(<<key, " ">>, l))
      have == \A key \in {"object", "type", "tag", "tagger"} : of(key) # << >>
  IN IF ~have THEN Err
     ELSE IF \/ \E i \in DOMAIN of("object") : Len(of("object")[i]) # 3
             \/ \E i \in DOMAIN of("type") : Len(of("type")[i]) # 3 \/ of("type")[i][3] \notin TypeNames
             \/ \E i \in DOMAIN of("tag") : ~Utf8(of("tag")[i])
             \/ \E i \in DOMAIN of("tagger") : IsErr(SigFromData(of("tagger")[i]))
          THEN Err
     ELSE IF \E i \in DOMAIN of("object") : IsErr(RefHex(kind, of("object")[i][3])) THEN Err
     ELSE [type |-> "Tag", object |-> RefHex(kind, Last(of("object"))[3]), of_type |-> Last(of("type"))[3],
           name |-> From(Last(of("tag")), 3), tagger |-> SigFromData(Last(of("tagger"))),
           message |-> IF end = 0 THEN << >>
                       ELSE LET text == From(raw, end + 2)
                            IN [i \in DOMAIN text |-> IF text[i] \in {"gbk", "bad"} THEN "lossy" ELSE text[i]]]

\* A note's bytes are its text: the target is kept outside, and its kind is the ID's.
NoteFromBytes(raw, kind) ==
  IF ~Utf8(raw) THEN Err ELSE [type |-> "Note", target |-> ZeroForKind(kind), content |-> raw]

-----------------------------------------------------------------------------

\* Notes are blobs to the hash.
HashType(type) == IF type = "Note" THEN "Blob" ELSE type

ObjectData(o) ==
  CASE o.type = "Tree" -> TreeData(o.items)
    [] o.type = "Commit" -> CommitData(o)
    [] o.type = "Tag" -> TagData(o)
    [] o.type = "Note" -> o.content

FromBytes(type, raw, kind) ==
  CASE type = "Tree" -> TreeFromBytes(raw, kind)
    [] type = "Commit" -> CommitFromBytes(raw, kind)
    [] type = "Tag" -> TagFromBytes(raw, kind)
    [] type = "Note" -> NoteFromBytes(raw, kind)

Refs(o) ==
  CASE o.type = "Tree" -> {o.items[i].id : i \in DOMAIN o.items}
    [] o.type = "Commit" -> {o.tree} \union Range(o.parents)
    [] o.type = "Tag" -> {o.object}
    [] o.type = "Note" -> {o.target}

NoObject == [type |-> "none"]
NotYet == [none |-> TRUE]
Foreign == "raw" \in DOMAIN gjob

GitStart == made = NoObject /\ data = << >> /\ known = NotYet /\ loaded = NotYet
GitInit == gjob \in GitScenarios /\ tls \in Kinds /\ GitStart

\* Another thread runs the next call, and has its own current kind.
SetHashKind ==
  /\ loaded = NotYet
  /\ tls' \in Kinds \ {tls}
  /\ UNCHANGED <<gjob, made, data, known, loaded>>

\* new_with_kind, from_tree_items_with_kind: every reference is of the kind asked for.
BuildWithKind ==
  /\ ~Foreign /\ gjob.how = "kind" /\ made = NoObject
  /\ \A r \in Refs(gjob.obj) : EnsureKind(r, gjob.kind)
  /\ gjob.obj.type = "Tree" => gjob.obj.items # << >>
  /\ made' = gjob.obj @@ [id |-> FromTypeAndDataForKind(gjob.kind, HashType(gjob.obj.type), ObjectData(gjob.obj))]
  /\ UNCHANGED <<gjob, tls, data, known, loaded>>

\* new, from_tree_items: the thread's kind, and references as they come.
Build ==
  /\ ~Foreign /\ gjob.how = "thread" /\ made = NoObject
  /\ gjob.obj.type = "Tree" => gjob.obj.items # << >>
  /\ made' = gjob.obj @@ [id |-> FromTypeAndDataForKind(tls, HashType(gjob.obj.type), ObjectData(gjob.obj))]
  /\ UNCHANGED <<gjob, tls, data, known, loaded>>

Save ==
  /\ made # NoObject /\ data = << >> /\ known = NotYet
  /\ data' = ObjectData(made)
  /\ UNCHANGED <<gjob, tls, made, known, loaded>>

\* How the loader gets the ID: exact forms name the algorithm, the others do not.
ExactForms == {"hex_for_kind", "bytes_for_kind", "stream_for_kind", "tagged"}
Carried(id, form) ==
  CASE form = "hex_for_kind" -> FromHexForKind(gjob.kind, ToHex(id))
    [] form = "bytes_for_kind" -> FromBytesForKind(gjob.kind, ToData(id))
    [] form = "stream_for_kind" -> FromStreamForKind(gjob.kind, gjob.reads, id.of)
    [] form = "tagged" -> FromTaggedStr(ToTagged(id))
    [] form = "hex" -> FromStr(ToHex(id))
    [] form = "bytes_infer" -> FromBytesInferKind(ToData(id))
    [] form = "bytes" -> FromBytesForKind(tls, ToData(id))
    [] form = "stream" -> FromStreamForKind(tls, gjob.reads, id.of)

Carry(form) ==
  /\ data # << >> /\ ~Foreign /\ known = NotYet
  /\ known' = Carried(made.id, form) @@ [form |-> form]
  /\ UNCHANGED <<gjob, tls, made, data, loaded>>

\* from_buf_read_with_kind: the reader hashed with its own kind, which must be the one asked for.
ReadObject(reader) ==
  /\ Foreign /\ known = NotYet
  /\ data' = gjob.raw
  /\ known' = IF reader # gjob.kind THEN Err @@ [form |-> "reader"]
              ELSE Digest(reader, HashType(gjob.type), gjob.raw) @@ [form |-> "reader"]
  /\ UNCHANGED <<gjob, tls, made, loaded>>

Load ==
  /\ known # NotYet /\ ~IsErr(known) /\ loaded = NotYet
  /\ loaded' = FromBytes(IF Foreign THEN gjob.type ELSE made.type, data, known.kind)
  /\ UNCHANGED <<gjob, tls, made, data, known>>

GitNext ==
  \/ SetHashKind \/ BuildWithKind \/ Build \/ Save \/ Load
  \/ \E form \in ExactForms \union {"hex", "bytes_infer", "bytes", "stream"} : Carry(form)
  \/ \E reader \in Kinds : ReadObject(reader)

gitVars == <<gjob, tls, made, data, known, loaded>>

-----------------------------------------------------------------------------

\* Names a header line can hold.
SigOk(sig) == \A u \in {"\n", "<", ">"} : ~Has(u, sig.name) /\ (u = "<" \/ ~Has(u, sig.email))
WellFormed(o) ==
  CASE o.type = "Tree" -> \A i \in DOMAIN o.items : ~Has("0", o.items[i].name)
    [] o.type = "Commit" -> SigOk(o.author) /\ SigOk(o.committer) /\ o.author.role = "author"
                            /\ o.committer.role = "committer"
    [] o.type = "Tag" -> SigOk(o.tagger) /\ ~Has("\n", o.name) /\ (o.name = << >> \/ Last(o.name) # "\r")
                         /\ o.tagger.role = "tagger"
    [] o.type = "Note" -> TRUE

\* The object with every reference read as one of kind.
As(o, kind) ==
  LET re(id) == [id EXCEPT !.kind = kind] IN
  CASE o.type = "Tree" -> [type |-> "Tree", items |-> [i \in DOMAIN o.items |-> [o.items[i] EXCEPT !.id = re(@)]]]
    [] o.type = "Commit" -> [o EXCEPT !.tree = re(@), !.parents = [i \in DOMAIN @ |-> re(@[i])]]
    [] o.type = "Tag" -> [o EXCEPT !.object = re(@)]
    [] o.type = "Note" -> [o EXCEPT !.target = ZeroForKind(kind)]
Body(o) == [f \in DOMAIN o \ {"id"} |-> o[f]]

\* What git writes today: plain modes, UTF-8, decimal times, a space after an
\* empty name, and a tag's four headers in order.
Canonical(type, raw) ==
  /\ Utf8(raw)
  /\ ~\E i \in DOMAIN raw : raw[i] \in {"100664", "100640", "007", "\r"}
  /\ ~\E i \in 1 .. Len(raw) - 2 : raw[i] \in {"author", "committer", "tagger"} /\ raw[i + 2] = "<"
  /\ type = "Tag" => LET lines == Headers(Upto(raw, BlankLine(raw) - 1))
                     IN /\ BlankLine(raw) # 0 /\ Len(lines) = 4
                        /\ \A i \in 1 .. 4 : lines[i][1] = <<"object", "type", "tag", "tagger">>[i]

\* An object keeps its content and its ID on the way to its bytes and back, on
\* whatever thread each step runs.  With the kind given, the ID and all
\* references are of that kind, and an ID carried with its algorithm loads the
\* object as it was; a legacy form of the ID may relabel it, but then every
\* reference is relabelled with it and no digest changes.  Bytes that git wrote
\* load and come back the same, so the ID still fits them.
ObjectsKept ==
  /\ made # NoObject /\ gjob.how = "kind" =>
       made.id = Digest(gjob.kind, HashType(made.type), ObjectData(made))
  /\ known # NotYet /\ ~Foreign /\ ~IsErr(known) =>
       /\ known.of = made.id.of \/ Size(known.kind) # Size(made.id.kind)
       /\ known.form \in ExactForms /\ gjob.kind = made.id.kind => known.kind = made.id.kind
       /\ known.form = "tagged" => known.kind = made.id.kind
  /\ loaded # NotYet /\ ~Foreign /\ WellFormed(made) =>
       /\ ~IsErr(loaded) => Body(loaded) = As(Body(made), known.kind)
       /\ gjob.how = "kind" /\ known.form \in ExactForms => ~IsErr(loaded)
  /\ loaded # NotYet /\ Foreign /\ Canonical(gjob.type, gjob.raw) =>
       IsErr(loaded) \/ ObjectData(loaded) = gjob.raw
=============================================================================
