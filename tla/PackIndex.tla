------------------------------ MODULE PackIndex ------------------------------
(***************************************************************************)
(* The pack index (.idx): what IdxBuilder sends, chunk by chunk, and what   *)
(* the readers of versions 1 and 2 accept.  A file is the sequence of the   *)
(* fields sent; a field is a record whose f says how it was encoded.  The   *)
(* 256 first bytes become 0 .. Buckets-1 and the 31-bit offset limit        *)
(* 0x7FFF_FFFF becomes MaxSmall, so that both ends of each are in reach.  A *)
(* checksum is the list of the fields it was computed from, tagged with its *)
(* hash kind: two contents never collide.                                   *)
(***************************************************************************)
EXTENDS Naturals, Sequences, FiniteSets, SequencesExt

CONSTANTS Buckets,    \* values of the first byte of an object name (256)
          Spread,     \* names that share a first byte
          MaxSmall    \* largest offset stored in a 32-bit word (0x7FFF_FFFF)

ASSUME IndexConstants == /\ Buckets \in Nat \ {0}
                         /\ Spread \in Nat \ {0}
                         /\ MaxSmall \in Nat

\* HashKind::size: the names of two kinds may have the same width.
Width(kind) == IF kind = "sha1" THEN 20 ELSE 32

\* The first byte of an object name: names are numbers, most significant first.
FirstByte(id) == id \div Spread

Word(v) == [f |-> "u32", v |-> v]
Long(v) == [f |-> "u64", v |-> v]
Name(kind, id) == [f |-> "name", w |-> Width(kind), v |-> id]
Digest(kind, fields) == [f |-> "sum", w |-> Width(kind), v |-> <<kind, fields>>]

Magic == [f |-> "magic"]
Version == [f |-> "version"]

-----------------------------------------------------------------------------
(* The writer.  An entry is [hash, crc32, offset].                          *)

\* write_fanout sorts the entries by name before it counts them.
ByName(entries) == SortSeq(entries, LAMBDA a, b: a.hash < b.hash)

\* The cumulative counts of the names by first byte.
Fanout(entries) ==
  [b \in 1 .. Buckets |->
     Word(Cardinality({i \in DOMAIN entries: FirstByte(entries[i].hash) < b}))]

Large(entries) == SelectSeq(entries, LAMBDA e: e.offset > MaxSmall)

\* A large offset is a word with the top bit set, whose low bits number the
\* slots of the 64-bit table in order of use.
Marker(slot) == Word(MaxSmall + 1 + slot)

Offsets(entries) ==
  [i \in DOMAIN entries |->
     IF entries[i].offset <= MaxSmall THEN Word(entries[i].offset)
     ELSE Marker(Len(Large(SubSeq(entries, 1, i - 1))))]
  \o [i \in DOMAIN Large(entries) |-> Long(Large(entries)[i].offset)]

\* Everything the index checksum covers, the pack checksum included.
IdxBody(kind, entries, pack_hash) ==
  LET es == ByName(entries)
  IN  <<Magic, Version>> \o Fanout(es)
      \o [i \in DOMAIN es |-> Name(kind, es[i].hash)]
      \o [i \in DOMAIN es |-> Word(es[i].crc32)]
      \o Offsets(es) \o <<pack_hash>>

\* The chunks write_idx sends, in order.
IdxChunks(kind, entries, pack_hash) ==
  LET body == IdxBody(kind, entries, pack_hash)
  IN  Append(body, Digest(kind, body))

-----------------------------------------------------------------------------
(* The version 2 reader, parse_idx_v2_from, on a file of fields.            *)

Declared(n) == 2 + Buckets + 3 * n + 2

V2Fanout(file) == SubSeq(file, 3, 2 + Buckets)
V2Count(file) == file[2 + Buckets].v
V2Names(file) == SubSeq(file, 3 + Buckets, 2 + Buckets + V2Count(file))
V2Crcs(file) ==
  SubSeq(file, 3 + Buckets + V2Count(file), 2 + Buckets + 2 * V2Count(file))
V2Words(file) ==
  SubSeq(file, 3 + Buckets + 2 * V2Count(file), 2 + Buckets + 3 * V2Count(file))
V2Slots(file) ==
  {i \in DOMAIN V2Words(file): V2Words(file)[i].v > MaxSmall}
SlotOf(word) == word.v - (MaxSmall + 1)
V2LargeCount(file) ==
  LET used == {SlotOf(V2Words(file)[i]) + 1: i \in V2Slots(file)}
  IN  CHOOSE m \in used \union {0}: \A u \in used: u <= m
V2Offset(file, i) ==
  IF i \in V2Slots(file)
  THEN file[3 + Buckets + 3 * V2Count(file) + SlotOf(V2Words(file)[i])].v
  ELSE V2Words(file)[i].v

\* A file is a table of words up to its fanout, monotone, under the right magic.
V2Header(file) ==
  /\ Len(file) >= 2 + Buckets
  /\ file[1] = Magic /\ file[2] = Version
  /\ \A b \in 3 .. 2 + Buckets: file[b].f = "u32"
  /\ \A b \in 3 .. 1 + Buckets: file[b].v <= file[b + 1].v

\* The names are of the reader's kind, strictly ascending, and are the ones
\* the fanout counts.
V2NamesOk(file, kind) ==
  LET names == V2Names(file)
  IN  /\ \A i \in DOMAIN names: names[i].f = "name" /\ names[i].w = Width(kind)
      /\ \A i \in 1 .. Len(names) - 1: names[i].v < names[i + 1].v
      /\ \A b \in 1 .. Buckets:
           V2Fanout(file)[b].v
             = Cardinality({i \in DOMAIN names: FirstByte(names[i].v) < b})

\* The offsets fit the tables, and no two objects share one.
V2OffsetsOk(file) ==
  /\ \A i \in DOMAIN V2Words(file): V2Words(file)[i].f = "u32"
  /\ V2LargeCount(file) <= Cardinality(V2Slots(file))
  /\ Declared(V2Count(file)) + V2LargeCount(file) <= Len(file)
  /\ \A i, j \in DOMAIN V2Words(file):
       i # j => V2Offset(file, i) # V2Offset(file, j)

\* The last two fields are the checksums, the second one over all before it,
\* and nothing follows.
V2TrailerOk(file, kind) ==
  LET end == Declared(V2Count(file)) + V2LargeCount(file)
  IN  /\ file[end - 1].f = "sum" /\ file[end - 1].w = Width(kind)
      /\ file[end] = Digest(kind, SubSeq(file, 1, end - 1))
      /\ Len(file) = end

ParseIdxV2(file, kind) ==
  IF /\ V2Header(file)
     /\ Declared(V2Count(file)) <= Len(file)
     /\ V2NamesOk(file, kind)
     /\ V2OffsetsOk(file)
     /\ V2TrailerOk(file, kind)
  THEN [ok |-> TRUE,
        pack_hash |-> file[Len(file) - 1],
        entries |-> [i \in 1 .. V2Count(file) |->
                       [hash |-> V2Names(file)[i].v,
                        crc32 |-> V2Crcs(file)[i].v,
                        offset |-> V2Offset(file, i)]]]
  ELSE [ok |-> FALSE]

-----------------------------------------------------------------------------
(* The version 1 reader, parse_idx_v1: SHA-1 only, no magic, no CRC table;   *)
(* offset and name of an entry stand together, and the names are not checked *)
(* against the fanout or each other.                                         *)

V1Count(file) == file[Buckets].v
V1Offset(file, i) == file[Buckets + 2 * i - 1].v
V1Name(file, i) == file[Buckets + 2 * i].v

ParseIdxV1(file) ==
  IF /\ Len(file) >= Buckets + 2
     /\ \A b \in 1 .. Buckets - 1: file[b].v <= file[b + 1].v
     /\ Len(file) = Buckets + 2 * V1Count(file) + 2
     /\ file[Len(file)] = Digest("sha1", SubSeq(file, 1, Len(file) - 1))
  THEN [ok |-> TRUE,
        pack_hash |-> file[Len(file) - 1],
        entries |-> [i \in 1 .. V1Count(file) |->
                       [hash |-> V1Name(file, i), crc32 |-> 0, offset |-> V1Offset(file, i)]]]
  ELSE [ok |-> FALSE]
=============================================================================
