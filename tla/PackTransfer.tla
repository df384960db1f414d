--------------------------- MODULE PackTransfer ---------------------------
(* A pack on its way from the encoder to the statistics scan: the codec of
   an entry header (encode_one_object against read_type_and_varint_size and
   read_offset_encoding), the side-band framing of the pack stream
   (build_side_band_packets against read_pkt_line), and PackStats::analyze,
   which walks the received file once and holds it against its .idx.

   A byte of a number is a record of its value and its continuation bit; the
   seven value bits hold eight types times Low sizes, so Low = 16 is the real
   format. A compressed payload is Packed[d] bytes that only decompress as a
   whole; an object id is IdLen bytes. Reading bytes of another sort than the
   writer put there is an error: the real reader may get further, up to the
   trailer that does not match.                                             *)
EXTENDS SequencesExt, Integers, FiniteSetsExt

CONSTANTS
  TransferCases,  \* what is sent, how it is negotiated and what .idx it has
  Low,            \* sizes the first header byte can hold: 16
  IdLen,          \* bytes of an object id
  Payload,        \* [capability -> payload bytes of one of its packets]
  Packed,         \* [payload -> its compressed length]
  Inflated        \* [payload -> its size]

VARIABLES
  tcase,     \* the case under way
  packed,    \* chunks the encoder has sent
  offsets,   \* where each entry encoded so far starts
  wire,      \* bytes on the connection
  lost,      \* the connection broke or changed a byte
  received,  \* the pack bytes the client has put together
  scan       \* the scan's position, what it has read and its verdict

transferVars == <<tcase, packed, offsets, wire, lost, received, scan>>
-----------------------------------------------------------------------------
(* Numbers.                                                                 *)

Group == 8 * Low

VByte(v, more) == [v |-> v, more |-> more]

(* ObjectType::to_pack_type_u8.                                             *)
PackType == <<"Commit", "Tree", "Blob", "Tag", "OffsetZstdelta", "OffsetDelta", "HashDelta">>
PackTypeOf(type) == CHOOSE n \in DOMAIN PackType : PackType[n] = type
IsBase(type) == PackTypeOf(type) \in 1..4
IsOffset(type) == PackTypeOf(type) \in 5..6

Groups(n) == CHOOSE k \in 1..8 : n < Group^k /\ (k = 1 \/ n >= Group^(k - 1))

(* The header of encode_one_object: its first byte always continues.        *)
SizeHeader(type, size) ==
  LET rest == size \div Low IN
  <<VByte((PackTypeOf(type) * Low) + (size % Low), TRUE)>>
    \o [i \in 1..Groups(rest) |-> VByte((rest \div Group^(i - 1)) % Group, i < Groups(rest))]

(* encode_offset: most significant group first; every group but the last
   stands for one more than it says.                                        *)
OffsetHigh[w \in Nat] ==
  (IF w < Group THEN << >> ELSE OffsetHigh[w \div Group - 1]) \o <<VByte(w % Group, TRUE)>>

(* Fault: the groups are written without the bias.                          *)
PlainHigh[w \in Nat] ==
  (IF w < Group THEN << >> ELSE PlainHigh[w \div Group]) \o <<VByte(w % Group, TRUE)>>
EncodeOffset_NoBias(v) ==
  (IF v < Group THEN << >> ELSE PlainHigh[v \div Group]) \o <<VByte(v % Group, FALSE)>>

EncodeOffset(v) ==
  (IF v < Group THEN << >> ELSE OffsetHigh[v \div Group - 1]) \o <<VByte(v % Group, FALSE)>>

IdUnits(id) == [i \in 1..IdLen |-> [id |-> id, part |-> i]]
Compressed(data) == [i \in 1..Packed[data] |-> [z |-> data, part |-> i]]

Checksum(units) == [sum |-> units]
NameOf(entry) == [name |-> IF IsBase(entry.type) THEN <<entry.type, entry.data>> ELSE <<entry.data>>]
-----------------------------------------------------------------------------
(* The encoder's chunks: header, entries, trailer.                          *)

Flat(chunks) == FlattenSeq(chunks)

PackHeader(n) == [i \in 1..12 |-> [head |-> n, part |-> i]]

(* encode_one_object; a HashDelta, which it never writes, as other encoders do. *)
EncodeEntry(entry, at) ==
  SizeHeader(entry.type, Inflated[entry.data])
    \o (CASE IsOffset(entry.type) -> EncodeOffset(at - offsets[entry.base])
          [] entry.type = "HashDelta" -> IdUnits(NameOf(tcase.entries[entry.base]))
          [] OTHER -> << >>)
    \o Compressed(entry.data)

NotScanned == [at |-> 0, objects |-> << >>, verdict |-> "none"]

TransferStart ==
  /\ packed = <<PackHeader(Len(tcase.entries))>>
  /\ offsets = << >>
  /\ wire = << >> /\ received = << >>
  /\ lost = FALSE
  /\ scan = NotScanned
TransferInit == tcase \in TransferCases /\ TransferStart

EncodeNext ==
  /\ Len(offsets) < Len(tcase.entries)
  /\ LET at == Len(Flat(packed))
         entry == tcase.entries[Len(offsets) + 1] IN
     /\ packed' = Append(packed, EncodeEntry(entry, at))
     /\ offsets' = Append(offsets, at)
  /\ UNCHANGED <<tcase, wire, lost, received, scan>>

Whole == Flat(packed)
EncodedAll == Len(packed) = Len(tcase.entries) + 2
TrailerAt == Len(Whole) - IdLen

EncodeEnd ==
  /\ Len(offsets) = Len(tcase.entries)
  /\ ~EncodedAll
  /\ packed' = Append(packed, IdUnits(Checksum(Whole)))
  /\ UNCHANGED <<tcase, offsets, wire, lost, received, scan>>
-----------------------------------------------------------------------------
(* Framing.                                                                 *)

HexPrefix(n) == [i \in 1..4 |-> [hex |-> (n \div 16^(4 - i)) % 16]]
FlushPkt == HexPrefix(0)
Band == <<[band |-> 1]>>

(* The payload bound upload_pack takes from the client's capabilities:
   side-band-64k before side-band, none for a raw stream.                   *)
SideBandMax ==
  IF "side-band-64k" \in tcase.caps THEN Payload["side-band-64k"]
  ELSE IF "side-band" \in tcase.caps THEN Payload["side-band"] ELSE 0

SideBandPackets(chunk, max) ==
  LET count == (Len(chunk) + max - 1) \div max
      part(i) == SubSeq(chunk, (i - 1) * max + 1, Min({i * max, Len(chunk)})) IN
  FlattenSeq([i \in 1..count |-> HexPrefix(Len(part(i)) + 5) \o Band \o part(i)])

Framed ==
  IF SideBandMax = 0 THEN Whole
  ELSE FlattenSeq([i \in DOMAIN packed |-> SideBandPackets(packed[i], SideBandMax)]) \o FlushPkt

Respond ==
  /\ EncodedAll /\ wire = << >> /\ received = << >> /\ ~lost
  /\ scan.at = 0
  /\ wire' = Framed
  /\ UNCHANGED <<tcase, packed, offsets, lost, received, scan>>

(* External: the connection breaks behind any byte.                         *)
Break ==
  /\ tcase.breaks /\ wire # << >> /\ ~lost /\ received = << >>
  /\ lost' = TRUE
  /\ \E n \in 0..(Len(wire) - 1) : wire' = SubSeq(wire, 1, n)
  /\ UNCHANGED <<tcase, packed, offsets, received, scan>>

(* External: a number byte of the pack arrives changed.                     *)
Corrupt ==
  /\ tcase.breaks /\ wire # << >> /\ ~lost /\ received = << >>
  /\ lost' = TRUE
  /\ \E i \in {j \in DOMAIN wire : "more" \in DOMAIN wire[j]}, d \in {1, Low} :
       wire' = [wire EXCEPT ![i].v = (@ + d) % Group]
  /\ UNCHANGED <<tcase, packed, offsets, received, scan>>

(* read_pkt_line: <<bytes consumed, line>>.                                 *)
ReadPktLine(units) ==
  IF Len(units) < 4 \/ \E i \in 1..4 : "hex" \notin DOMAIN units[i] THEN <<0, << >>>>
  ELSE LET n == FoldLeft(LAMBDA acc, u : 16 * acc + u.hex, 0, SubSeq(units, 1, 4)) IN
       IF n = 0 THEN <<4, << >>>>
       ELSE IF n < 4 \/ Len(units) < n THEN <<0, << >>>>
       ELSE <<n, SubSeq(units, 5, n)>>

(* External: the client strips the band byte until the flush, or until no
   packet can be read; without side-band it takes the bytes as they come.   *)
Receive ==
  /\ wire # << >>
  /\ scan.at = 0
  /\ IF SideBandMax = 0 THEN received' = wire /\ wire' = << >>
     ELSE LET pkt == ReadPktLine(wire) IN
          IF pkt[2] = << >> THEN wire' = << >> /\ UNCHANGED received
          ELSE /\ received' = received \o Tail(pkt[2])
               /\ wire' = SubSeq(wire, pkt[1] + 1, Len(wire))
  /\ UNCHANGED <<tcase, packed, offsets, lost, scan>>
-----------------------------------------------------------------------------
(* PackStats.                                                               *)

Reject == scan' = [scan EXCEPT !.verdict = "error"]
Rest == SubSeq(received, scan.at + 1, Len(received))

Numeral(units) ==
  LET isNumber(i) == "more" \in DOMAIN units[i]
      ends == {i \in DOMAIN units : /\ \A j \in 1..i : isNumber(j)
                                    /\ ~units[i].more
                                    /\ \A j \in 1..(i - 1) : units[j].more} IN
  IF ends = {} THEN << >> ELSE SubSeq(units, 1, CHOOSE i \in ends : TRUE)

(* read_type_and_varint_size, for sizes below the 64 bits it shifts into.    *)
TypeBits(num) == num[1].v \div Low
ReadSize(num) ==
  FoldLeftDomain(LAMBDA acc, i : IF i = 1 THEN num[1].v % Low
                                 ELSE acc + num[i].v * Low * Group^(i - 2), 0, num)

(* read_offset_encoding.                                                    *)
ReadOffset(num) == FoldLeft(LAMBDA acc, b : (acc + 1) * Group + b.v, -1, num)

HasId(units) == Len(units) >= IdLen /\ \A i \in 1..IdLen : "id" \in DOMAIN units[i]
ReadId(units) ==
  IF SubSeq(units, 1, IdLen) = IdUnits(units[1].id) THEN units[1].id ELSE [garbled |-> TRUE]

(* hash_compressed_object and drain_zlib: the stream must be whole and give
   exactly the size the header states.                                      *)
Inflates(units, size) ==
  /\ units # << >> /\ "z" \in DOMAIN units[1]
  /\ IsPrefix(Compressed(units[1].z), units)
  /\ Inflated[units[1].z] = size

ObjectStarts == {scan.objects[i].start : i \in DOMAIN scan.objects}

Scanned(type, size, base, units) ==
  LET data == units[1].z IN
  scan' = [scan EXCEPT !.at = Len(received) - Len(units) + Packed[data],
                       !.objects = Append(@, [start |-> scan.at, type |-> type, base |-> base,
                                              size |-> size, data |-> data])]

(* The magic and the version are taken as right.                            *)
ScanHeader ==
  /\ EncodedAll /\ wire = << >> /\ (received # << >> \/ lost)
  /\ scan.verdict = "none" /\ scan.at = 0
  /\ IF Len(received) < 12 THEN Reject ELSE scan' = [scan EXCEPT !.at = 12]
  /\ UNCHANGED <<tcase, packed, offsets, wire, lost, received>>

Total == received[1].head

ScanObject ==
  /\ scan.verdict = "none" /\ scan.at > 0 /\ Len(scan.objects) < Total
  /\ LET num == Numeral(Rest) IN
     IF num = << >> THEN Reject
     ELSE IF TypeBits(num) \notin DOMAIN PackType THEN Reject
     ELSE LET type == PackType[TypeBits(num)]
              size == ReadSize(num)
              rest == SubSeq(Rest, Len(num) + 1, Len(Rest)) IN
          CASE IsBase(type) ->
                 IF Inflates(rest, size) THEN Scanned(type, size, 0, rest) ELSE Reject
            [] IsOffset(type) ->
                 LET far == Numeral(rest)
                     base == scan.at - ReadOffset(far)
                     body == SubSeq(rest, Len(far) + 1, Len(rest)) IN
                 IF far # << >> /\ base \in ObjectStarts /\ Inflates(body, size)
                 THEN Scanned(type, size, base, body) ELSE Reject
            [] OTHER ->
                 LET body == SubSeq(rest, IdLen + 1, Len(rest)) IN
                 IF HasId(rest) /\ Inflates(body, size)
                 THEN Scanned(type, size, ReadId(rest), body) ELSE Reject
  /\ UNCHANGED <<tcase, packed, offsets, wire, lost, received>>

(* The .idx beside the pack, as the reader returns it: entries that give the
   name of the pack's entry "of" the offset of its entry "at" plus "off",
   and the copied pack checksum.                                            *)
IdxEntries == [i \in DOMAIN tcase.idx |->
  [name |-> NameOf(tcase.entries[tcase.idx[i].of]),
   offset |-> offsets[tcase.idx[i].at] + tcase.idx[i].off]]
IdxHash == Checksum(IF tcase.idxOfThisPack THEN SubSeq(Whole, 1, TrailerAt) ELSE << >>)

IndexAgrees(hash) ==
  LET names == {IdxEntries[i].name : i \in DOMAIN IdxEntries}
      at(o) == {i \in DOMAIN IdxEntries : IdxEntries[i].offset = o} IN
  /\ \A i, j \in DOMAIN IdxEntries : IdxEntries[i].offset = IdxEntries[j].offset => i = j
  /\ Cardinality(names) = Total
  /\ IdxHash = hash
  /\ \A i \in DOMAIN IdxEntries : IdxEntries[i].offset \in ObjectStarts
  /\ \A k \in DOMAIN scan.objects :
       LET obj == scan.objects[k] IN
       CASE IsBase(obj.type) ->
              \E i \in at(obj.start) : IdxEntries[i].name = [name |-> <<obj.type, obj.data>>]
         [] obj.type = "HashDelta" -> obj.base \in names
         [] OTHER -> TRUE

NeedsIndex == \E k \in DOMAIN scan.objects : scan.objects[k].type = "HashDelta"

(* The end of scan and analyze_with_hash_kind.                              *)
Analyze ==
  /\ scan.verdict = "none" /\ scan.at > 0 /\ Len(scan.objects) = Total
  /\ IF /\ HasId(Rest)
        /\ ReadId(Rest) = Checksum(SubSeq(received, 1, scan.at))
        /\ Len(Rest) = IdLen
        /\ IF tcase.idx = << >> THEN ~NeedsIndex ELSE IndexAgrees(ReadId(Rest))
     THEN scan' = [scan EXCEPT !.verdict = "ok"] ELSE Reject
  /\ UNCHANGED <<tcase, packed, offsets, wire, lost, received>>

TransferNext ==
  \/ EncodeNext \/ EncodeEnd \/ Respond \/ Break \/ Corrupt \/ Receive
  \/ ScanHeader \/ ScanObject \/ Analyze
-----------------------------------------------------------------------------
(* What an index of the sent entries has to say, from the case alone: every
   entry once, at its own place; only a delta may bear another's name.      *)
IdxFits ==
  LET n == Len(tcase.entries)
      e == tcase.entries IN
  IF tcase.idx = << >> THEN \A i \in 1..n : e[i].type # "HashDelta"
  ELSE /\ tcase.idxOfThisPack
       /\ Len(tcase.idx) = n
       /\ \A i \in 1..n : tcase.idx[i].off = 0
       /\ {tcase.idx[i].at : i \in 1..n} = 1..n
       /\ Cardinality({NameOf(e[tcase.idx[i].of]) : i \in 1..n}) = n
       /\ \A i \in 1..n : IsBase(e[tcase.idx[i].at].type)
                            => NameOf(e[tcase.idx[i].of]) = NameOf(e[tcase.idx[i].at])
       /\ \A i \in 1..n : e[i].type = "HashDelta"
                            => \E j \in 1..n : NameOf(e[tcase.idx[j].of]) = NameOf(e[e[i].base])

Reported == [i \in DOMAIN scan.objects |->
  [type |-> scan.objects[i].type, data |-> scan.objects[i].data, base |-> scan.objects[i].base]]
Sent == [i \in DOMAIN tcase.entries |->
  LET x == tcase.entries[i] IN
  [type |-> x.type, data |-> x.data,
   base |-> IF IsBase(x.type) THEN 0
            ELSE IF IsOffset(x.type) THEN offsets[x.base] ELSE NameOf(tcase.entries[x.base])]]

(* PackStats::analyze_with_hash_kind accepts exactly the packs that arrived
   whole and whose .idx fits them, and then it has read the types, payloads
   and delta bases that encode_one_object wrote: the size and offset codecs
   invert each other, the side-band packets of build_side_band_packets lose
   and add nothing, a stream that is cut, or whose sizes, types or distances
   are changed, is refused, and so is an index with permuted names, foreign
   offsets or another pack's checksum
   (stats.rs:112-154).                                                      *)
TransferSound ==
  /\ scan.verdict = "ok" => received = Whole /\ IdxFits /\ Reported = Sent
  /\ scan.verdict = "error" => ~(received = Whole /\ IdxFits)
=============================================================================
