------------------------------ MODULE ObjectIds ------------------------------
(***************************************************************************)
(* Object IDs and the forms they travel in.  An ID is an algorithm and a    *)
(* digest; raw bytes and raw hex carry the width only, a tagged string the  *)
(* algorithm too.  SHA-256 and BLAKE3 have one width, so whoever reads the  *)
(* raw form must know the algorithm: the caller says it (..._for_kind), the *)
(* thread does (the legacy calls), or the length is taken for it.           *)
(***************************************************************************)
EXTENDS SequencesExt, Integers

CONSTANT IdBytes           \* the digests of the objects referred to: name -> bytes

Kinds == {"Sha1", "Sha256", "Blake3"}
Size(kind) == IF kind = "Sha1" THEN 2 ELSE 3
HexLen(kind) == 2 * Size(kind)

Err == [err |-> TRUE]
IsErr(x) == "err" \in DOMAIN x

\* A reference by name, and the digest of an object's type and data.
Ref(kind, name) == [kind |-> kind, of |-> <<"ref", name>>]
Digest(kind, type, data) == [kind |-> kind, of |-> <<type, data>>]
ZeroForKind(kind) == [kind |-> kind, of |-> <<"zero">>]

EnsureKind(id, kind) == id.kind = kind

\* Delta types have no loose header to hash.
FromTypeAndDataForKind(kind, type, data) ==
  IF type \in {"OffsetDelta", "HashDelta", "OffsetZstdelta"} THEN Err ELSE Digest(kind, type, data)

\* Raw bytes and hex: a length and a digest, no algorithm.
ToData(id) == [len |-> Size(id.kind), of |-> id.of]
ToHex(id) == [chars |-> HexLen(id.kind), of |-> id.of]
ToTagged(id) == [tag |-> id.kind, hex |-> ToHex(id)]

FromBytesForKind(kind, bytes) ==
  IF bytes.len # Size(kind) THEN Err ELSE [kind |-> kind, of |-> bytes.of]

FromHexForKind(kind, hex) ==
  IF hex.chars # HexLen(kind) THEN Err ELSE FromBytesForKind(kind, [len |-> hex.chars \div 2, of |-> hex.of])

FromTaggedStr(tagged) ==
  IF tagged.tag \notin Kinds THEN Err ELSE FromHexForKind(tagged.tag, tagged.hex)

\* Legacy: the length decides, and never for BLAKE3.
FromStr(hex) ==
  CASE hex.chars = HexLen("Sha1") -> FromHexForKind("Sha1", hex)
    [] hex.chars = HexLen("Sha256") -> FromHexForKind("Sha256", hex)
    [] OTHER -> Err

FromBytesInferKind(bytes) ==
  CASE bytes.len = Size("Sha1") -> FromBytesForKind("Sha1", bytes)
    [] bytes.len = Size("Sha256") -> FromBytesForKind("Sha256", bytes)
    [] OTHER -> Err

\* A reader hands over at most what is asked for; "intr" is retried, an end of
\* file stops the loop, and too few bytes are refused.  The stream holds the
\* bytes of one ID, cut into reads.
Filled(kind, reads) ==
  FoldLeft(LAMBDA acc, r :
             IF acc.stop \/ acc.n = Size(kind) \/ r = "intr" THEN acc
             ELSE IF r \in {"eof", "fail"} THEN [acc EXCEPT !.stop = TRUE]
             ELSE [acc EXCEPT !.n = @ + 1],
           [n |-> 0, stop |-> FALSE], reads)

FromStreamForKind(kind, reads, of) ==
  IF Filled(kind, reads).n # Size(kind) THEN Err
  ELSE FromBytesForKind(kind, [len |-> Size(kind), of |-> of])

\* The bytes of a reference inside a tree, and the name of bytes read there.
RefBytes(id) == IdBytes[id.of[2]]
RefOf(kind, bytes) ==
  IF Len(bytes) # Size(kind) THEN Err
  ELSE IF \E n \in DOMAIN IdBytes : IdBytes[n] = bytes
       THEN Ref(kind, CHOOSE n \in DOMAIN IdBytes : IdBytes[n] = bytes)
       ELSE [kind |-> kind, of |-> <<"other", bytes>>]

\* The hex of a reference in a line of text.
RefHex(kind, name) ==
  IF name \notin DOMAIN IdBytes THEN Err
  ELSE FromHexForKind(kind, [chars |-> 2 * Len(IdBytes[name]), of |-> <<"ref", name>>])
=============================================================================
