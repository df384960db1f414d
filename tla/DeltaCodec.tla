----------------------------- MODULE DeltaCodec ------------------------------
(***************************************************************************)
(* Deltas: the Rabin encoder that the packer uses, the edit-script encoder  *)
(* (DeltaDiff, fed by an external diff), and the decoder that rebuilds the  *)
(* object.  The encoder is a loop over mutable state (the output with a     *)
(* length byte filled in later, a rolling hash, a match carried over from   *)
(* one copy to the next), and each turn of it is a step here.               *)
(*                                                                          *)
(* Numbers are scaled down: a byte of a copy instruction holds Radix values *)
(* (256), a literal run DataInsLen bytes (127), a window RabinWindow (16).  *)
(* The fingerprint is a rolling sum, with collisions.                       *)
(***************************************************************************)
EXTENDS SequencesExt, Integers, FiniteSetsExt

CONSTANTS DeltaJobs,      \* base, target, encoder and size limit of each job
          Radix,          \* values of a byte of an offset, size or varint
          RabinWindow,    \* bytes under the fingerprint
          DataInsLen,     \* longest literal run
          MinMatch,       \* shortest match worth a copy (4)
          GoodMatch,      \* a match this long is not improved (4096)
          HashLimit,      \* entries kept of a bucket
          HashValues,     \* values of the fingerprint
          NoLimit         \* max_size is None

VARIABLES job,            \* the call
          enc,            \* the encoder's loop state
          out,            \* the delta
          got             \* the decoder's state

MaxCopy == Radix * Radix           \* 0x10000, and what a copy size of zero means
Byte(b) == [b |-> b]
DataOp(n) == [data |-> n]          \* an instruction byte with the high bit clear
CopyOp(bits) == [copy |-> bits]    \* one with it set; bits: the bytes that follow
IsByte(x) == DOMAIN x = {"b"}
IsData(x) == DOMAIN x = {"data"}

-----------------------------------------------------------------------------
(* Numbers                                                                  *)

\* Little-endian groups; all but the last carry the continue flag.
VarintOf[n \in Nat] ==
  IF n < Radix THEN <<[v |-> n, more |-> FALSE]>>
  ELSE <<[v |-> n % Radix, more |-> TRUE]>> \o VarintOf[n \div Radix]

\* <<value, position after it>>, reading s from position i.
ReadVarint(s, i) ==
  LET last == CHOOSE j \in i..Len(s) : ~s[j].more /\ \A k \in i..(j - 1) : s[k].more
  IN <<FoldLeft(LAMBDA acc, x : acc * Radix + x.v, 0, Reverse(SubSeq(s, i, last))), last + 1>>

Digit(n, i) == (n \div Radix^i) % Radix

\* Only the bytes that are not zero are written: four of the offset, three of the size.
CopyBytes(offset, size) ==
  LET digits == [i \in 0..6 |-> IF i < 4 THEN Digit(offset, i) ELSE Digit(size, i - 4)]
      bits == {i \in 0..6 : digits[i] # 0}
      order == SetToSortSeq(bits, <)
  IN <<CopyOp(bits)>> \o [i \in DOMAIN order |-> Byte(digits[order[i]])]

-----------------------------------------------------------------------------
(* The index of a base                                                      *)

Fingerprint(bytes) == FoldLeft(LAMBDA v, b : (v * 2 + b) % HashValues, 0, bytes)
Roll(v, oldest, newest) == ((v + HashValues * 2^RabinWindow - oldest * 2^(RabinWindow - 1)) * 2 + newest)
                             % HashValues
Bucket(v) == v % 2

\* Windows are taken from the end; a run of equal fingerprints keeps one entry.
IndexWindow(src, list, pos) ==
  LET v == Fingerprint(SubSeq(src, pos + 2, pos + RabinWindow + 1))
      entry == [offset |-> pos + RabinWindow, hash |-> v]
  IN IF list # << >> /\ Last(list).hash = v THEN Front(list) \o <<entry>> ELSE Append(list, entry)

DeltaIndex(src) ==
  LET n == (Len(src) - 1) \div RabinWindow
  IN FoldLeft(LAMBDA list, pos : IndexWindow(src, list, pos), << >>,
              [i \in 1..n |-> (n - i) * RabinWindow])

CullBucket(b) ==
  IF Len(b) <= HashLimit THEN b
  ELSE FoldLeft(LAMBDA kept, i : IF Len(kept) < HashLimit /\ ((i - 1) * HashLimit) \div Len(b) = Len(kept)
                                 THEN Append(kept, b[i]) ELSE kept,
                << >>, [i \in DOMAIN b |-> i])

BucketOf(index, v) == CullBucket(SelectSeq(index, LAMBDA e : Bucket(e.hash) = Bucket(v)))

-----------------------------------------------------------------------------
(* The Rabin encoder; positions count from 0 as in the code                 *)

Src == job.old
Trg == job.new
At(s, i) == s[i + 1]

ExtendMatch(i, j, max) ==
  Max({k \in 0..max : \A x \in 0..(k - 1) : At(Src, i + x) = At(Trg, j + x)})

\* Every entry of the bucket with this very fingerprint, until none can be longer.
Consider(m, entry, pos) ==
  LET max == Min({Len(Src) - entry.offset, Len(Trg) - pos})
      len == ExtendMatch(entry.offset, pos, max)
  IN IF m.stop \/ entry.hash # m.val THEN m
     ELSE IF max <= m.size THEN [m EXCEPT !.stop = TRUE]
     ELSE IF len > m.size THEN [m EXCEPT !.size = len, !.off = entry.offset, !.stop = len >= GoodMatch]
     ELSE m

Search(e, v) ==
  IF e.msize >= GoodMatch THEN [size |-> e.msize, off |-> e.moff]
  ELSE FoldLeft(LAMBDA m, entry : Consider(m, entry, e.pos),
                [size |-> e.msize, off |-> e.moff, val |-> v, stop |-> FALSE],
                BucketOf(e.index, v))

Rolled(e) ==
  Roll(e.val, IF e.pos >= RabinWindow THEN At(Trg, e.pos - RabinWindow) ELSE 0, At(Trg, e.pos))

DeltaStart ==
  /\ enc = [phase |-> "start"] /\ out = << >>
  /\ got = [st |-> "idle", at |-> 1, size |-> 0, result |-> << >>]
DeltaInit == job \in DeltaJobs /\ DeltaStart

LiteralRuns(us) ==
  LET n == (Len(us) + DataInsLen - 1) \div DataInsLen
      run(i) == SubSeq(us, (i - 1) * DataInsLen + 1, Min({i * DataInsLen, Len(us)}))
  IN FlattenSeq([i \in 1..n |-> <<DataOp(Len(run(i)))>> \o [k \in DOMAIN run(i) |-> Byte(run(i)[k])]])

Sizes == VarintOf[Len(Src)] \o VarintOf[Len(Trg)]

\* encode_rabin: an empty target, or a base too short to index, takes no search.
RabinSimple ==
  /\ enc.phase = "start" /\ job.via = "rabin"
  /\ Trg = << >> \/ DeltaIndex(Src) = << >>
  /\ out' = Sizes \o LiteralRuns(Trg) /\ enc' = [enc EXCEPT !.phase = "done"]
  /\ UNCHANGED <<job, got>>

\* The first window is literal, under a length byte filled in later.
RabinSeed ==
  /\ enc.phase = "start" /\ job.via = "rabin" /\ Trg # << >> /\ DeltaIndex(Src) # << >>
  /\ LET n == Min({RabinWindow, Len(Trg)})
         first == SubSeq(Trg, 1, n)
     IN /\ out' = Sizes \o <<DataOp(0)>> \o [k \in 1..n |-> Byte(first[k])]
        /\ enc' = [phase |-> "scan", index |-> DeltaIndex(Src), val |-> Fingerprint(first), pos |-> n,
                   ins |-> n, lenPos |-> Len(Sizes) + 1, moff |-> 0, msize |-> 0]
  /\ UNCHANGED <<job, got>>

Bounded(phase, o) == IF job.max # NoLimit /\ Len(o) > job.max THEN "none" ELSE phase

\* Fault: the run's length is written only when the run ends, not when it is full.
Literal_NoFlush(e, v) ==
  LET lenPos == IF e.ins = 0 THEN Len(out) + 1 ELSE e.lenPos
      o == out \o (IF e.ins = 0 THEN <<DataOp(0)>> ELSE << >>) \o <<Byte(At(Trg, e.pos))>>
      full == e.ins + 1 = DataInsLen
  IN /\ out' = o
     /\ enc' = [e EXCEPT !.val = v, !.pos = @ + 1, !.lenPos = lenPos, !.msize = 0,
                         !.ins = IF full THEN 0 ELSE @ + 1, !.phase = Bounded(@, o)]

\* No match worth a copy: one more byte of the literal run.
Literal(e, v) ==
  LET lenPos == IF e.ins = 0 THEN Len(out) + 1 ELSE e.lenPos
      longer == out \o (IF e.ins = 0 THEN <<DataOp(0)>> ELSE << >>) \o <<Byte(At(Trg, e.pos))>>
      full == e.ins + 1 = DataInsLen
      o == IF full THEN [longer EXCEPT ![lenPos] = DataOp(DataInsLen)] ELSE longer
  IN /\ out' = o
     /\ enc' = [e EXCEPT !.val = v, !.pos = @ + 1, !.lenPos = lenPos, !.msize = 0,
                         !.ins = IF full THEN 0 ELSE @ + 1, !.phase = Bounded(@, o)]

BackExtend(e, off) ==
  Max({k \in 0..Min({e.ins, off}) : \A x \in 1..k : At(Src, off - x) = At(Trg, e.pos - x)})

\* The match grows backwards into the pending run, which shrinks; a long match
\* is copied in pieces, the rest of it carried to the next turn.
Copy(e, v, m) ==
  LET back == BackExtend(e, m.off)
      ins == e.ins - back
      off == m.off - back
      len == m.size + back
      piece == Min({len, MaxCopy})
      cut == IF back = 0 THEN out
             ELSE SubSeq(out, 1, IF ins = 0 THEN e.lenPos - 1 ELSE Len(out) - back)
      closed == IF ins > 0 THEN [cut EXCEPT ![e.lenPos] = DataOp(ins)] ELSE cut
      o == closed \o CopyBytes(off, piece)
      pos == e.pos - back + piece
      reseed == len - piece < GoodMatch /\ pos >= RabinWindow
  IN /\ out' = o
     /\ enc' = [e EXCEPT !.pos = pos, !.ins = 0, !.moff = off + piece, !.msize = len - piece,
                         !.val = IF reseed THEN Fingerprint(SubSeq(Trg, pos - RabinWindow + 1, pos)) ELSE v,
                         !.phase = Bounded(@, o)]

RabinScan ==
  /\ enc.phase = "scan" /\ enc.pos < Len(Trg)
  /\ LET v == Rolled(enc)
         m == Search(enc, v)
     IN IF m.size < MinMatch THEN Literal(enc, v) ELSE Copy(enc, v, m)
  /\ UNCHANGED <<job, got>>

RabinFlush ==
  /\ enc.phase = "scan" /\ enc.pos >= Len(Trg)
  /\ LET o == IF enc.ins > 0 THEN [out EXCEPT ![enc.lenPos] = DataOp(enc.ins)] ELSE out
     IN out' = o /\ enc' = [phase |-> Bounded("done", o)]
  /\ UNCHANGED <<job, got>>

-----------------------------------------------------------------------------
(* DeltaDiff: the calls of an edit script that turns the base into the target *)

DiffStart ==
  /\ enc.phase = "start" /\ job.via = "diff"
  /\ enc' = [phase |-> "diff", old |-> 0, pos |-> 0, ops |-> << >>]
  /\ UNCHANGED <<job, out, got>>

Op(ins, begin, len) == [ins |-> ins, begin |-> begin, len |-> len]
Tail1(ops, ins, begin) ==
  ops # << >> /\ Last(ops).ins = ins /\ Last(ops).begin + Last(ops).len = begin
Grown(ops, n) == [ops EXCEPT ![Len(ops)].len = @ + n]

\* A copy that goes on where the last one ended extends it.
DiffEqual(n) ==
  /\ enc.phase = "diff" /\ enc.old + n <= Len(Src) /\ enc.pos + n <= Len(Trg)
  /\ SubSeq(Src, enc.old + 1, enc.old + n) = SubSeq(Trg, enc.pos + 1, enc.pos + n)
  /\ enc' = [enc EXCEPT !.old = @ + n, !.pos = @ + n,
                        !.ops = IF Tail1(@, "copy", enc.old) THEN Grown(@, n)
                                ELSE Append(@, Op("copy", enc.old, n))]
  /\ UNCHANGED <<job, out, got>>

Runs(begin, n) ==
  LET k == (n + DataInsLen - 1) \div DataInsLen
  IN [i \in 1..k |-> Op("data", begin + (i - 1) * DataInsLen, Min({DataInsLen, n - (i - 1) * DataInsLen}))]

DiffInsert(n) ==
  /\ enc.phase = "diff" /\ enc.pos + n <= Len(Trg)
  /\ enc' = [enc EXCEPT !.pos = @ + n,
                        !.ops = IF /\ n <= DataInsLen /\ Tail1(@, "data", enc.pos)
                                   /\ Last(@).len + n < DataInsLen
                                THEN Grown(@, n) ELSE @ \o Runs(enc.pos, n)]
  /\ UNCHANGED <<job, out, got>>

DiffDelete(n) ==
  /\ enc.phase = "diff" /\ enc.old + n <= Len(Src)
  /\ enc' = [enc EXCEPT !.old = @ + n]
  /\ UNCHANGED <<job, out, got>>

EncodeOp(op) ==
  IF op.ins = "data"
  THEN <<DataOp(op.len)>> \o [k \in 1..op.len |-> Byte(At(Trg, op.begin + k - 1))]
  ELSE CopyBytes(op.begin, op.len)

DiffEncode ==
  /\ enc.phase = "diff" /\ enc.old = Len(Src) /\ enc.pos = Len(Trg)
  /\ out' = Sizes \o FlattenSeq([i \in DOMAIN enc.ops |-> EncodeOp(enc.ops[i])])
  /\ enc' = [phase |-> "done"]
  /\ UNCHANGED <<job, got>>

-----------------------------------------------------------------------------
(* The decoder                                                              *)

Fail == got' = [got EXCEPT !.st = "failed"]

ReadSizes ==
  /\ enc.phase = "done" /\ got.st = "idle"
  /\ LET base == ReadVarint(out, 1)
         result == ReadVarint(out, base[2])
     IN IF base[1] # Len(Src) THEN Fail
        ELSE got' = [got EXCEPT !.st = "ops", !.at = result[2], !.size = result[1]]
  /\ UNCHANGED <<job, enc, out>>

Appended(us) == IF Len(got.result) + Len(us) > got.size THEN "failed" ELSE "ops"

DecodeData ==
  /\ got.st = "ops" /\ got.at <= Len(out) /\ IsData(out[got.at])
  /\ LET n == out[got.at].data
         bytes == SubSeq(out, got.at + 1, got.at + n)
         us == [i \in DOMAIN bytes |-> bytes[i].b]
     IN IF n = 0 \/ got.at + n > Len(out) \/ \E i \in DOMAIN bytes : ~IsByte(bytes[i]) THEN Fail
        ELSE got' = [got EXCEPT !.result = @ \o us, !.at = @ + n + 1, !.st = Appended(us)]
  /\ UNCHANGED <<job, enc, out>>

\* read_partial_int, twice; absent bytes are zero, and so is no size 2^16.
DecodeCopy ==
  /\ got.st = "ops" /\ got.at <= Len(out) /\ ~IsData(out[got.at])
  /\ IF IsByte(out[got.at]) THEN Fail
     ELSE LET bits == out[got.at].copy
              val(i) == out[got.at + Cardinality({j \in bits : j <= i})].b
              offset == MapThenSumSet(LAMBDA i : val(i) * Radix^i, bits \intersect 0..3)
              coded == MapThenSumSet(LAMBDA i : val(i) * Radix^(i - 4), bits \intersect 4..6)
              size == IF coded = 0 THEN MaxCopy ELSE coded
              us == SubSeq(Src, offset + 1, offset + size)
          IN IF offset + size > Len(Src) THEN Fail
             ELSE got' = [got EXCEPT !.result = @ \o us, !.at = @ + 1 + Cardinality(bits),
                                     !.st = Appended(us)]
  /\ UNCHANGED <<job, enc, out>>

DecodeEnd ==
  /\ got.st = "ops" /\ got.at > Len(out)
  /\ got' = [got EXCEPT !.st = IF Len(got.result) = got.size THEN "ok" ELSE "failed"]
  /\ UNCHANGED <<job, enc, out>>

DeltaNext ==
  \/ RabinSimple \/ RabinSeed \/ RabinScan \/ RabinFlush
  \/ DiffStart \/ DiffEncode
  \/ \E n \in 1..Len(Trg) : DiffEqual(n) \/ DiffInsert(n)
  \/ \E n \in 1..Len(Src) : DiffDelete(n)
  \/ ReadSizes \/ DecodeData \/ DecodeCopy \/ DecodeEnd

deltaVars == <<job, enc, out, got>>

-----------------------------------------------------------------------------

\* From what either encoder hands out (no copy of the edit-script encoder being
\* longer than its three length bytes hold) the decoder rebuilds the target:
\* across literal runs that fill up, matches that grow back into a pending run,
\* copies cut at 64 KiB, colliding fingerprints, a stale rolling hash and culled
\* buckets.  A delta asked for within max_size is within it.
DeltaRebuilds ==
  /\ got.st # "failed"
  /\ got.st = "ok" => got.result = Trg
  /\ enc.phase = "done" /\ job.max # NoLimit /\ Trg # << >> => Len(out) <= job.max
=============================================================================
