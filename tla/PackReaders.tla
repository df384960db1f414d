----------------------------- MODULE PackReaders -----------------------------
(***************************************************************************)
(* decode_stream: an asynchronous stream of byte chunks is forwarded by a   *)
(* task through a channel to a blocking decoder, which reads it through a   *)
(* stack of readers.  With a large memory limit the decoder first copies    *)
(* the stream to a temporary file while it scans it (TeeReader) and then    *)
(* decodes the file; otherwise it decodes the stream (Wrapper).             *)
(*                                                                          *)
(* Bytes are abstract units.  A pack is header, objects and trailer; its    *)
(* steps say how each part is consumed: "read" (read_exact) or "inflate"    *)
(* (fill_buf and consume by the zlib decoder).                              *)
(***************************************************************************)
EXTENDS SequencesExt, Integers

CONSTANTS StreamScenarios,   \* the chunks sent, the steps that decode them, the route
          TrailerSize        \* units of the trailer hash

VARIABLES input,             \* the scenario
          feeder,            \* items the forwarding task has not seen, or "done"
          chan,              \* chunks in the channel
          buf,               \* what is left of StreamBufReader's chunk
          dec                \* the decoder

NoStep == [how |-> "eof", n |-> 0]
Unit(i) == [v |-> i]
ErrItem == <<[err |-> TRUE]>>   \* an Err item of the stream
DigestUnits(us) == [i \in 1..TrailerSize |-> [d |-> us, i |-> i]]
SentUnits(items) == FlattenSeq(SelectSeq(items, LAMBDA c : c # ErrItem))

ReadersInit ==
  /\ input \in StreamScenarios
  /\ feeder = [items |-> input.items, done |-> FALSE]
  /\ chan = << >> /\ buf = << >>
  /\ dec = [pc |-> IF input.large THEN "copy" ELSE "stream", at |-> 1, left |-> input.steps[1].n,
            seen |-> << >>, payload |-> << >>, tail |-> << >>, tmp |-> << >>, werr |-> FALSE]

Running == dec.pc \in {"copy", "stream"}
StepNow == IF dec.at <= Len(input.steps) THEN input.steps[dec.at] ELSE NoStep
End(pc) == dec' = [dec EXCEPT !.pc = pc]

-----------------------------------------------------------------------------
(* The forwarding task                                                      *)

Exhausted == IF feeder.items = << >> THEN TRUE ELSE Head(feeder.items) = ErrItem

Forward ==
  /\ ~feeder.done /\ ~Exhausted
  /\ IF dec.pc \in {"ok", "panic"}
     THEN feeder' = [feeder EXCEPT !.done = TRUE] /\ UNCHANGED chan
     ELSE /\ chan' = Append(chan, Head(feeder.items))
          /\ feeder' = [feeder EXCEPT !.items = Tail(@)]
  /\ UNCHANGED <<input, buf, dec>>

\* Fault: the task keeps its sender when the stream fails.
ForwardEnds_KeepSender ==
  /\ ~feeder.done /\ feeder.items = << >>
  /\ feeder' = [feeder EXCEPT !.done = TRUE]
  /\ UNCHANGED <<input, chan, buf, dec>>

\* The stream ends, or an Err item makes the task panic: the sender is dropped.
ForwardEnds ==
  /\ ~feeder.done /\ Exhausted
  /\ feeder' = [feeder EXCEPT !.done = TRUE]
  /\ UNCHANGED <<input, chan, buf, dec>>

-----------------------------------------------------------------------------
(* StreamBufReader                                                          *)

\* A read blocks while the chunk is used up, the channel empty and the task alive.
Ready == buf # << >> \/ chan # << >> \/ feeder.done
Refilled == IF buf # << >> THEN buf ELSE IF chan # << >> THEN Head(chan) ELSE << >>
Advance(k) ==
  /\ buf' = SubSeq(Refilled, k + 1, Len(Refilled))
  /\ chan' = IF buf = << >> /\ chan # << >> THEN Tail(chan) ELSE chan

-----------------------------------------------------------------------------
(* TeeReader: the last TrailerSize units are held back from the hash        *)

RecordPackBytes(r, us) ==
  LET total == Len(r.tail) + Len(us)
      out == total - TrailerSize
  IN IF us = << >> THEN r
     ELSE IF total <= TrailerSize THEN [r EXCEPT !.tail = @ \o us]
     ELSE IF out <= Len(r.tail)
          THEN [r EXCEPT !.payload = @ \o SubSeq(r.tail, 1, out),
                         !.tail = SubSeq(r.tail, out + 1, Len(r.tail)) \o us]
          ELSE [r EXCEPT !.payload = @ \o r.tail \o SubSeq(us, 1, out - Len(r.tail)),
                         !.tail = SubSeq(us, out - Len(r.tail) + 1, Len(us))]

-----------------------------------------------------------------------------
(* Consuming a step                                                         *)

AfterTake(r, k) ==
  [r EXCEPT !.seen = @ \o SubSeq(Refilled, 1, k),
            !.at = IF r.left = k THEN @ + 1 ELSE @,
            !.left = IF r.left > k THEN @ - k
                     ELSE IF r.at < Len(input.steps) THEN input.steps[r.at + 1].n ELSE 0]

Copied(r, us) == [RecordPackBytes(r, us) EXCEPT !.tmp = @ \o us]

\* The Wrapper hashes what is read; TeeReader copies it, and a failed write of
\* Read::read is an error at once.
ReadUnits ==
  /\ Running /\ StepNow.how = "read" /\ Ready
  /\ LET k == IF Len(Refilled) < dec.left THEN Len(Refilled) ELSE dec.left
         us == SubSeq(Refilled, 1, k)
     IN /\ Advance(k)
        /\ IF dec.werr \/ k = 0 THEN End("panic")
           ELSE IF dec.pc = "stream" THEN dec' = AfterTake(dec, k)
           ELSE \/ dec' = Copied(AfterTake(dec, k), us)
                \/ input.diskFull /\ End("panic")
  /\ UNCHANGED <<input, feeder>>

\* A failed write inside consume, which returns nothing, is kept for the next call.
InflateUnits ==
  /\ Running /\ StepNow.how = "inflate" /\ Ready
  /\ IF dec.werr \/ Refilled = << >> THEN End("panic") /\ Advance(0)
     ELSE \E k \in 1..(IF Len(Refilled) < dec.left THEN Len(Refilled) ELSE dec.left) :
            /\ Advance(k)
            /\ IF dec.pc = "stream" THEN dec' = AfterTake(dec, k)
               ELSE \/ dec' = Copied(AfterTake(dec, k), SubSeq(Refilled, 1, k))
                    \/ input.diskFull /\ dec' = [AfterTake(dec, k) EXCEPT !.werr = TRUE]
  /\ UNCHANGED <<input, feeder>>

BodyOf(us) == SubSeq(us, 1, Len(us) - TrailerSize)
TrailerOf(us) == SubSeq(us, Len(us) - TrailerSize + 1, Len(us))

\* The whole pack was read: it must be the end (one more read returns nothing),
\* and the trailer must be the digest the Wrapper took of all that precedes it.
FinishStream ==
  /\ dec.pc = "stream" /\ StepNow = NoStep /\ Ready
  /\ IF TrailerOf(dec.seen) = DigestUnits(BodyOf(dec.seen)) /\ Refilled = << >>
     THEN End("ok") ELSE End("panic")
  /\ Advance(0) /\ UNCHANGED <<input, feeder>>

\* The scan ends at the end of the stream, with no write error left behind and
\* a whole trailer held back; the copy is flushed.
FinishCopy ==
  /\ dec.pc = "copy" /\ StepNow = NoStep /\ Ready
  /\ IF Refilled = << >> /\ ~dec.werr /\ Len(dec.tail) = TrailerSize
     THEN End("file") \/ (input.diskFull /\ End("panic"))
     ELSE End("panic")
  /\ Advance(0) /\ UNCHANGED <<input, feeder>>

\* Fault: only the trailer read twice is compared, never the payload's digest.
PackHashOk_TrailerOnly(signature) == dec.tail = signature

\* expected_pack_hash is the payload hash; verify_pack_hash_check compares both.
PackHashOk(signature) == DigestUnits(dec.payload) = signature /\ dec.tail = signature

\* decode_file_inner_with_scan over the temporary file (PackDecode models the pass).
DecodeFile ==
  /\ dec.pc = "file"
  /\ IF /\ Len(dec.tmp) = FoldSeq(LAMBDA s, n : s.n + n, 0, input.steps)
        /\ PackHashOk(TrailerOf(dec.tmp))
     THEN End("ok") ELSE End("panic")
  /\ UNCHANGED <<input, feeder, chan, buf>>

ReadersStep == ReadUnits \/ InflateUnits \/ FinishStream \/ FinishCopy \/ DecodeFile
ReadersNext == Forward \/ ForwardEnds \/ ReadersStep

readersVars == <<input, feeder, chan, buf, dec>>

\* The runtime polls the forwarding task while the stream has items, and the
\* blocking thread runs.
ReadersFairness == WF_readersVars(Forward \/ ForwardEnds) /\ WF_readersVars(ReadersStep)

-----------------------------------------------------------------------------

Accepted == IF input.large THEN dec.tmp ELSE dec.seen
NoEmptyChunk == \A i \in DOMAIN input.items : input.items[i] # << >>
WholePack == Len(SentUnits(input.items)) = FoldSeq(LAMBDA s, n : s.n + n, 0, input.steps)
Sound == /\ WholePack /\ NoEmptyChunk
         /\ TrailerOf(SentUnits(input.items)) = DigestUnits(BodyOf(SentUnits(input.items)))

\* decode_stream accepts only what the stream carried, in order and under a
\* trailer that is the digest of all the rest, and all of it when no chunk is
\* empty; and it refuses a sound pack only when the temporary file could not
\* be written - however the bytes fall into chunks, whichever reader hands
\* them on, wherever the stream breaks off.
StreamDecoded ==
  /\ dec.pc = "ok" =>
       /\ IsPrefix(Accepted, SentUnits(input.items))
       /\ TrailerOf(Accepted) = DigestUnits(BodyOf(Accepted))
       /\ NoEmptyChunk => Accepted = SentUnits(input.items)
  /\ dec.pc = "panic" => ~Sound \/ input.diskFull

\* A decode_stream call returns or panics, and its forwarding task ends, even
\* when the stream fails, is cut short or goes on after the pack.
StreamEnds == <>(dec.pc \in {"ok", "panic"} /\ feeder.done)
=============================================================================
