------------------------------ MODULE PackStream ------------------------------
(***************************************************************************)
(* The background tasks that turn the objects of a fetch into a pack:       *)
(* spawn_pack_stream, the feeder and the encoder task of                    *)
(* generate_pack_stream, the loop that forwards encoded chunks to the       *)
(* response, and the transport that polls the response for the client.      *)
(* A chunk is "head", an object, "trailer" or "empty" (a whole pack of no   *)
(* objects); "err" is the Err item of a failed producer.                    *)
(***************************************************************************)
EXTENDS SequencesExt, Integers

CONSTANTS Requests,   \* requests in flight
          QCap        \* capacity of the three channels (1024)

VARIABLES strm,       \* strm[r]: the producer's tasks and channels
          client      \* client[r]: what the client has received

NoStream ==
  [feed |-> << >>, feeding |-> FALSE, entryQ |-> << >>, enc |-> "ok", held |-> << >>,
   packQ |-> << >>, packRx |-> FALSE, fwd |-> "done", item |-> "none",
   outQ |-> << >>, outRx |-> TRUE]

NewClient == [got |-> {}, end |-> "open"]

StreamInit ==
  /\ strm = [r \in Requests |-> NoStream]
  /\ client = [r \in Requests |-> NewClient]

EncoderEnded(r) == strm[r].enc \in {"ok", "err", "panic"}
StreamEnded(r) == strm[r].fwd = "done" /\ EncoderEnded(r) /\ ~strm[r].feeding
Room(q) == Len(q) < QCap

\* Nothing to send is one chunk and no encoder; otherwise the feeder, the
\* encoder and the forwarding loop start together.
Spawned(entries) ==
  IF entries = << >>
  THEN [NoStream EXCEPT !.fwd = "send", !.item = "empty"]
  ELSE [NoStream EXCEPT !.feed = entries, !.feeding = TRUE, !.enc = "head",
                        !.packRx = TRUE, !.fwd = "recv"]

Spawn(r, entries) == strm' = [strm EXCEPT ![r] = Spawned(entries)]

\* The response is dropped before anything read from it.
SpawnDropped(r, entries) == strm' = [strm EXCEPT ![r] = [Spawned(entries) EXCEPT !.outRx = FALSE]]

-----------------------------------------------------------------------------
(* The feeder                                                               *)

Feed(r) ==
  /\ strm[r].feeding /\ strm[r].feed # << >> /\ ~EncoderEnded(r) /\ Room(strm[r].entryQ)
  /\ strm' = [strm EXCEPT ![r].entryQ = Append(@, Head(strm[r].feed)), ![r].feed = Tail(@)]
  /\ UNCHANGED client

\* All entries sent, or the encoder dropped its receiver: the sender is dropped.
FeedEnds(r) ==
  /\ strm[r].feeding /\ (strm[r].feed = << >> \/ EncoderEnded(r))
  /\ strm' = [strm EXCEPT ![r].feeding = FALSE]
  /\ UNCHANGED client

-----------------------------------------------------------------------------
(* The encoder task (PackEncode describes what it computes)                 *)

\* A send of the encoder unwraps its result: it panics when the receiver is gone.
Emit(r, chunk, next, held) ==
  /\ strm' = IF strm[r].packRx
             THEN [strm EXCEPT ![r].packQ = Append(@, chunk), ![r].enc = next, ![r].held = held]
             ELSE [strm EXCEPT ![r].enc = "panic"]
  /\ UNCHANGED client

MaySend(r) == Room(strm[r].packQ) \/ ~strm[r].packRx

EncodeHead(r) ==
  /\ strm[r].enc = "head" /\ MaySend(r)
  /\ Emit(r, "head", "recv", << >>)

EncodeRecv(r) ==
  /\ strm[r].enc = "recv" /\ (strm[r].entryQ # << >> \/ ~strm[r].feeding)
  /\ strm' = IF strm[r].entryQ # << >>
             THEN [strm EXCEPT ![r].held = Append(@, Head(strm[r].entryQ)), ![r].entryQ = Tail(@)]
             ELSE [strm EXCEPT ![r].enc = "emit"]
  /\ UNCHANGED client

EncodeObject(r) ==
  /\ strm[r].enc = "emit" /\ strm[r].held # << >> /\ MaySend(r)
  /\ Emit(r, Head(strm[r].held), "emit", Tail(strm[r].held))

EncodeTrailer(r) ==
  /\ strm[r].enc = "emit" /\ strm[r].held = << >> /\ MaySend(r)
  /\ Emit(r, "trailer", "ok", << >>)

\* encode returns an error, or its task panics.
EncodeFails(r) ==
  /\ strm[r].enc \in {"recv", "emit"}
  /\ \E how \in {"err", "panic"}: strm' = [strm EXCEPT ![r].enc = how]
  /\ UNCHANGED client

-----------------------------------------------------------------------------
(* The forwarding loop                                                      *)

\* A chunk is taken from the encoder's channel; when the channel is closed and
\* empty, the encoder task is joined.
Forward(r) ==
  /\ strm[r].fwd = "recv" /\ (strm[r].packQ # << >> \/ EncoderEnded(r))
  /\ strm' = IF strm[r].packQ # << >>
             THEN [strm EXCEPT ![r].item = Head(strm[r].packQ), ![r].packQ = Tail(@), ![r].fwd = "send"]
             ELSE [strm EXCEPT ![r].fwd = "join"]
  /\ UNCHANGED client

\* Fault: the encoder's channel is kept while its task is awaited.
Deliver_KeepRx(r) ==
  /\ strm[r].fwd = "send" /\ (Room(strm[r].outQ) \/ ~strm[r].outRx)
  /\ strm' = IF strm[r].outRx
             THEN [strm EXCEPT ![r].outQ = Append(@, strm[r].item), ![r].fwd = "recv"]
             ELSE [strm EXCEPT ![r].fwd = "wind"]
  /\ UNCHANGED client

\* The chunk goes to the response; with nobody listening the encoder's channel
\* is dropped, so that its next send fails, and its task awaited.
Deliver(r) ==
  /\ strm[r].fwd = "send" /\ (Room(strm[r].outQ) \/ ~strm[r].outRx)
  /\ strm' = IF strm[r].outRx
             THEN [strm EXCEPT ![r].outQ = Append(@, strm[r].item), ![r].fwd = "recv"]
             ELSE [strm EXCEPT ![r].fwd = "wind", ![r].packRx = FALSE, ![r].packQ = << >>]
  /\ UNCHANGED client

WindDown(r) ==
  /\ strm[r].fwd = "wind" /\ EncoderEnded(r)
  /\ strm' = [strm EXCEPT ![r].fwd = "done"]
  /\ UNCHANGED client

\* Fault: the encoder's result is not looked at.
Join_Ignored(r) ==
  /\ strm[r].fwd = "join" /\ EncoderEnded(r)
  /\ strm' = [strm EXCEPT ![r].fwd = "done"]
  /\ UNCHANGED client

\* An encoder failure, panic included, is an error of generate_pack_stream.
Join(r) ==
  /\ strm[r].fwd = "join" /\ EncoderEnded(r)
  /\ strm' = [strm EXCEPT ![r].fwd = IF strm[r].enc = "ok" THEN "done" ELSE "fail"]
  /\ UNCHANGED client

\* spawn_pack_stream sends the error as the last item, if anyone listens.
SendError(r) ==
  /\ strm[r].fwd = "fail" /\ (Room(strm[r].outQ) \/ ~strm[r].outRx)
  /\ strm' = [strm EXCEPT ![r].fwd = "done", ![r].outQ = IF strm[r].outRx THEN Append(@, "err") ELSE @]
  /\ UNCHANGED client

-----------------------------------------------------------------------------
(* The transport.  Side-band packets hold the bytes of their chunk in order *)
(* and the closing flush is chained after the last item; an Err item ends   *)
(* the response at once, in both framings.                                  *)

Poll(r) ==
  /\ client[r].end = "open" /\ strm[r].outQ # << >>
  /\ LET item == Head(strm[r].outQ)
     IN  IF item = "err"
         THEN /\ client' = [client EXCEPT ![r].end = "error"]
              /\ strm' = [strm EXCEPT ![r].outQ = << >>, ![r].outRx = FALSE]
         ELSE /\ client' = [client EXCEPT ![r].got = @ \union {item}]
              /\ strm' = [strm EXCEPT ![r].outQ = Tail(@)]

\* The sender is gone and the queue empty: flush (side band) or end of data.
PollEnd(r) ==
  /\ client[r].end = "open" /\ strm[r].outQ = << >> /\ strm[r].fwd = "done"
  /\ client' = [client EXCEPT ![r].end = "clean"]
  /\ UNCHANGED strm

\* The client goes away: the response stream is dropped.
HangUp(r) ==
  /\ client[r].end = "open"
  /\ client' = [client EXCEPT ![r].end = "gone"]
  /\ strm' = [strm EXCEPT ![r].outQ = << >>, ![r].outRx = FALSE]

StreamStep(r) ==
  \/ Feed(r) \/ FeedEnds(r)
  \/ EncodeHead(r) \/ EncodeRecv(r) \/ EncodeObject(r) \/ EncodeTrailer(r)
  \/ Forward(r) \/ Deliver(r) \/ WindDown(r) \/ Join(r) \/ SendError(r)
=============================================================================
