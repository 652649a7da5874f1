------------------------------ MODULE QzStream ------------------------------
(***************************************************************************)
(* The stream API: qzCompressStream and qzDecompressStream carry a stream  *)
(* of bytes through an input and an output buffer of strm_buff_sz bytes    *)
(* that survive from one call to the next, whatever the sizes of the       *)
(* pieces the application hands in and of the room it offers.              *)
(*                                                                         *)
(* The stream is the bytes 1 .. NumBytes.  qzCompressCrc / qzDecompress    *)
(* turns a byte b into x tokens <<b, 1, x>> .. <<b, x, x>>, with an x of   *)
(* its own for every call, as far as they fit into the output buffer; so   *)
(* the tokens the application receives tell which bytes were processed, in *)
(* which order, and whether a token was lost or repeated.                  *)
(*                                                                         *)
(* The application is the loop of a program that copies a file: it offers  *)
(* pieces of one size and room of one size, advances by what the call      *)
(* reports, sets last when the file is at its end, and ends the stream     *)
(* when everything has arrived or a call has failed.                       *)
(***************************************************************************)
EXTENDS Integers, Sequences, SequencesExt

CONSTANTS
  NumBytes,    \* length of the application's data
  BufLen,      \* strm_buff_sz
  Pieces,      \* sizes of the pieces the application may hand in
  Rooms,       \* sizes of the output space it may offer
  Expansions,  \* tokens a byte may become
  MaxStreams   \* bound on the streams opened one after the other

ASSUME StreamConstants ==
  /\ {NumBytes, BufLen, MaxStreams} \subseteq Nat \ {0}
  /\ Pieces \subseteq Nat \ {0} /\ Rooms \subseteq Nat \ {0} /\ Expansions \subseteq Nat \ {0}

VARIABLES
  app,   \* the application: direction, sizes, what it handed in and received
  strm,  \* QzStream_T
  buf,   \* QzStreamBuf_T
  call   \* the call under way: its locals

vars == <<app, strm, buf, call>>

Least(a, b) == IF a < b THEN a ELSE b

NoCall == [pc |-> "idle", in |-> 0, last |-> FALSE, copied_input |-> 0, copied_input_last |-> 0,
           copy_more |-> TRUE, inbuf_offset |-> 0, consumed |-> 0, produced |-> 0]

NewBuf == [in |-> [k \in 1 .. BufLen |-> 0], out |-> << >>,
           in_offset |-> 0, out_offset |-> 0, flush_more |-> FALSE]

NoStream == [opaque |-> FALSE, pending_in |-> 0, pending_out |-> 0, in_sz |-> 0, out_sz |-> 0]

Init ==
  /\ \E d \in {"compress", "decompress"}, p \in Pieces, r \in Rooms :
       app = [dir |-> d, piece |-> p, room |-> r, accepted |-> 0, got |-> << >>,
              failed |-> FALSE, streams |-> 1]
  /\ strm = NoStream /\ buf = NewBuf /\ call = NoCall

Idle == call.pc = "idle"
Goto(pc) == call' = [call EXCEPT !.pc = pc]

(***************************************************************************)
(* The application.                                                        *)
(***************************************************************************)

Complete == app.accepted = NumBytes /\ strm.pending_in = 0 /\ strm.pending_out = 0

\* A call with the next piece of the data.
Call ==
  LET n == Least(app.piece, NumBytes - app.accepted)
  IN /\ Idle /\ ~app.failed /\ ~Complete
     /\ strm' = [strm EXCEPT !.in_sz = n, !.out_sz = app.room]
     /\ call' = [NoCall EXCEPT !.pc = "start", !.in = app.accepted,
                               !.last = app.accepted + n = NumBytes]
     /\ UNCHANGED <<app, buf>>

\* qzEndStream: the buffers go back, what is pending is dropped.  The
\* application may begin another stream afterwards.
EndStream ==
  /\ Idle /\ (app.failed \/ Complete) /\ app.streams < MaxStreams
  /\ strm' = NoStream /\ buf' = NewBuf
  /\ app' = [app EXCEPT !.accepted = 0, !.got = << >>, !.failed = FALSE, !.streams = @ + 1]
  /\ UNCHANGED call

\* The label done: in_sz and out_sz report what the call consumed and
\* produced, and the application goes on from there.  a is the application
\* with what it received in this step.
Done(c, s, a, ok) ==
  /\ call' = NoCall
  /\ strm' = [s EXCEPT !.in_sz = c.copied_input, !.out_sz = c.produced]
  /\ app' = [a EXCEPT !.accepted = @ + c.copied_input, !.failed = ~ok]

(***************************************************************************)
(* The copies.                                                             *)
(***************************************************************************)

\* copyStreamInput: as much of the piece as there is space behind the
\* pending_in bytes, counted from the beginning of the buffer.
CopyIn(s) == Least(s.in_sz, BufLen - s.pending_in)

Filled(b, s, from) ==
  [b EXCEPT !.in = [k \in DOMAIN @ |->
     IF k \in s.pending_in + 1 .. s.pending_in + CopyIn(s) THEN from + k - s.pending_in ELSE @[k]]]

\* copyStreamOutput: as much of the pending output as there is room.
CopyOut(s) == Least(s.pending_out, s.out_sz)

Taken(a, b, s) ==
  [a EXCEPT !.got = @ \o SubSeq(b.out, b.out_offset + 1, b.out_offset + CopyOut(s))]

Drained(s) == [s EXCEPT !.out_sz = @ - CopyOut(s), !.pending_out = @ - CopyOut(s)]

Advanced(b, s) ==
  [b EXCEPT !.out_offset = IF CopyOut(s) = s.pending_out THEN 0 ELSE @ + CopyOut(s)]

(***************************************************************************)
(* qzCompressStream and qzDecompressStream.                                *)
(***************************************************************************)

\* initStream on the first call of a stream, qzInit and the session.
Start ==
  /\ call.pc = "start"
  /\ IF strm.opaque THEN UNCHANGED <<strm, buf>>
     ELSE /\ strm' = [strm EXCEPT !.opaque = TRUE, !.pending_in = 0, !.pending_out = 0]
          /\ buf' = NewBuf
  /\ Goto("drain")
  /\ UNCHANGED app

\* A call that gives up before it touches the stream: no stream buffers, no
\* session, a format the stream API does not do.
Refuse ==
  /\ call.pc = "start"
  /\ Done(NoCall, strm, app, FALSE)
  /\ UNCHANGED buf

\* A compression whose qzInit fails returns without a report: in_sz and
\* out_sz are what the application passed in.
RefuseInit ==
  /\ call.pc = "start" /\ app.dir = "compress" /\ strm.opaque
  /\ call' = NoCall
  /\ app' = [app EXCEPT !.failed = TRUE]
  /\ UNCHANGED <<strm, buf>>

\* The first loop: the output left from the last call goes out first.  If
\* there is no room for more, or (compressing) nothing else to do, the call
\* ends; input that is still pending is marked to be flushed first.
Drain ==
  LET s == Drained(strm)
      n == CopyOut(strm)
      c == [call EXCEPT !.produced = @ + n]
      stuck == n = 0 \/ (app.dir = "compress" /\ s.pending_out = 0 /\ s.pending_in = 0 /\ s.in_sz = 0)
  IN /\ call.pc = "drain" /\ strm.pending_out > 0
     /\ IF stuck
          THEN /\ Done(c, s, Taken(app, buf, strm), TRUE)
               /\ buf' = [Advanced(buf, strm) EXCEPT !.flush_more = @ \/ s.pending_in > 0]
          ELSE /\ call' = c /\ strm' = s
               /\ app' = Taken(app, buf, strm)
               /\ buf' = Advanced(buf, strm)

DrainDone ==
  /\ call.pc = "drain" /\ strm.pending_out = 0
  /\ Goto("fill")
  /\ UNCHANGED <<app, strm, buf>>

\* Not used by any specification: the wait for a full buffer that has not
\* heard of the end of the data.
WaitsForMoreWithoutLast(s) == s.pending_in < BufLen

\* A buffer that is not full waits for more input, except at the end.
WaitsForMore(s) == s.pending_in < BufLen /\ ~call.last

\* The head of the second loop: more input, unless some is pending from
\* before.
Fill ==
  LET s == [strm EXCEPT !.pending_in = @ + CopyIn(strm), !.in_sz = @ - CopyIn(strm)]
      d == [call EXCEPT !.copied_input_last = call.copied_input, !.copied_input = @ + CopyIn(strm)]
  IN /\ call.pc = "fill"
     /\ IF call.copy_more /\ ~buf.flush_more
          THEN /\ buf' = Filled(buf, strm, call.in + call.consumed)
               /\ IF WaitsForMore(s)
                    THEN Done(d, s, app, TRUE)
                    ELSE /\ call' = [d EXCEPT !.copy_more = FALSE, !.pc = "process"]
                         /\ strm' = s /\ UNCHANGED app
          ELSE Goto("process") /\ UNCHANGED <<app, strm, buf>>

\* The tokens of a sequence of bytes.
Tokens(bytes, x) ==
  [k \in 1 .. x * Len(bytes) |-> <<bytes[((k - 1) \div x) + 1], ((k - 1) % x) + 1, x>>]

\* qzCompressCrc and qzDecompress, seen from here: the input they are given
\* is processed completely, or as far as the output buffer reaches, or not
\* at all.
Codec(bytes) ==
  {[rc |-> IF x * Len(bytes) <= BufLen THEN "OK" ELSE "BUF_ERROR",
    in |-> Least(Len(bytes), BufLen \div x),
    out |-> Tokens(SubSeq(bytes, 1, Least(Len(bytes), BufLen \div x)), x)] : x \in Expansions}
  \cup {[rc |-> "FAIL", in |-> 0, out |-> << >>]}

\* Not used by any specification: the codec call that does not go back to
\* the input left from the call before.
OffsetWithoutFlush == call.inbuf_offset

\* Where the input of the next codec call begins.
Offset == IF buf.flush_more THEN buf.in_offset ELSE call.inbuf_offset

\* A decompression that fails returns at once.
ProcessFail ==
  /\ call.pc = "process" /\ app.dir = "decompress"
  /\ Done([call EXCEPT !.copied_input = call.copied_input_last], strm, app, FALSE)
  /\ buf' = [buf EXCEPT !.flush_more = FALSE]

\* The body of the second loop: one call of the codec, its output copied
\* out as far as there is room, and the decision to go on.
Process ==
  LET bytes == SubSeq(buf.in, Offset + 1, Offset + strm.pending_in)
  IN /\ call.pc = "process"
     /\ \E r \in Codec(bytes) :
          LET s == [strm EXCEPT !.pending_in = @ - r.in, !.pending_out = Len(r.out)]
              b == [buf EXCEPT !.out = r.out, !.in_offset = Offset + r.in, !.flush_more = FALSE]
              t == Drained(s)
              a == Taken(app, b, s)
              c == [call EXCEPT !.consumed = call.copied_input, !.produced = @ + CopyOut(s),
                                !.inbuf_offset = IF s.pending_in = 0 THEN 0 ELSE Offset + r.in,
                                !.copy_more = @ \/ s.pending_in = 0]
              bad == r.rc = "FAIL" \/ (r.rc = "BUF_ERROR" /\ r.in = 0)
          IN /\ r.rc = "FAIL" => app.dir = "compress"
             /\ buf' = Advanced(b, s)
             /\ IF bad THEN Done([c EXCEPT !.copied_input = call.copied_input_last], t, a, FALSE)
                ELSE IF (t.pending_in = 0 /\ t.in_sz = 0) \/ t.pending_out > 0
                  THEN Done(c, t, a, TRUE)
                ELSE call' = [c EXCEPT !.pc = "fill"] /\ strm' = t /\ app' = a

(***************************************************************************)
(* Specification.                                                          *)
(***************************************************************************)

Step == Start \/ Refuse \/ RefuseInit \/ Drain \/ DrainDone \/ Fill \/ Process \/ ProcessFail

Next == Call \/ EndStream \/ Step

Spec == Init /\ [][Next]_vars

\* A call runs to its end, and the application keeps calling until it has
\* everything.
FairSpec == Spec /\ WF_vars(Step) /\ WF_vars(Call)

(***************************************************************************)
(* Properties.                                                             *)
(***************************************************************************)

\* b may follow a in the output.
Follows(a, b) ==
  \/ a[2] < a[3] /\ b = <<a[1], a[2] + 1, a[3]>>
  \/ a[2] = a[3] /\ b[1] = a[1] + 1 /\ b[2] = 1

PendingOut == SubSeq(buf.out, buf.out_offset + 1, buf.out_offset + strm.pending_out)

\* Input that waits for more input is at the beginning of the buffer, input
\* that waits for room in the output is where the codec left it.
PendingIn ==
  LET from == IF strm.pending_out > 0 THEN buf.in_offset ELSE 0
  IN SubSeq(buf.in, from + 1, from + strm.pending_in)

\* What the application received, then the output that is pending, then the
\* input that is pending, are between two calls exactly the bytes the calls
\* reported as consumed: in order, none lost, none twice, however the calls
\* cut the stream.
Conveyed ==
  Idle /\ ~app.failed /\ strm.opaque =>
    LET o == app.got \o PendingOut
        n == app.accepted - strm.pending_in
    IN /\ Len(o) > 0 => o[1][1] = 1 /\ o[1][2] = 1 /\ Last(o)[1] = n /\ Last(o)[2] = Last(o)[3]
       /\ Len(o) = 0 => n = 0
       /\ \A k \in 1 .. Len(o) - 1 : Follows(o[k], o[k + 1])
       /\ PendingIn = [k \in 1 .. strm.pending_in |-> n + k]

\* Compressing and decompressing streams get everything through: unless a
\* call fails the application ends up with the whole of its data.
Arrives == []<>(app.failed \/ Complete)
=============================================================================
