---------------------------- MODULE QzDecompress ----------------------------
(***************************************************************************)
(* The synchronous decompression pipeline of QATzip (qzDecompressCrcExt).  *)
(*                                                                         *)
(* The source is a sequence of members (gzip members, lz4 frames, 4B       *)
(* blocks, zlib streams).  doDecompressIn finds the next member by its     *)
(* header (checkHeader), claims a stream buffer, swaps its two data        *)
(* pointers, and offloads it; doDecompressOut polls, checks the footer and *)
(* copies the answers out in sequence order.  They are two threads, or one *)
(* thread that alternates between them in batches of req_cnt_thrshold      *)
(* (single_thread).  Whatever the device cannot do is inflated in          *)
(* software: by doDecompressIn once every earlier member is answered, by   *)
(* doDecompressOut for an answer with an error, or by the caller for the   *)
(* rest of the source.                                                     *)
(*                                                                         *)
(* Lengths: one unit of plain text is one unit of source, so that a source *)
(* position and a destination position can be compared.  Destination       *)
(* memory is modelled unit by unit: dst[i] is the unit found there.        *)
(***************************************************************************)
EXTENDS Integers, Sequences, FiniteSetsExt

CONSTANTS
    NumBuff,         \* stream buffers of the instance (dest_count)
    ReqCntThrshold,  \* sess_params.req_cnt_thrshold
    MaxNumRetry,     \* MAX_NUM_RETRY of the submission loop
    HwBuffSz,        \* sess_params.hw_buff_sz, in units
    CompLimit,       \* what may compress to DEST_SZ(hw_buff_sz), in units
    InputSzThrshold, \* sess_params.input_sz_thrshold, in units
    Sources,         \* bound: the sources, sequences of members (size, kind)
    DestSizes,       \* bound: destination sizes the application passes
    Modes,           \* pairs <<data format, memory lent for zero copy>>
    SwBackups,       \* values of sess_params.sw_backup that are tried
    Stops,           \* values of stop_decompression_stream_end
    Faults,          \* what may go wrong outside the library
    MaxCalls,        \* bound: calls of the application
    MaxEvents        \* bound: fatal-error events of the device

Kinds == {"ok",     \* intact
          "bad",    \* its data does not match its checksum
          "trunc",  \* the source ends inside it
          "nohdr"}  \* there is no header where it should begin
FormatNames == {"ext", "gzip", "4b", "lz4", "zlib", "raw"}
FaultKinds == {"grab", "submit", "retry", "job", "poll", "sw"}

ASSUME DecompressAssumption ==
    /\ NumBuff \in Nat \ {0} /\ ReqCntThrshold \in 1..NumBuff
    /\ MaxNumRetry \in Nat /\ HwBuffSz \in Nat \ {0} /\ CompLimit \in Nat
    /\ InputSzThrshold \in Nat
    /\ Sources \subseteq Seq([sz : Nat \ {0}, kind : Kinds]) \ {<< >>}
    \* only the last member of a source is cut off
    /\ \A m \in Sources : \A i \in 1..(Len(m) - 1) : m[i].kind # "trunc"
    /\ DestSizes \subseteq Nat \ {0}
    /\ Modes \subseteq FormatNames \X SUBSET {"src", "dst"}
    /\ SwBackups \subseteq BOOLEAN /\ Stops \subseteq BOOLEAN
    /\ Faults \subseteq FaultKinds /\ MaxCalls \in Nat /\ MaxEvents \in Nat

Slots == 0..(NumBuff - 1)

VARIABLES
    caller, calls, req, ret,     \* the call in progress and the last result
    sess,                        \* QzSess_T
    cur, ptr, sseq, res,         \* QzCpaStream_T: cursors, pointers, request
    pcIn, jIn, pos, dptr, tmp, num_retries,  \* doDecompressIn
    pcOut, jOut,                 \* doDecompressOut
    hw, heartbeat, events,       \* the device
    dst,                         \* the destination of the call
    erred                        \* history: an error exit reset the buffers

callVars   == <<caller, calls, req, ret>>
streamVars == <<cur, ptr, sseq, res>>
inVars     == <<pcIn, jIn, pos, dptr, tmp, num_retries>>
outVars    == <<pcOut, jOut>>
devVars    == <<hw, heartbeat, events>>
vars == <<callVars, sess, streamVars, inVars, outVars, devVars, dst, erred>>

-----------------------------------------------------------------------------
(* The source.                                                             *)

\* (Operators named ...Without... are faulty variants of the operator that
\* follows them; no specification uses them.)

\* EndOf(m)[i]: the units of the first i members of m.
EndOf(m) == LET e[i \in 0..Len(m)] == IF i = 0 THEN 0 ELSE e[i-1] + m[i].sz
            IN  e
Total(m) == EndOf(m)[Len(m)]

\* The member that holds the unit after position p.
MemberAt(m, p) ==
    CHOOSE i \in 1..Len(m) : EndOf(m)[i-1] <= p /\ p < EndOf(m)[i]

AtStart(m, p) == \E i \in 1..Len(m) : EndOf(m)[i-1] = p
Rest(m, p)    == EndOf(m)[MemberAt(m, p)] - p
Deflate(fmt)  == fmt # "lz4"

\* Units p+1..p+n of the source, put at place at; a bad member gives garbage.
Put(d, at, p, n, good) ==
    [i \in DOMAIN d |->
        IF at < i /\ i <= at + n THEN IF good THEN p + i - at ELSE -1
        ELSE d[i]]

\* outputHeaderSz, outputFooterSz and a request's sizes: how much of the
\* source the next request takes and how much output it declares.  The size
\* is in the header, or is the rest of the source (zlib, raw); the output is
\* in the header or footer, or as much as a hardware buffer holds.
TakesSz(p) == IF req.fmt \in {"zlib", "raw"} THEN Total(req.mem) - p
              ELSE Rest(req.mem, p)
GivesSz(p, room) ==
    CASE req.fmt \in {"ext", "gzip", "lz4"} -> Rest(req.mem, p)
      [] req.fmt \in {"4b", "zlib"} -> Min({HwBuffSz, room})
      [] req.fmt = "raw" -> req.dest

-----------------------------------------------------------------------------
(* Software decompression.  sess.inflate is inflate_stat (for lz4: whether *)
(* dctx holds an unfinished frame), sess.ipos the place it has reached.    *)

\* The decoder stands at p: a new member begins there, or the one it left
\* goes on there.  After an error the stream is never initialised again.
InStep(p) ==
    \/ sess.inflate = "null" /\ AtStart(req.mem, p)
    \/ sess.inflate = "ok" /\ sess.ipos = p

\* One decoder call from position p with room for so many units: it stops at
\* the end of the member, of the source or of the room.
Decode(p, room, fails) ==
    LET m == req.mem[MemberAt(req.mem, p)]
        rest == Rest(req.mem, p)
    IN  IF ~InStep(p) \/ m.kind \in {"bad", "nohdr"} THEN fails
        ELSE IF room < rest \/ m.kind = "trunc"
        THEN [rc |-> "OK", n |-> Min({room, rest}), inflate |-> "ok"]
        ELSE [rc |-> "OK", n |-> rest, inflate |-> "null"]

\* A failed inflate leaves InflateError behind, a failed LZ4F_decompress frees
\* dctx.
DeflateFails == [rc |-> "DATA_ERROR", n |-> 0, inflate |-> "error"]
LZ4Fails     == [rc |-> "FAIL", n |-> 0, inflate |-> "null"]
DeflateSWDecompress(p, room) == Decode(p, room, DeflateFails)
LZ4SWDecompress(p, room)     == Decode(p, room, LZ4Fails)

\* qzSWDecompress.
SwOne(p, room) == IF Deflate(req.fmt) THEN DeflateSWDecompress(p, room)
                  ELSE LZ4SWDecompress(p, room)

\* Member after member, up to member last, until the source or the room is
\* used up or a member fails.
DecodeUpTo(last, p, room, failed) ==
    LET m     == req.mem
        fails == {i \in MemberAt(m, p)..last : m[i].kind \in {"bad", "nohdr"}}
        end   == EndOf(m)[IF fails = {} THEN last ELSE Min(fails) - 1]
        n     == Min({room, Max({0, end - p})})
        ended == \E i \in 1..Len(m) :
                    EndOf(m)[i] = p + n /\ m[i].kind # "trunc"
    IN  IF room = 0 THEN [rc |-> "OK", n |-> 0, inflate |-> sess.inflate]
        ELSE IF ~InStep(p) THEN failed
        ELSE IF fails # {} /\ room > n THEN [failed EXCEPT !.n = n]
        ELSE [rc |-> "OK", n |-> n, inflate |-> IF ended THEN "null" ELSE "ok"]

\* qzSWDecompressMultiGzip heeds stop_decompression_stream_end.
SwMultiGzip(p, room) ==
    DecodeUpTo(IF req.stop THEN MemberAt(req.mem, p) ELSE Len(req.mem),
               p, room, DeflateFails)
SwMultiLZ4(p, room) == DecodeUpTo(Len(req.mem), p, room, LZ4Fails)

\* qzSWDecompressMulti.
SwMulti(p, room) == IF Deflate(req.fmt) THEN SwMultiGzip(p, room)
                    ELSE SwMultiLZ4(p, room)

\* Either of them may also fail to get memory.
SwResults(r) ==
    {r} \cup IF "sw" \in Faults
             THEN {[rc |-> "FAIL", n |-> 0, inflate |-> sess.inflate]} ELSE {}

SwSessWithoutReset(s, p, r) ==
    [s EXCEPT !.inflate = r.inflate, !.ipos = p + r.n,
              !.force_sw = @ \/ Deflate(req.fmt),
              !.eos = @ \/ (r.rc = "OK" /\ r.inflate = "null")]

\* What a software call at position p leaves in the session.
SwSess(s, p, r) ==
    [s EXCEPT !.inflate = r.inflate, !.ipos = p + r.n,
              !.force_sw = @ \/ Deflate(req.fmt),
              !.eos = Deflate(req.fmt) /\ r.rc = "OK" /\ r.inflate = "null"]

-----------------------------------------------------------------------------
(* Stream buffers: cursors and pointers.                                   *)

Unused(c) == c.src1 = c.src2 /\ c.src1 = c.sink1 /\ c.src1 = c.sink2
InFlight(c) == c.src1 = c.src2 /\ c.sink1 = c.sink2 /\ c.src2 = c.sink1 + 1
Answered(c) == c.src1 = c.src2 /\ c.sink1 = c.src1 /\ c.sink1 = c.sink2 + 1

\* getUnusedBuffer searches upwards from j, then from 0.
FirstUnused(k, j) ==
    /\ Unused(cur[k])
    /\ \A m \in Slots : Unused(cur[m]) => \/ m >= k /\ (k >= j \/ m < j)
                                          \/ k >= j /\ m < j

\* The pointers of a buffer at rest: src and dst are what pBuffers->pData of
\* src_buffers and dest_buffers point to, osrc and odst are orig_src and
\* orig_dest, sreset and dreset the need_reset flags.
AtRest == [src |-> "S", dst |-> "D", osrc |-> "S", odst |-> "D",
           sreset |-> FALSE, dreset |-> FALSE]

SwapDataBuffer(b) == [b EXCEPT !.src = b.dst, !.dst = b.src,
                               !.osrc = b.odst, !.odst = b.osrc]
RestoreSrc(b)  == IF b.sreset THEN [b EXCEPT !.src = b.osrc, !.sreset = FALSE]
                  ELSE b
RestoreDest(b) == IF b.dreset THEN [b EXCEPT !.dst = b.odst, !.dreset = FALSE]
                  ELSE b

\* decompBufferSetup: swap, then lend pinned memory of the application.
Lend(b) == LET s == SwapDataBuffer(b)
           IN  [s EXCEPT !.src = IF "src" \in req.pin THEN "user" ELSE @,
                         !.sreset = "src" \in req.pin,
                         !.dst = IF "dst" \in req.pin THEN "user" ELSE @,
                         !.dreset = "dst" \in req.pin]

CleanWithoutSwap(b) == RestoreSrc(RestoreDest(b))

\* decompInBufferCleanUp, decompOutSkipErrorRespond, and the whole of what
\* decompOutValidDestBufferCleanUp and decompOutProcessedRespond undo.
Clean(b) == SwapDataBuffer(RestoreSrc(RestoreDest(b)))

-----------------------------------------------------------------------------
(* The caller: qzDecompressCrcExt.                                         *)

\* The application calls: a new source, or the rest of the last one after a
\* call that made progress.  A format without a checksum has no bad member.
Requests ==
    {r \in [mem : Sources, off : {0}, dest : DestSizes, mode : Modes,
            sw_backup : SwBackups, stop : Stops] :
       r.mode[1] \in {"4b", "raw"} =>
           \A i \in 1..Len(r.mem) : r.mem[i].kind # "bad"}

Call(r) ==
    /\ caller = "idle" /\ calls < MaxCalls
    /\ caller' = "enter" /\ calls' = calls + 1
    /\ req' = [mem |-> r.mem, off |-> r.off, dest |-> r.dest,
               fmt |-> r.mode[1], pin |-> r.mode[2],
               sw_backup |-> r.sw_backup, stop |-> r.stop]
    /\ dst' = [i \in 1..(r.dest + HwBuffSz) |-> 0]
    /\ UNCHANGED <<ret, sess, streamVars, inVars, outVars, devVars, erred>>

CallNew == calls = 0 /\ \E r \in Requests : Call(r)

CallOn ==
    /\ calls > 0 /\ ret.rc \in {"OK", "BUF_ERROR"} /\ ret.src_len > 0
    /\ req.off + ret.src_len < Total(req.mem)
    /\ \E d \in DestSizes :
          Call([mem |-> req.mem, off |-> req.off + ret.src_len, dest |-> d,
                mode |-> <<req.fmt, req.pin>>, sw_backup |-> req.sw_backup,
                stop |-> req.stop])

\* isQATProcessable and the thresholds: what the device may be given.  A
\* first header that is no gzip header at all passes (-1), see checkHeader.
Processable ==
    LET m == req.mem[MemberAt(req.mem, req.off)]
    IN  CASE req.fmt = "ext"  -> m.sz >= InputSzThrshold
          [] req.fmt = "gzip" -> m.kind = "nohdr" \/ m.sz <= HwBuffSz
          [] req.fmt = "lz4"  -> m.kind \in {"ok", "bad"}
          [] req.fmt = "zlib" -> m.kind # "nohdr"
          [] req.fmt = "raw"  -> Total(req.mem) - req.off >= InputSzThrshold
          [] req.fmt = "4b"   -> TRUE

\* inflate_stat = InflateOK: an unfinished member is finished in software.
MustGoSW == ~Processable \/ (Deflate(req.fmt) /\ sess.inflate = "ok")

NoInstance == heartbeat # "ok" \/ "grab" \in Faults

\* resetQzsess, and the threads start.  The compressed length that decides on
\* single_thread (reqcnt) is not modelled: both are possible.
EnterHW ==
    /\ caller = "enter" /\ ~MustGoSW /\ heartbeat = "ok"
    /\ \E single \in BOOLEAN :
        sess' = [sess EXCEPT !.seq = 0, !.seq_in = 0, !.last_submitted = FALSE,
                   !.last_processed = FALSE, !.stop_submitting = FALSE,
                   !.stat = "OK", !.force_sw = FALSE, !.in_len = 0,
                   !.out_len = 0, !.eos = FALSE, !.single_thread = single]
    /\ caller' = "run"
    /\ pcIn' = "start" /\ pcOut' = "start"
    /\ UNCHANGED <<calls, req, ret, streamVars, jIn, pos, dptr, tmp,
                   num_retries, jOut, devVars, dst, erred>>

\* The whole call in software.
EnterSW ==
    /\ caller = "enter" /\ req.sw_backup /\ (MustGoSW \/ NoInstance)
    /\ \E r \in SwResults(SwMulti(req.off, req.dest)) :
        /\ sess' = SwSess(sess, req.off, r)
        /\ dst' = Put(dst, 0, req.off, r.n, TRUE)
        /\ ret' = [rc |-> r.rc, src_len |-> r.n, dest_len |-> r.n]
    /\ caller' = "idle"
    /\ UNCHANGED <<calls, req, streamVars, inVars, outVars, devVars, erred>>

\* No software backup: QZ_FAIL, or QZ_NOSW_NO_INST_ATTACH without an instance.
EnterRefused ==
    /\ caller = "enter" /\ ~req.sw_backup /\ (MustGoSW \/ NoInstance)
    /\ ret' = [rc |-> IF MustGoSW THEN "FAIL" ELSE "NO_INST",
               src_len |-> 0, dest_len |-> 0]
    /\ sess' = [sess EXCEPT !.eos = FALSE]
    /\ caller' = "idle"
    /\ UNCHANGED <<calls, req, streamVars, inVars, outVars, devVars, dst,
                   erred>>

\* doQzDecompressSingleThread: In and Out again until last_processed.
NextBatch ==
    /\ caller = "run" /\ sess.single_thread
    /\ pcIn = "done" /\ pcOut = "done" /\ ~sess.last_processed
    /\ pcIn' = "start" /\ pcOut' = "start"
    /\ UNCHANGED <<callVars, sess, streamVars, jIn, pos, dptr, tmp,
                   num_retries, jOut, devVars, dst, erred>>

Joined == /\ caller = "run" /\ pcIn = "done" /\ pcOut = "done"
          /\ sess.single_thread => sess.last_processed

Return(rc, in, out) ==
    /\ caller' = "idle"
    /\ ret' = [rc |-> rc, src_len |-> in, dest_len |-> out]
    /\ UNCHANGED <<calls, req, streamVars, inVars, outVars, devVars, erred>>

FinishMismatch ==
    /\ Joined /\ sess.seq # sess.seq_in
    /\ Return(sess.stat, 0, 0)
    /\ UNCHANGED <<sess, dst>>

NeedsSW == /\ sess.stat \notin {"OK", "BUF_ERROR", "DATA_ERROR"}
           /\ req.sw_backup

FinishSWWithoutOffset ==
    /\ Joined /\ sess.seq = sess.seq_in /\ NeedsSW
    /\ \E r \in SwResults(SwMulti(req.off, req.dest - sess.out_len)) :
        /\ sess' = [SwSess(sess, req.off, r) EXCEPT
                      !.in_len = @ + r.n, !.out_len = @ + r.n, !.stat = r.rc]
        /\ dst' = Put(dst, sess.out_len, req.off, r.n, TRUE)
    /\ Return(sess'.stat, sess'.in_len, sess'.out_len)

\* The API-level fallback: everything after qz_in_len in software.
FinishSW ==
    /\ Joined /\ sess.seq = sess.seq_in /\ NeedsSW
    /\ LET p == req.off + sess.in_len
       IN  IF p = Total(req.mem)
           THEN sess' = [sess EXCEPT !.stat = "OK"] /\ UNCHANGED dst
           ELSE \E r \in SwResults(SwMulti(p, req.dest - sess.out_len)) :
                 /\ dst' = Put(dst, sess.out_len, p, r.n, TRUE)
                 /\ sess' = IF r.rc # "OK" THEN SwSess(sess, p, r)
                            ELSE [SwSess(sess, p, r) EXCEPT
                                    !.in_len = @ + r.n, !.out_len = @ + r.n,
                                    !.stat = "OK"]
    /\ Return(sess'.stat, sess'.in_len, sess'.out_len)

Finish ==
    /\ Joined /\ sess.seq = sess.seq_in /\ ~NeedsSW
    /\ Return(sess.stat, sess.in_len, sess.out_len)
    /\ UNCHANGED <<sess, dst>>

-----------------------------------------------------------------------------
(* doDecompressIn.                                                         *)

\* It begins where the session is: src + qz_in_len and next_dest.
InStart ==
    /\ pcIn = "start"
    /\ pos' = req.off + sess.in_len
    /\ dptr' = sess.out_len
    /\ jIn' = 0
    /\ pcIn' = "check"
    /\ UNCHANGED <<callVars, sess, streamVars, tmp, num_retries, outVars,
                   devVars, dst, erred>>

CheckHeaderWithoutRoom(p, room) ==
    IF p >= Total(req.mem) \/ room <= 0 THEN "BUF_ERROR"
    ELSE IF sess.force_sw \/ GivesSz(p, room) > HwBuffSz THEN "FORCE_SW"
    ELSE "OK"

\* checkHeader: QZ_OK, QZ_FORCE_SW, or why the call stops here.
CheckHeader(p, room) ==
    IF p >= Total(req.mem) \/ room <= 0 THEN "BUF_ERROR"
    ELSE LET m == req.mem[MemberAt(req.mem, p)]
             over == TakesSz(p) > CompLimit \/ GivesSz(p, room) > HwBuffSz
         IN  CASE sess.force_sw -> "FORCE_SW"
               [] ~sess.force_sw /\ req.fmt \in {"ext", "lz4"}
                    /\ (m.kind = "nohdr" \/ ~AtStart(req.mem, p)) -> "FAIL"
               [] OTHER ->
                    IF m.kind = "trunc" /\ req.fmt = "lz4" THEN "DATA_ERROR"
                    ELSE IF over
                    THEN IF req.sw_backup THEN "FORCE_SW" ELSE "FAIL"
                    ELSE IF m.kind = "trunc" /\ req.fmt \in {"ext", "4b"}
                    THEN "DATA_ERROR"
                    ELSE IF GivesSz(p, room) > room THEN "BUF_ERROR" ELSE "OK"

\* force_sw is remembered, but for a last standard gzip member.
Remembers(p) == ~(req.fmt = "gzip" /\ p + TakesSz(p) = Total(req.mem))

\* The head of the loop.
InCheck ==
    /\ pcIn = "check"
    /\ LET rc == CheckHeader(pos, req.dest - dptr)
       IN  CASE rc = "OK" ->
                  /\ pcIn' = IF heartbeat = "ok" THEN "get" ELSE "sw"
                  /\ UNCHANGED sess
             [] rc = "FORCE_SW" ->
                  /\ pcIn' = "sw"
                  /\ sess' = [sess EXCEPT !.force_sw = @ \/ Remembers(pos)]
             [] OTHER ->
                  /\ pcIn' = "err"
                  /\ sess' = [sess EXCEPT !.stat = rc]
    /\ UNCHANGED <<callVars, streamVars, jIn, pos, dptr, tmp, num_retries,
                   outVars, devVars, dst, erred>>

\* A single thread leaves its answers for itself to take: it returns when no
\* buffer is free and after each batch of req_cnt_thrshold requests.
BatchEnds == /\ sess.single_thread
             /\ \/ \A k \in Slots : ~Unused(cur[k])
                \/ /\ sess.seq % ReqCntThrshold = 0
                   /\ sess.seq > sess.seq_in

InBatchEnd ==
    /\ pcIn = "get" /\ BatchEnds
    /\ pcIn' = "done"
    /\ UNCHANGED <<callVars, sess, streamVars, jIn, pos, dptr, tmp,
                   num_retries, outVars, devVars, dst, erred>>

\* A free buffer: src1++ claims it and decompBufferSetup fills it.  The
\* request holds the member at pos and is written to dptr if it is lent.
InGetBuffer ==
    /\ pcIn = "get" /\ ~BatchEnds
    /\ \E k \in Slots :
        /\ FirstUnused(k, jIn)
        /\ jIn' = k
        /\ cur' = [cur EXCEPT ![k].src1 = @ + 1]
        /\ ptr' = [ptr EXCEPT ![k] = Lend(@)]
        /\ sseq' = [sseq EXCEPT ![k] = sess.seq]
    /\ tmp' = [src |-> TakesSz(pos), dst |-> GivesSz(pos, req.dest - dptr)]
    /\ pcIn' = "use"
    /\ UNCHANGED <<callVars, sess, res, pos, dptr, num_retries, outVars,
                   devVars, dst, erred>>

\* None is free: the next search is from 0, after a sleep.
InNoBuffer ==
    /\ pcIn = "get" /\ ~BatchEnds /\ jIn # 0
    /\ \A k \in Slots : ~Unused(cur[k])
    /\ jIn' = 0
    /\ UNCHANGED <<callVars, sess, streamVars, pcIn, pos, dptr, tmp,
                   num_retries, outVars, devVars, dst, erred>>

InUse ==
    /\ pcIn = "use"
    /\ cur' = [cur EXCEPT ![jIn].src2 = @ + 1]
    /\ pcIn' = "submit"
    /\ UNCHANGED <<callVars, sess, ptr, sseq, res, jIn, pos, dptr, tmp,
                   num_retries, outVars, devVars, dst, erred>>

\* What the device is given: the data of the member at pos (kind, sz), the
\* length of the source and of the room, and the place of a lent destination.
Job(k) ==
    LET m == req.mem[MemberAt(req.mem, pos)]
    IN  [slot |-> k, call |-> calls, st |-> "pending", pos |-> pos, sz |-> m.sz,
         kind |-> IF AtStart(req.mem, pos) THEN m.kind ELSE "nohdr",
         at |-> dptr, src |-> tmp.src, room |-> tmp.dst, n |-> 0,
         lent |-> "dst" \in req.pin]

\* cpaDcDecompressData accepts the request, refuses it for now, or fails.
InSubmit ==
    /\ pcIn = "submit"
    /\ \/ /\ hw' = hw \cup {Job(jIn)}
          /\ num_retries' = 0
          /\ pcIn' = "adv"
       \/ /\ "retry" \in Faults
          /\ IF num_retries + 1 > MaxNumRetry
             THEN num_retries' = 0 /\ pcIn' = "cleanup"
             ELSE num_retries' = num_retries + 1 /\ UNCHANGED pcIn
          /\ UNCHANGED hw
       \/ /\ "submit" \in Faults
          /\ num_retries' = 0
          /\ pcIn' = "cleanup"
          /\ UNCHANGED hw
    /\ UNCHANGED <<callVars, sess, streamVars, jIn, pos, dptr, tmp, outVars,
                   heartbeat, events, dst, erred>>

\* decompInBufferCleanUp takes the claim and the pointers back.
InCleanUp ==
    /\ pcIn = "cleanup"
    /\ cur' = [cur EXCEPT ![jIn].src1 = @ - 1, ![jIn].src2 = @ - 1]
    /\ ptr' = [ptr EXCEPT ![jIn] = Clean(@)]
    /\ pcIn' = "sw"
    /\ UNCHANGED <<callVars, sess, sseq, res, jIn, pos, dptr, tmp,
                   num_retries, outVars, devVars, dst, erred>>

\* decompInSWFallback: not without software, not for a single thread (the
\* caller will), not when the call is being stopped.
InSWFallback ==
    /\ pcIn = "sw"
    /\ IF ~req.sw_backup \/ sess.single_thread
       THEN pcIn' = "err" /\ sess' = [sess EXCEPT !.stat = "FAIL"]
       ELSE /\ pcIn' = IF sess.stop_submitting THEN "err" ELSE "swseq"
            /\ UNCHANGED sess
    /\ UNCHANGED <<callVars, streamVars, jIn, pos, dptr, tmp, num_retries,
                   outVars, devVars, dst, erred>>

\* QZ_WAIT_SW_PENDING while earlier members are unanswered.
InSWPending ==
    /\ pcIn = "swseq"
    /\ pcIn' = IF sess.seq # sess.seq_in THEN "check" ELSE "swdec"
    /\ UNCHANGED <<callVars, sess, streamVars, jIn, pos, dptr, tmp,
                   num_retries, outVars, devVars, dst, erred>>

\* One member in software, with all that is left of the source and of the
\* destination; the answer is counted.
InSWDecompress ==
    /\ pcIn = "swdec"
    /\ \E r \in SwResults(SwOne(pos, req.dest - dptr)) :
        /\ dst' = Put(dst, dptr, pos, r.n, TRUE)
        /\ tmp' = [src |-> r.n, dst |-> r.n]
        /\ IF r.rc = "OK"
           THEN /\ sess' = [SwSess(sess, pos, r) EXCEPT
                              !.seq_in = @ + 1,
                              !.in_len = @ + r.n, !.out_len = @ + r.n]
                /\ pcIn' = "adv"
           ELSE /\ sess' = [SwSess(sess, pos, r) EXCEPT !.stat = "FAIL"]
                /\ pcIn' = "err"
    /\ UNCHANGED <<callVars, streamVars, jIn, pos, dptr, num_retries, outVars,
                   devVars, erred>>

InAdvanceWithoutRest ==
    /\ pcIn = "adv"
    /\ pos' = pos + tmp.src /\ dptr' = dptr + tmp.dst
    /\ sess' = [sess EXCEPT !.seq = @ + 1, !.last_submitted = TRUE]
    /\ pcIn' = "done"
    /\ UNCHANGED <<callVars, streamVars, jIn, tmp, num_retries, outVars,
                   devVars, dst, erred>>

\* The tail of the loop.
InAdvance ==
    /\ pcIn = "adv"
    /\ pos' = pos + tmp.src /\ dptr' = dptr + tmp.dst
    /\ LET last == \/ pos' = Total(req.mem) \/ req.stop
                   \/ sess.stop_submitting
       IN  /\ sess' = [sess EXCEPT !.seq = @ + 1, !.last_submitted = @ \/ last]
           /\ pcIn' = IF last THEN "done" ELSE "check"
    /\ UNCHANGED <<callVars, streamVars, jIn, tmp, num_retries, outVars,
                   devVars, dst, erred>>

InErrExitWithoutLast ==
    /\ pcIn = "err"
    /\ sess' = [sess EXCEPT !.stop_submitting = TRUE]
    /\ pcIn' = "done"
    /\ UNCHANGED <<callVars, streamVars, jIn, pos, dptr, tmp, num_retries,
                   outVars, devVars, dst, erred>>

InErrExit ==
    /\ pcIn = "err"
    /\ sess' = [sess EXCEPT !.stop_submitting = TRUE, !.last_submitted = TRUE]
    /\ pcIn' = "done"
    /\ UNCHANGED <<callVars, streamVars, jIn, pos, dptr, tmp, num_retries,
                   outVars, devVars, dst, erred>>

InNext == \/ InStart \/ InCheck \/ InBatchEnd \/ InGetBuffer \/ InNoBuffer
          \/ InUse \/ InSubmit \/ InCleanUp \/ InSWFallback \/ InSWPending
          \/ InSWDecompress \/ InAdvance \/ InErrExit

-----------------------------------------------------------------------------
(* doDecompressOut.  (Its dest_avail_len only bounds the copy of an answer, *)
(* which checkHeader has already found to fit.)                            *)

\* In single_thread mode it runs after doDecompressIn has returned.
OutStart ==
    /\ pcOut = "start"
    /\ sess.single_thread => pcIn = "done"
    /\ pcOut' = "poll"
    /\ UNCHANGED <<callVars, sess, streamVars, inVars, jOut, devVars, dst,
                   erred>>

\* dcCallback, run by icp_sal_DcPollInstance for every answer that is there.
OutCallback ==
    /\ pcOut = "poll"
    /\ \E r \in hw :
        /\ r.st # "pending"
        /\ hw' = hw \ {r}
        /\ res' = [res EXCEPT ![r.slot] = r]
        /\ cur' = IF InFlight(cur[r.slot])
                  THEN [cur EXCEPT ![r.slot].sink1 = @ + 1] ELSE cur
    /\ UNCHANGED <<callVars, sess, ptr, sseq, inVars, outVars, heartbeat,
                   events, dst, erred>>

OutPolled ==
    /\ pcOut = "poll" /\ \A r \in hw : r.st = "pending"
    /\ jOut' = 0
    /\ pcOut' = "scan"
    /\ UNCHANGED <<callVars, sess, streamVars, inVars, devVars, dst, erred>>

OutPollFail ==
    /\ pcOut = "poll" /\ "poll" \in Faults
    /\ pcOut' = "err"
    /\ UNCHANGED <<callVars, sess, streamVars, inVars, jOut, devVars, dst,
                   erred>>

Ready(k) == sseq[k] = sess.seq_in /\ Answered(cur[k])

\* The retrieve loop: the next buffer that holds the answer to seq_in.
OutScan ==
    /\ pcOut = "scan"
    /\ \/ /\ \A k \in Slots : k >= jOut => ~Ready(k)
          /\ pcOut' = "test"
          /\ UNCHANGED jOut
       \/ \E k \in Slots :
             /\ k >= jOut /\ Ready(k)
             /\ \A m \in Slots : m >= jOut /\ Ready(m) => k <= m
             /\ pcOut' = IF sess.stat = "DATA_ERROR" THEN "skip"
                         ELSE IF res[k].st = "err" THEN "sw" ELSE "copy"
             /\ jOut' = k
    /\ UNCHANGED <<callVars, sess, streamVars, inVars, devVars, dst, erred>>

\* decompOutProcessedRespond, after the destination has been restored.
Respond(s) ==
    /\ ptr' = [ptr EXCEPT ![jOut] = Clean(@)]
    /\ cur' = [cur EXCEPT ![jOut].sink2 = @ + 1]
    /\ sess' = [s EXCEPT !.seq_in = @ + 1]
    /\ UNCHANGED <<sseq, res>>

\* After QZ_DATA_ERROR every further answer is dropped.
OutSkip ==
    /\ pcOut = "skip"
    /\ Respond(sess)
    /\ jOut' = jOut + 1
    /\ pcOut' = "scan"
    /\ UNCHANGED <<callVars, inVars, devVars, dst, erred>>

\* decompOutSWFallback repeats the request in software, from src + qz_in_len
\* straight to next_dest; when that fails the buffer is swapped back.
OutSW ==
    /\ pcOut = "sw"
    /\ LET p == req.off + sess.in_len
       IN  \/ /\ req.sw_backup
              /\ \E r \in SwResults(SwOne(p, res[jOut].room)) :
                  /\ dst' = Put(dst, sess.out_len, p, r.n, TRUE)
                  /\ IF r.rc = "OK"
                     THEN /\ Respond([SwSess(sess, p, r) EXCEPT
                                        !.in_len = @ + r.n,
                                        !.out_len = @ + r.n])
                          /\ pcOut' = "test"
                     ELSE /\ ptr' = [ptr EXCEPT ![jOut] = SwapDataBuffer(@)]
                          /\ sess' = SwSess(sess, p, r)
                          /\ pcOut' = "err"
                          /\ UNCHANGED <<cur, sseq, res>>
           \/ /\ ~req.sw_backup
              /\ ptr' = [ptr EXCEPT ![jOut] = SwapDataBuffer(@)]
              /\ pcOut' = "err"
              /\ UNCHANGED <<sess, cur, sseq, res, dst>>
    /\ UNCHANGED <<callVars, inVars, jOut, devVars, erred>>

\* The footer says what the device should have found.
Matches(r) == r.st = "ok" \/ req.fmt \in {"4b", "raw"}

\* decompOutCheckSum of a zlib answer: the device stops at the end of the
\* stream, and a single thread goes on with what is left.
ZlibGoesOn(s, r) ==
    IF req.fmt # "zlib" THEN s
    ELSE IF r.n = r.src THEN [s EXCEPT !.last_submitted = TRUE]
    ELSE IF s.single_thread /\ ~req.stop
    THEN [s EXCEPT !.last_submitted = FALSE] ELSE s

\* decompOutValidDestBufferCleanUp copies the answer, unless it was lent;
\* then its footer is checked.
OutCopy ==
    /\ pcOut = "copy"
    /\ LET r == res[jOut]
           s == ZlibGoesOn(sess, r)
       IN  /\ dst' = IF r.lent THEN dst
                     ELSE Put(dst, sess.out_len, r.pos, r.n, r.st = "ok")
           /\ IF Matches(r)
              THEN /\ Respond([s EXCEPT !.in_len = @ + r.n,
                                        !.out_len = @ + r.n, !.eos = TRUE])
                   /\ pcOut' = "test"
                   /\ UNCHANGED jOut
              ELSE /\ Respond(s)
                   /\ pcOut' = "stop"
                   /\ UNCHANGED jOut
    /\ UNCHANGED <<callVars, inVars, devVars, erred>>

\* Only after seq_in has moved on is the other thread told to stop.
OutStop ==
    /\ pcOut = "stop"
    /\ sess' = [sess EXCEPT !.stop_submitting = TRUE, !.stat = "DATA_ERROR"]
    /\ jOut' = jOut + 1
    /\ pcOut' = "scan"
    /\ UNCHANGED <<callVars, streamVars, inVars, devVars, dst, erred>>

\* The end of the loop: all answered and, with two threads, all submitted.
OutTest ==
    /\ pcOut = "test"
    /\ IF /\ sess.seq = sess.seq_in
          /\ sess.single_thread \/ sess.last_submitted
       THEN /\ pcOut' = "done"
            /\ sess' = [sess EXCEPT !.last_processed = sess.last_submitted]
       ELSE pcOut' = "poll" /\ UNCHANGED sess
    /\ UNCHANGED <<callVars, streamVars, inVars, jOut, devVars, dst, erred>>

OutErrExit ==
    /\ pcOut = "err"
    /\ sess' = [sess EXCEPT !.stop_submitting = TRUE, !.last_processed = TRUE,
                            !.stat = "FAIL"]
    /\ erred' = TRUE
    /\ jOut' = 0
    /\ pcOut' = "reset"
    /\ UNCHANGED <<callVars, streamVars, inVars, devVars, dst>>

\* One buffer after the other is reset, whatever the device and the other
\* thread are doing with it; none is swapped back.
OutReset ==
    /\ pcOut = "reset"
    /\ ptr' = [ptr EXCEPT ![jOut] = RestoreDest(RestoreSrc(@))]
    /\ cur' = [cur EXCEPT ![jOut] = [src1 |-> 0, src2 |-> 0,
                                     sink1 |-> 0, sink2 |-> 0]]
    /\ IF jOut + 1 \in Slots
       THEN jOut' = jOut + 1 /\ UNCHANGED pcOut
       ELSE pcOut' = "done" /\ UNCHANGED jOut
    /\ UNCHANGED <<callVars, sess, sseq, res, inVars, devVars, dst, erred>>

OutNext == \/ OutStart \/ OutCallback \/ OutPolled \/ OutPollFail \/ OutScan
           \/ OutSkip \/ OutSW \/ OutCopy \/ OutStop \/ OutTest \/ OutErrExit
           \/ OutReset

-----------------------------------------------------------------------------
(* The device and its event thread.                                        *)

\* The device answers a request, in any order.  It stops at the end of a
\* member; what does not fit, what it cannot decode and everything while it
\* is down is answered with an error.  Lent memory it writes itself.
HwComplete ==
    /\ \E r \in hw :
        /\ r.st = "pending"
        /\ \/ /\ r.kind \in {"ok", "bad"} /\ r.sz <= r.room
              /\ hw' = (hw \ {r}) \cup
                     {[r EXCEPT !.n = r.sz,
                                !.st = IF r.kind = "ok" THEN "ok" ELSE "crc"]}
              /\ dst' = IF r.lent
                        THEN Put(dst, r.at, r.pos, r.sz, r.kind = "ok")
                        ELSE dst
           \/ /\ \/ "job" \in Faults \/ heartbeat # "ok"
                 \/ r.kind # "ok" \/ r.sz > r.room
              /\ hw' = (hw \ {r}) \cup {[r EXCEPT !.st = "err"]}
              /\ UNCHANGED dst
    /\ UNCHANGED <<callVars, sess, streamVars, inVars, outVars, heartbeat,
                   events, erred>>

\* dcEventCallback.
FatalError ==
    /\ heartbeat = "ok" /\ events < MaxEvents
    /\ heartbeat' = "down" /\ events' = events + 1
    /\ UNCHANGED <<callVars, sess, streamVars, inVars, outVars, hw, dst, erred>>

Restarted ==
    /\ heartbeat = "down" /\ heartbeat' = "ok"
    /\ UNCHANGED <<callVars, sess, streamVars, inVars, outVars, hw, events, dst,
                   erred>>

-----------------------------------------------------------------------------
\* The application may make no further call.
Idle == caller = "idle" /\ calls > 0 /\ UNCHANGED vars

Init ==
    /\ caller = "idle" /\ calls = 0
    /\ req = [mem |-> <<>>, off |-> 0, dest |-> 0, fmt |-> "ext", pin |-> {},
              sw_backup |-> FALSE, stop |-> FALSE]
    /\ ret = [rc |-> "OK", src_len |-> 0, dest_len |-> 0]
    /\ sess = [seq |-> 0, seq_in |-> 0, last_submitted |-> FALSE,
               last_processed |-> FALSE, stop_submitting |-> FALSE,
               stat |-> "OK", force_sw |-> FALSE, in_len |-> 0, out_len |-> 0,
               single_thread |-> FALSE, inflate |-> "null", ipos |-> 0,
               eos |-> FALSE]
    /\ cur = [k \in Slots |-> [src1 |-> 0, src2 |-> 0, sink1 |-> 0, sink2 |-> 0]]
    /\ ptr = [k \in Slots |-> AtRest]
    /\ sseq = [k \in Slots |-> 0]
    /\ res = [k \in Slots |-> [slot |-> 0, call |-> 0, st |-> "ok", pos |-> 0,
                               sz |-> 0, kind |-> "ok", at |-> 0, src |-> 0,
                               room |-> 0, n |-> 0, lent |-> FALSE]]
    /\ pcIn = "done" /\ jIn = 0 /\ pos = 0 /\ dptr = 0
    /\ tmp = [src |-> 0, dst |-> 0] /\ num_retries = 0
    /\ pcOut = "done" /\ jOut = 0
    /\ hw = {} /\ heartbeat = "ok" /\ events = 0
    /\ dst = <<>> /\ erred = FALSE

CallerNext == EnterHW \/ EnterSW \/ EnterRefused \/ NextBatch
              \/ FinishMismatch \/ FinishSW \/ Finish

Next == \/ CallNew \/ CallOn \/ CallerNext
        \/ InNext \/ OutNext \/ HwComplete \/ FatalError \/ Restarted \/ Idle

Spec == Init /\ [][Next]_vars

\* Both threads are scheduled, the device answers every request it took, and
\* the caller goes on once they have returned.
FairSpec == /\ Spec
            /\ WF_vars(InNext) /\ WF_vars(OutNext) /\ WF_vars(HwComplete)
            /\ WF_vars(CallerNext)

-----------------------------------------------------------------------------
(* Properties.                                                             *)

Intact == \A i \in 1..Len(req.mem) : req.mem[i].kind # "bad"

\* What a call reports as decompressed is there: the first dest_len units of
\* the destination are the next src_len units of the plain text, in order,
\* none missing and none garbage, whoever decompressed them.  (For a corrupt
\* source only of a single thread: with two, doDecompressIn's software fallback
\* may run between the counting of a failed answer and the stop that follows it,
\* qatzip_utils.c 1526-1527.)
ReportsTruth ==
    caller = "idle" /\ calls > 0 /\ (Intact \/ sess.single_thread) =>
        /\ ret.src_len = ret.dest_len
        /\ \A i \in 1..ret.dest_len : dst[i] = req.off + i

\* No call writes past the destination the application passed.
FitsDestination == \A i \in DOMAIN dst : i > req.dest => dst[i] = 0

\* When the instance is released every stream buffer is free and has its own
\* pointers back, the right way round (swapDataBuffer is undone on each path).
BuffersRestored ==
    caller # "run" /\ ~erred =>
        \A k \in Slots : Unused(cur[k]) /\ ptr[k] = AtRest

\* A call that reports QZ_OK stopped for a reason the application can see:
\* the source or the destination is used up, or it asked to stop at the end
\* of a stream.  A call never stops silently between two members.  (Zlib and
\* raw deflate go as a single job: the boundaries of their streams cannot be
\* told, and what follows the first stream is left to the next call.)
OkIsComplete ==
    caller = "idle" /\ calls > 0 /\ ret.rc = "OK" =>
        \/ req.off + ret.src_len = Total(req.mem)
        \/ ret.dest_len = req.dest
        \/ req.stop
        \/ req.fmt \in {"zlib", "raw"}

\* end_of_stream, which qzGetDeflateEndOfStream hands out after the call, is
\* set exactly when the last thing decompressed ended a stream.
EndOfStreamTrue ==
    caller = "idle" /\ calls > 0 /\ ret.rc = "OK" /\ ret.src_len > 0
        /\ Deflate(req.fmt) => (sess.eos <=> sess.inflate # "ok")

\* Every call returns.
CallReturns == caller = "run" ~> caller = "idle"
=============================================================================
