----------------------------- MODULE QzCompress -----------------------------
(***************************************************************************)
(* The synchronous compression pipeline of QATzip (qzCompressCrcExt).      *)
(*                                                                         *)
(* One call cuts its source into chunks of hw_buff_sz bytes.  doCompressIn *)
(* copies chunk after chunk into a free stream buffer of the grabbed       *)
(* instance and offloads it; doCompressOut polls the instance and takes    *)
(* the answers in sequence order.  The two run as two threads when the     *)
(* call has more than req_cnt_thrshold chunks, and one after the other     *)
(* (single_thread) otherwise.  They share the session counters and the     *)
(* four cursors src1, src2, sink1, sink2 of every stream buffer without a  *)
(* lock.  When the device is down or refuses a request, doCompressIn       *)
(* compresses the chunk in software itself, once every earlier chunk has   *)
(* been answered; when an answer carries an error, doCompressOut does.     *)
(* What is left when both have stopped is compressed by the caller.        *)
(*                                                                         *)
(* Lengths: the source is counted in chunks, the destination in abstract   *)
(* units (a chunk compresses to one of Sizes, header and footer included). *)
(* A step is one access to what the threads share, or several when no      *)
(* other thread can tell the difference; the comments say why.             *)
(***************************************************************************)
EXTENDS Integers, Sequences

CONSTANTS
    NumBuff,        \* stream buffers of the instance (dest_count)
    ReqCntThrshold, \* sess_params.req_cnt_thrshold
    MaxNumRetry,    \* MAX_NUM_RETRY of the submission loop
    HdrSz, FtrSz,   \* outputHeaderSz, outputFooterSz of the gzip and lz4 formats
    Sizes,          \* what one chunk may compress to
    ChunkDestSz,    \* DEST_SZ of a chunk: the length of a buffer's own output
    UIntSz,         \* 2^32: unsigned int counts modulo UIntSz
    MaxChunks,      \* bound: chunks of one call
    DestSizes,      \* bound: destination sizes the application passes
    SwBackups,      \* values of sess_params.sw_backup that are tried
    Formats,        \* "raw" (DEFLATE_RAW), "gzip" (also 4B, zlib) or "lz4"
    Lasts,          \* values of the argument last that are tried
    Pins,           \* TRUE: source and destination are pinned (zero copy)
    Faults,         \* what may go wrong outside the library
    MaxCalls,       \* bound: calls of the application
    MaxEvents       \* bound: fatal-error events of the device

FaultKinds ==
    {"grab",    \* no instance can be locked, or its set-up fails
     "submit",  \* cpaDcCompressData2 returns an error
     "retry",   \* cpaDcCompressData2 returns CPA_STATUS_RETRY
     "job",     \* a request is answered with an error status
     "poll",    \* icp_sal_DcPollInstance returns CPA_STATUS_FAIL
     "sw"}      \* the software compressor fails

ASSUME NumBuffAssumption == NumBuff \in Nat \ {0}
\* The #error of qatzip_internal.h: the threshold never exceeds NUM_BUFF.
ASSUME ThrsholdAssumption == ReqCntThrshold \in 1..NumBuff
ASSUME BoundsAssumption ==
    /\ MaxNumRetry \in Nat
    /\ HdrSz \in Nat /\ FtrSz \in Nat
    /\ Sizes \subseteq Nat \ {0} /\ Sizes # {}
    \* DEST_SZ is chosen for the worst expansion, header and footer included.
    /\ ChunkDestSz \in Nat
    /\ \A sz \in Sizes : HdrSz + FtrSz <= sz /\ sz <= ChunkDestSz
    /\ UIntSz \in Nat /\ HdrSz < UIntSz /\ ChunkDestSz < UIntSz
    /\ MaxChunks \in Nat \ {0}
    /\ DestSizes \subseteq 0..(UIntSz - 1)
    /\ SwBackups \subseteq BOOLEAN
    /\ Formats \subseteq {"raw", "gzip", "lz4"}
    /\ Lasts \subseteq BOOLEAN
    /\ Pins \subseteq BOOLEAN
    /\ Faults \subseteq FaultKinds
    /\ MaxCalls \in Nat
    /\ MaxEvents \in Nat

Slots == 0..(NumBuff - 1)

VARIABLES
    \* the call in progress
    caller,     \* "idle" or "run"
    calls,      \* calls begun so far
    req,        \* the arguments of the call
    ret,        \* what the last call returned
    \* QzSess_T
    seq, seq_in, submitted, processed,
    last_submitted, stop_submitting, stat,
    next_dest, qz_in_len, qz_out_len,
    deflate_stat,
    \* QzInstance_T and its QzCpaStream_T array
    heartbeat, src1, src2, sink1, sink2, sseq, lent, res,
    \* doCompressIn
    pcIn, jIn, num_retries,
    \* doCompressOut
    pcOut, jOut, avail, pend,
    \* the device
    hw, events,
    \* history: the pieces written to the destination by this call
    out

callVars   == <<caller, calls, req, ret>>
seqVars    == <<seq, seq_in, submitted, processed>>
flagVars   == <<last_submitted, stop_submitting, stat>>
lenVars    == <<next_dest, qz_in_len, qz_out_len>>
sessVars   == <<seqVars, flagVars, lenVars, deflate_stat>>
cursorVars == <<src1, src2, sink1, sink2>>
streamVars == <<cursorVars, sseq, lent, res>>
inVars     == <<pcIn, jIn, num_retries>>
outVars    == <<pcOut, jOut, avail, pend>>
devVars    == <<hw, events, heartbeat>>
vars == <<callVars, sessVars, streamVars, inVars, outVars, devVars, out>>

-----------------------------------------------------------------------------
(* Stream buffers: src1, src2 count the requests put into a buffer, sink1   *)
(* the answers of the device, sink2 the answers taken out.                 *)

\* (Operators named No... or ...Without... are faulty variants of the operator
\* that follows them; no specification uses them.)
UnusedWithoutSink2(k) == src1[k] = src2[k] /\ src1[k] = sink1[k]

\* getUnusedBuffer: a buffer is free when its four cursors agree.
Unused(k) == src1[k] = src2[k] /\ src1[k] = sink1[k] /\ src1[k] = sink2[k]

\* dcCallback: a request of this buffer is with the device.
InFlight(k) == /\ src1[k] = src2[k]
               /\ sink1[k] = sink2[k]
               /\ src2[k] = sink1[k] + 1

\* The device has answered and nobody has taken the answer.
Answered(k) == /\ src1[k] = src2[k]
               /\ sink1[k] = src1[k]
               /\ sink1[k] = sink2[k] + 1

ReadyWithoutSeq(k) == Answered(k)

\* The retrieve test of doCompressOut: the answer that is next in order.
Ready(k) == sseq[k] = seq_in /\ Answered(k)

\* getUnusedBuffer searches upwards from the previous buffer, then from 0.
FirstUnused(k, from) ==
    /\ Unused(k)
    /\ \A m \in Slots : Unused(m) => \/ m >= k /\ (k >= from \/ m < from)
                                     \/ k >= from /\ m < from

\* A piece of output: chunks chunk..chunk+cnt-1 of call, made by the hardware
\* or by software, its first byte at offset "at", sz long; fin: it closes the
\* compressed stream; open: the session's software stream was open before it.
Piece(c, k, cnt, by, at, sz, fin) ==
    [call |-> c, chunk |-> k, cnt |-> cnt, by |-> by, at |-> at, sz |-> sz,
     fin |-> fin, open |-> deflate_stat = "inited"]

\* compBufferSetup: the flush flag of the request for chunk k.
HwFinal(k) == req.fmt # "raw" \/ (req.last /\ k = req.n - 1)

\* Raw deflate has no header and no footer.
HeaderSz == IF req.fmt = "raw" THEN 0 ELSE HdrSz
FooterSz == IF req.fmt = "raw" THEN 0 ELSE FtrSz

\* The difference of two unsigned ints.
Minus(a, b) == IF a >= b THEN a - b ELSE a - b + UIntSz

\* compBufferSetup: the length of the output the device may produce.  It wraps
\* when the destination is shorter than a header.
DestRoom == IF req.dest > ChunkDestSz THEN Minus(ChunkDestSz, HeaderSz)
            ELSE Minus(req.dest, HeaderSz)

\* What there is behind the pointer the device writes to: a lent destination
\* from the end of the header on, or the buffer's own memory.
DestMem(k) == IF "dest" \in lent[k] THEN req.dest - HeaderSz ELSE ChunkDestSz

\* qzSWCompress: an lz4 frame is always complete, a deflate stream is closed
\* when last is set (Z_FINISH) and stays open otherwise (Z_FULL_FLUSH).
SwFinal(r) == r.fmt = "lz4" \/ r.last

SwStatWithoutEnd(r, ok) == IF r.fmt = "lz4" THEN deflate_stat ELSE "inited"

\* deflate_stat after qzSWCompress: an open stream is kept, an error drops it.
SwStat(r, ok) == IF r.fmt = "lz4" THEN deflate_stat
                 ELSE IF ok /\ ~r.last THEN "inited" ELSE "null"

-----------------------------------------------------------------------------
(* The caller: qzCompressCrcExt.                                           *)

\* The rest of the source, cnt chunks, in one qzSWCompress call with room for
\* cap: what it may produce, and whether that fits.
SwRestSizes(cnt) == {cnt * s : s \in Sizes}

\* An instance whose heartbeat is fine was grabbed and is set up;
\* resetQzsess clears the session and the threads start.
CallHW(r) ==
    /\ heartbeat = "ok"
    /\ caller' = "run"
    /\ req' = r
    /\ seq' = 0 /\ seq_in' = 0 /\ submitted' = 0 /\ processed' = 0
    /\ last_submitted' = FALSE /\ stop_submitting' = FALSE /\ stat' = "OK"
    /\ next_dest' = 0 /\ qz_in_len' = 0 /\ qz_out_len' = 0
    /\ pcIn' = "loop" /\ jIn' = 0
    /\ pcOut' = "start"
    /\ out' = << >>
    /\ UNCHANGED <<ret, deflate_stat, streamVars, num_retries,
                   jOut, avail, pend, devVars>>

\* The whole source in software: it is shorter than input_sz_thrshold, or
\* sw_backup is set and no instance could be grabbed or set up.  A failure
\* reports the chunks deflate has flushed before it.
CallSW(r) ==
    /\ \/ r.n = 1
       \/ r.sw_backup /\ (heartbeat # "ok" \/ "grab" \in Faults)
    /\ req' = r
    /\ \/ \E sz \in SwRestSizes(r.n) :
            /\ sz <= r.dest
            /\ out' = <<Piece(calls', 0, r.n, "sw", 0, sz, SwFinal(r))>>
            /\ deflate_stat' = SwStat(r, TRUE)
            /\ ret' = [rc |-> "OK", src_len |-> r.n, dest_len |-> sz]
       \/ /\ \/ "sw" \in Faults
             \/ \E sz \in SwRestSizes(r.n) : sz > r.dest
          /\ deflate_stat' = SwStat(r, FALSE)
          /\ \E cnt \in IF r.fmt = "lz4" THEN {0} ELSE 0..(r.n - 1) :
               \E sz \in SwRestSizes(cnt) :
                 /\ sz <= r.dest
                 /\ out' = IF cnt = 0 THEN << >>
                           ELSE <<Piece(calls', 0, cnt, "sw", 0, sz, FALSE)>>
                 /\ ret' = [rc |-> "FAIL", src_len |-> cnt, dest_len |-> sz]
    /\ UNCHANGED <<caller, seqVars, flagVars, lenVars, streamVars, inVars,
                   outVars, devVars>>

\* No instance and no software backup: QZ_NOSW_NO_INST_ATTACH.
CallRefused(r) ==
    /\ ~r.sw_backup /\ (heartbeat # "ok" \/ "grab" \in Faults)
    /\ req' = r
    /\ out' = << >>
    /\ ret' = [rc |-> "NO_INST", src_len |-> 0, dest_len |-> 0]
    /\ UNCHANGED <<caller, sessVars, streamVars, inVars, outVars, devVars>>

\* The calls the application makes.
Requests ==
    {[n |-> n, dest |-> d, sw_backup |-> b, fmt |-> f, last |-> l, pin |-> p,
      single_thread |-> n <= ReqCntThrshold] :
        n \in 1..MaxChunks, d \in DestSizes, b \in SwBackups,
        f \in Formats, l \in Lasts, p \in Pins}

Call(r) ==
    /\ caller = "idle" /\ calls < MaxCalls
    /\ calls' = calls + 1
    /\ CallHW(r) \/ CallSW(r) \/ CallRefused(r)

Joined == caller = "run" /\ pcIn = "done" /\ pcOut = "done"

Return(rc, in, dest) ==
    /\ caller' = "idle"
    /\ ret' = [rc |-> rc, src_len |-> in, dest_len |-> dest]
    /\ UNCHANGED <<calls, req, seqVars, last_submitted, stop_submitting,
                   streamVars, inVars, outVars, devVars>>

\* seq # seq_in after the join: the call fails and reports no progress.
FinishMismatch ==
    /\ Joined /\ seq # seq_in
    /\ Return(stat, 0, 0)
    /\ UNCHANGED <<stat, lenVars, deflate_stat, out>>

NeedsSW == stat \notin {"OK", "BUF_ERROR"} /\ req.sw_backup

\* The API-level fallback: everything after qz_in_len in software.  The room
\* is an unsigned difference: it is huge once next_dest is past the end.
FinishSW ==
    /\ Joined /\ seq = seq_in /\ NeedsSW
    /\ LET cnt == req.n - qz_in_len
       IN  \/ \E sz \in SwRestSizes(cnt) :
                /\ next_dest > req.dest \/ sz <= req.dest - next_dest
                /\ out' = Append(out, Piece(calls, qz_in_len, cnt, "sw",
                                            next_dest, sz, SwFinal(req)))
                /\ deflate_stat' = SwStat(req, TRUE)
                /\ qz_in_len' = qz_in_len + cnt
                /\ qz_out_len' = qz_out_len + sz
                /\ next_dest' = next_dest + sz
                /\ stat' = "OK"
           \/ /\ \/ "sw" \in Faults
                 \/ \E sz \in SwRestSizes(cnt) : sz > req.dest - next_dest
              /\ deflate_stat' = SwStat(req, FALSE)
              /\ UNCHANGED <<lenVars, stat, out>>
    /\ Return(stat', qz_in_len', next_dest')

Finish ==
    /\ Joined /\ seq = seq_in /\ ~NeedsSW
    /\ Return(stat, qz_in_len, next_dest)
    /\ UNCHANGED <<stat, lenVars, deflate_stat, out>>

-----------------------------------------------------------------------------
(* doCompressIn.                                                           *)

\* The head of the loop: a device that is down gets no requests.
InLoop ==
    /\ pcIn = "loop"
    /\ pcIn' = IF heartbeat = "ok" THEN "get" ELSE "sw"
    /\ UNCHANGED <<callVars, sessVars, streamVars, jIn, num_retries, outVars,
                   devVars, out>>

\* getUnusedBuffer found one; src1++ claims it.
InGetBuffer ==
    /\ pcIn = "get"
    /\ \E k \in Slots :
          /\ FirstUnused(k, jIn)
          /\ jIn' = k
          /\ src1' = [src1 EXCEPT ![k] = @ + 1]
    /\ pcIn' = "setup"
    /\ UNCHANGED <<callVars, sessVars, src2, sink1, sink2, sseq, lent, res,
                   num_retries, outVars, devVars, out>>

InNoBufferWithoutWait ==
    /\ pcIn = "get"
    /\ \A k \in Slots : ~Unused(k)
    /\ jIn' = -1
    /\ pcIn' = "setup"
    /\ UNCHANGED <<callVars, sessVars, streamVars, num_retries, outVars,
                   devVars, out>>

\* getUnusedBuffer found none and returned -1: the next search is from 0.
InNoBuffer ==
    /\ pcIn = "get" /\ jIn # 0
    /\ \A k \in Slots : ~Unused(k)
    /\ jIn' = 0
    /\ UNCHANGED <<callVars, sessVars, streamVars, pcIn, num_retries, outVars,
                   devVars, out>>

\* compBufferSetup: the buffer carries chunk seq.  Pinned user memory is lent
\* to the request instead of copied: the source always, the destination for
\* the first chunk of the call only.
InSetup ==
    /\ pcIn = "setup"
    /\ sseq' = [sseq EXCEPT ![jIn] = seq]
    /\ lent' = [lent EXCEPT ![jIn] =
                  (IF req.pin THEN @ \cup {"src"} ELSE @ \ {"src"})
                    \cup (IF req.pin /\ seq = 0 THEN {"dest"} ELSE {})]
    /\ pcIn' = "use"
    /\ UNCHANGED <<callVars, sessVars, cursorVars, res, jIn, num_retries,
                   outVars, devVars, out>>

\* src2++: "this buffer is in use".
InUse ==
    /\ pcIn = "use"
    /\ src2' = [src2 EXCEPT ![jIn] = @ + 1]
    /\ pcIn' = "submit"
    /\ UNCHANGED <<callVars, sessVars, src1, sink1, sink2, sseq, lent, res,
                   jIn, num_retries, outVars, devVars, out>>

\* cpaDcCompressData2 accepts the request, refuses it for now, or fails.  The
\* request carries the room the device has been given, the memory there is, and
\* what doCompressOut will put around its output.
InSubmit ==
    /\ pcIn = "submit"
    /\ \/ /\ hw' = hw \cup {[slot |-> jIn, call |-> calls, seq |-> sseq[jIn],
                             st |-> "pending", sz |-> 0, room |-> DestRoom,
                             mem |-> DestMem(jIn), around |-> HeaderSz + FooterSz,
                             fin |-> HwFinal(sseq[jIn])]}
          /\ num_retries' = 0
          /\ pcIn' = "adv"
       \/ /\ "retry" \in Faults
          /\ IF num_retries + 1 > MaxNumRetry
             THEN num_retries' = 0 /\ pcIn' = "cleanup"
             ELSE num_retries' = num_retries + 1 /\ UNCHANGED pcIn
          /\ UNCHANGED hw
       \/ /\ "submit" \in Faults
          /\ num_retries' = 0
          /\ pcIn' = "cleanup"
          /\ UNCHANGED hw
    /\ UNCHANGED <<callVars, sessVars, streamVars, jIn, outVars, events,
                   heartbeat, out>>

InCleanUpWithoutClaim ==
    /\ pcIn = "cleanup"
    /\ lent' = [lent EXCEPT ![jIn] = {}]
    /\ pcIn' = "sw"
    /\ UNCHANGED <<callVars, sessVars, cursorVars, sseq, res, jIn,
                   num_retries, outVars, devVars, out>>

\* compInBufferCleanUp takes the claim back.  One step: of a buffer that is
\* claimed but not with the device, doCompressOut's reset alone takes notice,
\* and it loses the buffer between the two decrements as it does before them.
InCleanUp ==
    /\ pcIn = "cleanup"
    /\ lent' = [lent EXCEPT ![jIn] = {}]
    /\ src1' = [src1 EXCEPT ![jIn] = @ - 1]
    /\ src2' = [src2 EXCEPT ![jIn] = @ - 1]
    /\ pcIn' = "sw"
    /\ UNCHANGED <<callVars, sessVars, sink1, sink2, sseq, res, jIn,
                   num_retries, outVars, devVars, out>>

\* compInSWFallback: no software, or nobody is left to wait for, or stopped.
InSWFallback ==
    /\ pcIn = "sw"
    /\ pcIn' = IF ~req.sw_backup \/ req.single_thread \/ stop_submitting
               THEN "err" ELSE "swseq"
    /\ UNCHANGED <<callVars, sessVars, streamVars, jIn, num_retries, outVars,
                   devVars, out>>

InSWPendingWithoutWait ==
    /\ pcIn = "swseq"
    /\ pcIn' = "swcomp"
    /\ UNCHANGED <<callVars, sessVars, streamVars, jIn, num_retries, outVars,
                   devVars, out>>

\* compInSWFallback: QZ_WAIT_SW_PENDING while earlier chunks are unanswered.
InSWPending ==
    /\ pcIn = "swseq"
    /\ pcIn' = IF seq # seq_in THEN "loop" ELSE "swcomp"
    /\ UNCHANGED <<callVars, sessVars, streamVars, jIn, num_retries, outVars,
                   devVars, out>>

\* compInSWFallback: the chunk in software, straight to next_dest, with room
\* for DEST_SZ(src_send_sz) whatever is left of the destination.
InSWCompress ==
    /\ pcIn = "swcomp"
    /\ \/ \E sz \in Sizes :
            /\ out' = Append(out, Piece(calls, seq, 1, "sw", next_dest, sz,
                                        SwFinal(req)))
            /\ deflate_stat' = SwStat(req, TRUE)
            /\ next_dest' = next_dest + sz
            /\ qz_in_len' = qz_in_len + 1
            /\ qz_out_len' = qz_out_len + sz
            /\ pcIn' = "swresp"
       \/ /\ "sw" \in Faults
          /\ deflate_stat' = SwStat(req, FALSE)
          /\ pcIn' = "err"
          /\ UNCHANGED <<lenVars, out>>
    /\ UNCHANGED <<callVars, seqVars, flagVars, streamVars, jIn, num_retries,
                   outVars, devVars>>

\* compInSWFallback counts the answer.  doCompressOut cannot tell the order of
\* the two increments: last_submitted is still 0, so it goes on polling.
InSWRespond ==
    /\ pcIn = "swresp"
    /\ seq_in' = seq_in + 1
    /\ processed' = processed + 1
    /\ pcIn' = "adv"
    /\ UNCHANGED <<callVars, seq, submitted, flagVars, lenVars, deflate_stat,
                   streamVars, jIn, num_retries, outVars, devVars, out>>

\* The tail of the loop.  One step: doCompressOut polls on whether it sees
\* submitted before or after the increment, until last_submitted is set.
InAdvance ==
    /\ pcIn = "adv"
    /\ seq' = seq + 1
    /\ submitted' = submitted + 1
    /\ IF stop_submitting \/ seq + 1 = req.n
       THEN last_submitted' = TRUE /\ pcIn' = "done"
       ELSE pcIn' = "loop" /\ UNCHANGED last_submitted
    /\ UNCHANGED <<callVars, seq_in, processed, stop_submitting, stat, lenVars,
                   deflate_stat, streamVars, jIn, num_retries, outVars,
                   devVars, out>>

InErrExitWithoutLast ==
    /\ pcIn = "err"
    /\ stop_submitting' = TRUE
    /\ stat' = "FAIL"
    /\ pcIn' = "done"
    /\ UNCHANGED <<callVars, seqVars, last_submitted, lenVars, deflate_stat,
                   streamVars, jIn, num_retries, outVars, devVars, out>>

InErrExit ==
    /\ pcIn = "err"
    /\ stop_submitting' = TRUE
    /\ last_submitted' = TRUE
    /\ stat' = "FAIL"
    /\ pcIn' = "done"
    /\ UNCHANGED <<callVars, seqVars, lenVars, deflate_stat, streamVars, jIn,
                   num_retries, outVars, devVars, out>>

InNext == \/ InLoop \/ InGetBuffer \/ InNoBuffer \/ InSetup \/ InUse
          \/ InSubmit \/ InCleanUp \/ InSWFallback \/ InSWPending
          \/ InSWCompress \/ InSWRespond \/ InAdvance \/ InErrExit

-----------------------------------------------------------------------------
(* doCompressOut.                                                          *)

\* In single_thread mode it runs after doCompressIn has returned.
OutStart ==
    /\ pcOut = "start"
    /\ req.single_thread => pcIn = "done"
    /\ avail' = req.dest - qz_out_len
    /\ pcOut' = "loop"
    /\ UNCHANGED <<callVars, sessVars, streamVars, inVars, jOut, pend, devVars,
                   out>>

OutLoop ==
    /\ pcOut = "loop"
    /\ pcOut' = IF ~last_submitted \/ processed < submitted
                THEN "poll" ELSE "done"
    /\ UNCHANGED <<callVars, sessVars, streamVars, inVars, jOut, avail, pend,
                   devVars, out>>

\* dcCallback, run by icp_sal_DcPollInstance for every answer that is there:
\* it is refused (FLOW ERROR) when the cursors show no request in flight.
OutCallback ==
    /\ pcOut = "poll"
    /\ \E r \in hw :
        /\ r.st # "pending"
        /\ hw' = hw \ {r}
        /\ res' = [res EXCEPT ![r.slot] = r]
        /\ sink1' = IF InFlight(r.slot)
                    THEN [sink1 EXCEPT ![r.slot] = @ + 1]
                    ELSE sink1
    /\ UNCHANGED <<callVars, sessVars, src1, src2, sink2, sseq, lent, inVars,
                   outVars, events, heartbeat, out>>

OutPolled ==
    /\ pcOut = "poll"
    /\ \A r \in hw : r.st = "pending"
    /\ jOut' = 0
    /\ pcOut' = "scan"
    /\ UNCHANGED <<callVars, sessVars, streamVars, inVars, avail, pend,
                   devVars, out>>

OutPollFail ==
    /\ pcOut = "poll" /\ "poll" \in Faults
    /\ pcOut' = "err"
    /\ UNCHANGED <<callVars, sessVars, streamVars, inVars, jOut, avail, pend,
                   devVars, out>>

\* The retrieve loop: the first buffer from jOut on that holds the answer to
\* chunk seq_in.  Answers arrive in OutCallback only, so the loop may be read
\* as one look at all the buffers.
OutScan ==
    /\ pcOut = "scan"
    /\ \/ /\ \A k \in Slots : k >= jOut => ~Ready(k)
          /\ pcOut' = "loop"
          /\ UNCHANGED jOut
       \/ \E k \in Slots :
             /\ k >= jOut /\ Ready(k)
             /\ \A m \in Slots : m >= jOut /\ Ready(m) => k <= m
             /\ pcOut' = "handle"
             /\ jOut' = k
    /\ UNCHANGED <<callVars, sessVars, streamVars, inVars, avail, pend,
                   devVars, out>>

\* compOutProcessedRespond; the buffer keeps what lends says.
Respond(lends) ==
    /\ lent' = [lent EXCEPT ![jOut] = lends]
    /\ sink2' = [sink2 EXCEPT ![jOut] = @ + 1]
    /\ processed' = processed + 1
    /\ seq_in' = seq_in + 1
    /\ UNCHANGED <<seq, submitted, src1, src2, sink1, sseq, res>>

\* After QZ_BUF_ERROR every further answer is dropped: compOutSkipErrorRespond.
OutSkip ==
    /\ pcOut = "handle" /\ stat = "BUF_ERROR"
    /\ Respond({})
    /\ jOut' = jOut + 1
    /\ pcOut' = "scan"
    /\ UNCHANGED <<callVars, flagVars, lenVars, deflate_stat, inVars, avail,
                   pend, devVars, out>>

OutHandle ==
    /\ pcOut = "handle" /\ stat # "BUF_ERROR"
    /\ IF res[jOut].st = "ok"
       THEN pcOut' = "check" /\ pend' = [by |-> "hw", sz |-> res[jOut].sz]
       ELSE pcOut' = "sw" /\ UNCHANGED pend
    /\ UNCHANGED <<callVars, sessVars, streamVars, inVars, jOut, avail,
                   devVars, out>>

\* compOutSWFallback up to compOutCheckDestLen: software gets no more room
\* than the device had.
OutSW ==
    /\ pcOut = "sw"
    /\ \/ /\ req.sw_backup
          /\ \E sz \in Sizes :
                sz <= req.dest /\ pend' = [by |-> "sw", sz |-> sz]
          /\ deflate_stat' = SwStat(req, TRUE)
          /\ pcOut' = "check"
       \/ /\ req.sw_backup
          /\ "sw" \in Faults \/ \E sz \in Sizes : sz > req.dest
          /\ deflate_stat' = SwStat(req, FALSE)
          /\ pcOut' = "err"
          /\ UNCHANGED pend
       \/ /\ ~req.sw_backup
          /\ pcOut' = "err"
          /\ UNCHANGED <<pend, deflate_stat>>
    /\ UNCHANGED <<callVars, seqVars, flagVars, lenVars, streamVars, inVars,
                   jOut, avail, devVars, out>>

OutCheckWithoutBound ==
    /\ pcOut = "check"
    /\ avail' = avail - pend.sz
    /\ pcOut' = "emit"
    /\ UNCHANGED <<callVars, sessVars, streamVars, inVars, jOut, pend, devVars,
                   out>>

\* compOutCheckDestLen: when the piece does not fit, the answer is dropped,
\* seq_in moves on, and only then is stop_submitting set (OutBufError).
OutCheck ==
    /\ pcOut = "check"
    /\ avail' = avail - pend.sz
    /\ IF avail - pend.sz < 0
       THEN Respond({}) /\ pcOut' = "buferr"
       ELSE pcOut' = "emit" /\ UNCHANGED <<seqVars, streamVars>>
    /\ UNCHANGED <<callVars, flagVars, lenVars, deflate_stat, inVars, jOut,
                   pend, devVars, out>>

OutBufError ==
    /\ pcOut = "buferr"
    /\ stop_submitting' = TRUE
    /\ stat' = "BUF_ERROR"
    /\ jOut' = jOut + 1
    /\ pcOut' = "scan"
    /\ UNCHANGED <<callVars, seqVars, last_submitted, lenVars, deflate_stat,
                   streamVars, inVars, avail, pend, devVars, out>>

\* The piece goes to next_dest: header, data, footer of the device's answer,
\* or the software output as it stands in the buffer.  A lent destination is
\* not copied; the software output then begins at the buffer's data pointer,
\* which compBufferSetup put a header behind next_dest.
OutEmit ==
    /\ pcOut = "emit"
    /\ LET r == res[jOut]
           shift == IF "dest" \in lent[jOut] THEN HeaderSz ELSE 0
       IN  out' = Append(out,
               IF pend.by = "hw"
               THEN Piece(r.call, r.seq, 1, "hw", next_dest, pend.sz, r.fin)
               ELSE Piece(calls, sseq[jOut], 1, "sw", next_dest + shift,
                          pend.sz, SwFinal(req)))
    /\ lent' = [lent EXCEPT ![jOut] = @ \ {"dest"}]
    /\ next_dest' = next_dest + pend.sz
    /\ qz_in_len' = qz_in_len + 1
    /\ qz_out_len' = qz_out_len + pend.sz
    /\ pcOut' = "resp"
    /\ UNCHANGED <<callVars, seqVars, flagVars, deflate_stat, cursorVars, sseq,
                   res, inVars, jOut, avail, pend, devVars>>

\* compOutProcessedRespond and the break out of the retrieve loop.
OutRespond ==
    /\ pcOut = "resp"
    /\ Respond(lent[jOut] \ {"src"})
    /\ pcOut' = "loop"
    /\ UNCHANGED <<callVars, flagVars, lenVars, deflate_stat, inVars, jOut,
                   avail, pend, devVars, out>>

OutErrExitWithoutStat ==
    /\ pcOut = "err"
    /\ stop_submitting' = TRUE
    /\ jOut' = 0
    /\ pcOut' = "reset"
    /\ UNCHANGED <<callVars, seqVars, last_submitted, stat, lenVars,
                   deflate_stat, streamVars, inVars, avail, pend, devVars, out>>

OutErrExit ==
    /\ pcOut = "err"
    /\ stat' = "FAIL"
    /\ stop_submitting' = TRUE
    /\ jOut' = 0
    /\ pcOut' = "reset"
    /\ UNCHANGED <<callVars, seqVars, last_submitted, lenVars, deflate_stat,
                   streamVars, inVars, avail, pend, devVars, out>>

\* One stream buffer after the other is restored and its cursors are zeroed,
\* whatever the device and doCompressIn are doing with it.
OutReset ==
    /\ pcOut = "reset"
    /\ lent' = [lent EXCEPT ![jOut] = {}]
    /\ src1' = [src1 EXCEPT ![jOut] = 0]
    /\ src2' = [src2 EXCEPT ![jOut] = 0]
    /\ sink1' = [sink1 EXCEPT ![jOut] = 0]
    /\ sink2' = [sink2 EXCEPT ![jOut] = 0]
    /\ IF jOut + 1 \in Slots
       THEN jOut' = jOut + 1 /\ UNCHANGED pcOut
       ELSE pcOut' = "done" /\ UNCHANGED jOut
    /\ UNCHANGED <<callVars, sessVars, sseq, res, inVars, avail, pend,
                   devVars, out>>

OutNext == \/ OutStart \/ OutLoop \/ OutCallback \/ OutPolled \/ OutPollFail
           \/ OutScan \/ OutSkip \/ OutHandle \/ OutSW \/ OutCheck
           \/ OutBufError \/ OutEmit \/ OutRespond \/ OutErrExit \/ OutReset

-----------------------------------------------------------------------------
(* The device and its event thread.                                        *)

\* The device answers a request, in any order; with an error when the output
\* does not fit, the job fails or, as a dummy answer, when the device is down.
\* (sz counts the header and the footer the device does not write.)
HwComplete ==
    /\ \E r \in hw :
        /\ r.st = "pending"
        /\ \/ \E sz \in Sizes :
                /\ sz - r.around <= r.room
                /\ hw' = (hw \ {r}) \cup {[r EXCEPT !.st = "ok", !.sz = sz]}
           \/ /\ \/ "job" \in Faults \/ heartbeat # "ok"
                 \/ \E sz \in Sizes : sz - r.around > r.room
              /\ hw' = (hw \ {r}) \cup {[r EXCEPT !.st = "err"]}
    /\ UNCHANGED <<callVars, sessVars, streamVars, inVars, outVars, events,
                   heartbeat, out>>

\* dcEventCallback: CPA_INSTANCE_EVENT_FATAL_ERROR.
FatalError ==
    /\ heartbeat = "ok" /\ events < MaxEvents
    /\ heartbeat' = "down"
    /\ events' = events + 1
    /\ UNCHANGED <<callVars, sessVars, streamVars, inVars, outVars, hw, out>>

\* dcEventCallback: CPA_INSTANCE_EVENT_RESTARTED.
Restarted ==
    /\ heartbeat = "down"
    /\ heartbeat' = "ok"
    /\ UNCHANGED <<callVars, sessVars, streamVars, inVars, outVars, hw, events,
                   out>>

-----------------------------------------------------------------------------
\* The application makes no more calls.
Rest == caller = "idle" /\ calls = MaxCalls /\ UNCHANGED vars

NoRequest == [n |-> 0, dest |-> 0, sw_backup |-> FALSE, fmt |-> "gzip",
              last |-> TRUE, pin |-> FALSE, single_thread |-> TRUE]

NoAnswer == [slot |-> 0, call |-> 0, seq |-> 0, st |-> "ok", sz |-> 0,
             room |-> 0, mem |-> 0, around |-> 0, fin |-> TRUE]

Init ==
    /\ caller = "idle" /\ calls = 0 /\ req = NoRequest
    /\ ret = [rc |-> "OK", src_len |-> 0, dest_len |-> 0]
    /\ seq = 0 /\ seq_in = 0 /\ submitted = 0 /\ processed = 0
    /\ last_submitted = FALSE /\ stop_submitting = FALSE /\ stat = "OK"
    /\ next_dest = 0 /\ qz_in_len = 0 /\ qz_out_len = 0
    /\ deflate_stat = "null"
    /\ heartbeat = "ok"
    /\ src1 = [k \in Slots |-> 0] /\ src2 = [k \in Slots |-> 0]
    /\ sink1 = [k \in Slots |-> 0] /\ sink2 = [k \in Slots |-> 0]
    /\ sseq = [k \in Slots |-> 0] /\ lent = [k \in Slots |-> {}]
    /\ res = [k \in Slots |-> NoAnswer]
    /\ pcIn = "done" /\ jIn = 0 /\ num_retries = 0
    /\ pcOut = "done" /\ jOut = 0 /\ avail = 0
    /\ pend = [by |-> "hw", sz |-> 0]
    /\ hw = {} /\ events = 0
    /\ out = << >>

Next == \/ \E r \in Requests : Call(r)
        \/ FinishMismatch \/ FinishSW \/ Finish
        \/ InNext \/ OutNext
        \/ HwComplete \/ FatalError \/ Restarted
        \/ Rest

Spec == Init /\ [][Next]_vars

\* Both threads are scheduled, the device answers every request it took, and
\* the caller goes on once it has joined them.
FairSpec == /\ Spec
            /\ WF_vars(InNext)
            /\ WF_vars(OutNext)
            /\ WF_vars(HwComplete)
            /\ WF_vars(FinishMismatch \/ FinishSW \/ Finish)

-----------------------------------------------------------------------------
(* Properties.                                                             *)

Requested == [n : Nat, dest : Nat, sw_backup : BOOLEAN,
              fmt : {"raw", "gzip", "lz4"}, last : BOOLEAN, pin : BOOLEAN,
              single_thread : BOOLEAN]

Answers == [slot : Slots, call : Nat, seq : Nat,
            st : {"pending", "ok", "err"}, sz : Nat, room : Nat, mem : Int,
            around : Nat, fin : BOOLEAN]

Codes == {"OK", "FAIL", "BUF_ERROR"}

\* doCompressIn between the test of seq_in and its increment, and doCompressOut
\* between the match of an answer and its increment of seq_in: both write
\* next_dest, qz_in_len, qz_out_len, seq_in and processed.
InUpdates  == pcIn \in {"swcomp", "swresp"}
OutUpdates == pcOut \in {"handle", "sw", "check", "emit", "resp"}

Pieces == [call : Nat, chunk : Int, cnt : Int, by : {"hw", "sw"}, at : Int,
           sz : Int, fin : BOOLEAN, open : BOOLEAN]

TypeCall ==
    /\ caller \in {"idle", "run"}
    /\ calls \in Nat
    /\ req \in Requested
    /\ ret \in [rc : Codes \cup {"NO_INST"}, src_len : Int, dest_len : Int]

TypeSess ==
    /\ seq \in Nat /\ seq_in \in Nat /\ submitted \in Nat /\ processed \in Nat
    /\ last_submitted \in BOOLEAN /\ stop_submitting \in BOOLEAN
    /\ stat \in Codes
    /\ next_dest \in Int /\ qz_in_len \in Int /\ qz_out_len \in Int
    /\ deflate_stat \in {"null", "inited"}

TypeStream ==
    /\ src1 \in [Slots -> Int] /\ src2 \in [Slots -> Int]
    /\ sink1 \in [Slots -> Int] /\ sink2 \in [Slots -> Int]
    /\ sseq \in [Slots -> Nat]
    /\ lent \in [Slots -> SUBSET {"src", "dest"}]
    /\ res \in [Slots -> Answers]

TypeIn ==
    /\ pcIn \in {"loop", "get", "setup", "use", "submit", "cleanup", "sw",
                 "swseq", "swcomp", "swresp", "adv", "err", "done"}
    /\ jIn \in Slots
    /\ num_retries \in Nat

TypeOut ==
    /\ pcOut \in {"start", "loop", "poll", "scan", "handle", "sw", "check",
                  "buferr", "emit", "resp", "err", "reset", "done"}
    /\ jOut \in Nat
    /\ OutUpdates \/ pcOut \in {"buferr", "reset"} => jOut \in Slots
    /\ avail \in Int
    /\ pend \in [by : {"hw", "sw"}, sz : Nat]

TypeDev ==
    /\ hw \subseteq Answers
    /\ events \in Nat
    /\ heartbeat \in {"ok", "down"}

\* Every variable has its type.  A cursor may be negative only after a reset
\* of the buffers met a claim that doCompressIn took back later.
TypeOK == /\ TypeCall /\ TypeSess /\ TypeStream /\ TypeIn /\ TypeOut /\ TypeDev
          /\ out \in Seq(Pieces)

\* The two threads never update the session at the same time, although no
\* lock orders them: the software fallback of doCompressIn (compInSWFallback)
\* waits until seq = seq_in, which leaves doCompressOut nothing to match.
UpdatesExclusive == ~(InUpdates /\ OutUpdates)

\* The destination holds the chunks of this call in order, without a gap or a
\* repetition, whoever compressed them (doCompressOut's match on seq_in,
\* compInSWFallback's wait, the API-level fallback's restart at qz_in_len), and
\* each piece begins where the one before it ends: next_dest and the place the
\* data is really written to agree.  (Not in a pinned destination: there the
\* software fallback of the first chunk writes behind a header it does not
\* count.)
InOrder ==
    \A i \in 1..Len(out) :
        /\ out[i].call = calls
        /\ out[i].chunk = IF i = 1 THEN 0 ELSE out[i-1].chunk + out[i-1].cnt
        /\ ~req.pin => out[i].at = IF i = 1 THEN 0 ELSE out[i-1].at + out[i-1].sz

\* The pieces make one well-formed result: the device closes a raw deflate
\* stream with its last piece only, and a gzip member of the device never
\* begins inside a software member that is still open.  (A raw piece of the
\* software fallback closes the stream wherever it is.)
WellFramed ==
    \A i \in 1..Len(out) : out[i].by = "hw" =>
        IF req.fmt = "raw"
        THEN out[i].fin => req.last /\ out[i].chunk + out[i].cnt = req.n
        ELSE ~out[i].open

\* What a finished call reports is what it did: the consumed chunks are
\* exactly those in the destination, QZ_OK means all of them, and dest_len ends
\* the last one.  (Not behind a gap, which InOrder is about; and dest_len not
\* for a pinned destination: there the software fallback writes to another
\* place than doCompressOut counts.)
ReportsTruth ==
    caller = "idle" /\ calls > 0 =>
        /\ ret.rc = "OK" => ret.src_len = req.n
        /\ ret.src_len > 0 /\ InOrder =>
              /\ out # << >>
              /\ ret.src_len = out[Len(out)].chunk + out[Len(out)].cnt
              /\ ~req.pin => ret.dest_len = out[Len(out)].at + out[Len(out)].sz

\* What the device writes lies in the memory behind its pointer, a lent
\* destination too, unless that is shorter than a header (compBufferSetup); and
\* no answer of the device is placed past the end of the destination, however
\* small it is (compOutCheckDestLen).  (Placed up to the first chunk compressed
\* in software: compInSWFallback writes without looking at the room and does not
\* count what it used.)
FitsDestination ==
    /\ \A r \in hw : r.st = "ok" /\ r.mem >= 0 => r.sz - r.around <= r.mem
    /\ \A i \in 1..Len(out) :
          (\A j \in 1..i : out[j].by = "hw") => out[i].at + out[i].sz <= req.dest

\* The device stays inside a destination it writes to directly, one shorter
\* than a header included.  (False: compBufferSetup takes the header off the
\* length in unsigned arithmetic.)
ShortDestinationKept ==
    \A r \in hw : r.st = "ok" => r.sz - r.around <= r.mem

\* Output of the software fallbacks lies in the destination the application
\* passed.  (False: compInSWFallback gives each chunk room for DEST_SZ of it,
\* whatever is left.)
FallbackFits ==
    \A i \in 1..Len(out) :
        out[i].by = "sw" => out[i].at + out[i].sz <= req.dest

\* When the instance is released every stream buffer is free and holds no
\* user memory, on every path through doCompressIn and doCompressOut.
BuffersReturned ==
    caller = "idle" =>
        \A k \in Slots : Unused(k) /\ lent[k] = {}

\* An answer of the device is never refused by dcCallback: the cursors of a
\* buffer in flight always say so.
NoFlowError ==
    \A r \in hw : InFlight(r.slot)

\* Every call returns.
CallReturns == caller = "run" ~> caller = "idle"

-----------------------------------------------------------------------------
(* The inductive invariant of the buffer protocol, for runs in which       *)
(* doCompressOut never takes its error exit.                               *)

\* doCompressOut's error exit, which resets the buffers under the device and
\* under doCompressIn, is reached through these only.
NoReset == /\ "poll" \notin Faults
           /\ "sw" \notin Faults
           /\ SwBackups \subseteq {TRUE}
           /\ \A d \in DestSizes, sz \in Sizes : sz <= d

\* doCompressIn has claimed the buffer and not yet handed it to the device.
InHolds(k) == k = jIn /\ pcIn \in {"setup", "use", "submit", "cleanup"}

\* The cursors of a buffer follow the hands it is in.
CursorInv ==
    \A k \in Slots :
        /\ InHolds(k) /\ pcIn \in {"setup", "use"} =>
              src1[k] = src2[k] + 1 /\ src2[k] = sink1[k] /\ sink1[k] = sink2[k]
        /\ InHolds(k) /\ pcIn \in {"submit", "cleanup"} => InFlight(k)
        /\ ~InHolds(k) => Unused(k) \/ InFlight(k) \/ Answered(k)

\* A buffer that carries a request of this call.
Carries(k) == ~InHolds(k) /\ ~Unused(k)

\* The device has at most one request per buffer, and none that doCompressIn
\* still holds.
DeviceInv ==
    /\ \A r \in hw : InFlight(r.slot) /\ ~InHolds(r.slot)
    /\ \A r, q \in hw : r.slot = q.slot => r = q

\* The requests under way carry different chunks, all of them submitted and
\* none of them counted as answered.
SeqInv ==
    /\ \A k \in Slots : Carries(k) =>
          /\ seq_in <= sseq[k]
          /\ sseq[k] < seq \/ (pcIn = "adv" /\ sseq[k] = seq)
    /\ \A k, m \in Slots :
          Carries(k) /\ Carries(m) /\ sseq[k] = sseq[m] => k = m
    /\ pcIn \in {"use", "submit"} => sseq[jIn] = seq
    /\ seq_in <= seq \/ (pcIn = "adv" /\ seq_in = seq + 1)
    /\ processed = seq_in
    /\ submitted = seq

\* Memory of the user stays with a buffer only while it carries a request.
LentInv ==
    /\ \A k \in Slots : ~InHolds(k) /\ Unused(k) => lent[k] = {}
    /\ pcOut = "resp" => "dest" \notin lent[jOut]
    /\ pcIn = "setup" => lent[jIn] = {}

\* Where the two threads are.
ControlInv ==
    /\ pcIn \in {"swcomp", "swresp"} => seq = seq_in
    /\ OutUpdates => Ready(jOut)
    /\ pcOut \notin {"err", "reset"}
    /\ last_submitted /\ caller = "run" => pcIn = "done"
    /\ pcOut = "done" /\ caller = "run" =>
          last_submitted /\ submitted <= processed
    /\ caller = "run" => req.sw_backup /\ \A sz \in Sizes : sz <= req.dest
    /\ caller = "idle" =>
          /\ pcIn = "done" /\ pcOut = "done"
          /\ \A k \in Slots : Unused(k)

IInv == /\ TypeOK
        /\ CursorInv
        /\ DeviceInv
        /\ SeqInv
        /\ LentInv
        /\ ControlInv

=============================================================================
