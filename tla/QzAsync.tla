------------------------------ MODULE QzAsync ------------------------------
(***************************************************************************)
(* The asynchronous API: qzCompress2 and qzDecompress2 with a callback.    *)
(*                                                                         *)
(* The application's thread queues requests (the ring is QzRing; here it   *)
(* is a sequence).  AsyncReqConsumeJob takes them in order and offloads    *)
(* their chunks (AsyncCompressIn) or members (AsyncDeCompressIn); one      *)
(* polling thread, AsyncCompressOut or AsyncDecompressOut, takes the       *)
(* answers in sequence order, calls the application back and frees the     *)
(* request.  A change of direction waits for one polling thread to end and *)
(* starts the other.  Chunks and members are one unit of source and of     *)
(* destination each; the pointers of the stream buffers are those of       *)
(* QzCompress and QzDecompress and are left out.                           *)
(***************************************************************************)
EXTENDS Integers, Sequences, FiniteSetsExt

CONSTANTS
    NumBuff,      \* stream buffers of the instance (dest_count)
    MaxNumRetry,  \* MAX_NUM_RETRY of the submission loops
    QueueSize,    \* async_queue_size
    MaxReqs,      \* bound: requests of the application
    Loads,        \* bound: what the application asks and what may go wrong
    Null

\* What can be wrong with a member: no header, a wrong checksum, or too large
\* for the device.
Kinds == {"ok", "hdr", "sum", "big"}
FaultKinds == {"grab", "retry", "submit", "comp_job", "decomp_job", "poll",
               "sw", "event"}

ASSUME AsyncAssumption ==
    /\ NumBuff \in Nat \ {0} /\ MaxNumRetry \in Nat
    /\ QueueSize \in Nat \ {0} /\ MaxReqs \in Nat \ {0}
    /\ Null \notin Nat
    /\ \A l \in Loads :
        /\ l.shapes \subseteq [op : {"comp", "decomp"},
                               kinds : Seq(Kinds) \ {<< >>}, room : Nat]
        /\ l.faults \subseteq FaultKinds
        /\ l.reqs \in 1..MaxReqs       \* requests in all,
        /\ l.window \in Nat \ {0}      \* and without a callback yet
        /\ l.sw_backup \in BOOLEAN /\ l.zlib \in BOOLEAN

Slots == 0..(NumBuff - 1)
Reqs  == 1..MaxReqs

VARIABLES
    load,                              \* the application and its world
    app, queue, async_ctrl_init,       \* the application's thread, the ring
    obj, results, dst,                 \* QzAsyncReq_T, QzResult_T, outputs
    sess,                              \* QzSess_T
    pcC, instance, req, n, jIn, num_retries, pIn,   \* AsyncReqConsumeJob
    pcP, direct, jOut, reqOut, req_prv, pOut,       \* the polling thread
    cur, sseq, sreq, job,              \* QzCpaStream_T
    hw, heartbeat,                     \* the device
    dropped                            \* history: an answer was dropped

appVars    == <<load, app, queue, async_ctrl_init>>
reqVars    == <<obj, results, dst>>
inVars     == <<instance, req, n, jIn, num_retries, pIn>>
outVars    == <<jOut, reqOut, req_prv, pOut>>
streamVars == <<cur, sseq, sreq, job>>
devVars    == <<hw, heartbeat, dropped>>
vars == <<appVars, reqVars, sess, pcC, inVars, pcP, direct, outVars,
          streamVars, devVars>>

Fault(f)   == f \in load.faults
Shape(r)   == results[r].shape
Pending    == {r \in DOMAIN results : results[r].calls = 0}

-----------------------------------------------------------------------------
(* The session and the stream buffers.                                     *)

\* (Operators named ...Without... are faulty variants of the operator that
\* follows them; no specification uses them.)

\* resetQzsess.
FreshSess == [seq |-> 0, seq_in |-> 0, submitted |-> 0, processed |-> 0,
              last_submitted |-> FALSE, stop_submitting |-> FALSE,
              stat |-> "OK", force_sw |-> FALSE]

FreeSlot == [src1 |-> 0, src2 |-> 0, sink1 |-> 0, sink2 |-> 0]

Unused(c)   == c.src1 = c.src2 /\ c.src1 = c.sink1 /\ c.src1 = c.sink2
InFlight(c) == c.src1 = c.src2 /\ c.sink1 = c.sink2 /\ c.src2 = c.sink1 + 1
Answered(c) == c.src1 = c.src2 /\ c.sink1 = c.src1 /\ c.sink1 = c.sink2 + 1

\* getUnusedBuffer searches upwards from j, then from 0.
FirstUnused(k, j) ==
    /\ Unused(cur[k])
    /\ \A m \in Slots : Unused(cur[m]) => \/ m >= k /\ (k >= j \/ m < j)
                                          \/ k >= j /\ m < j

\* CallAsyncbackfn: the lengths of a failed request are zero; the request is
\* freed.
Called(res, r, status) ==
    [res EXCEPT ![r].status = status, ![r].calls = @ + 1,
                ![r].src_len = IF status = "OK" THEN @ ELSE 0,
                ![r].dest_len = IF status = "OK" THEN @ ELSE 0]
Freed(o, r) == [o EXCEPT ![r].live = FALSE]

\* An output unit of request r is written after the first at units.
Write(d, r, at, c) == [d EXCEPT ![r] = [@ EXCEPT ![at + 1] = c]]

-----------------------------------------------------------------------------
(* The application's thread: populateAsyncReq, qzAsyncReqSubmit.           *)

Submit(shape) ==
    /\ app = "run" /\ Len(results) < load.reqs
    /\ Cardinality(Pending) < load.window
    /\ Len(queue) < QueueSize
    /\ results' = Append(results, [shape |-> shape, status |-> "OK",
                                   src_len |-> Len(shape.kinds),
                                   dest_len |-> shape.room, calls |-> 0])
    /\ obj' = Append(obj, [live |-> TRUE, in_len |-> 0, out_len |-> 0])
    /\ dst' = Append(dst, [i \in 1..(Len(shape.kinds) + 1) |-> 0])
    /\ queue' = Append(queue, Len(results) + 1)
    /\ UNCHANGED <<load, app, async_ctrl_init, sess, pcC, inVars, pcP, direct,
                   outVars, streamVars, devVars>>

\* AsyncCtrlDestructor, at the thread's end or from qzTeardownSession.
Exit ==
    /\ app = "run"
    /\ async_ctrl_init' = FALSE
    /\ app' = "join"
    /\ UNCHANGED <<load, queue, reqVars, sess, pcC, inVars, pcP, direct,
                   outVars, streamVars, devVars>>

\* The consumer has ended; the control structure is freed.
Joined ==
    /\ app = "join" /\ pcC = "ended"
    /\ app' = "gone"
    /\ UNCHANGED <<load, queue, async_ctrl_init, reqVars, sess, pcC, inVars,
                   pcP, direct, outVars, streamVars, devVars>>

AppNext == (\E s \in load.shapes : Submit(s)) \/ Exit \/ Joined

-----------------------------------------------------------------------------
(* AsyncReqConsumeJob.                                                     *)

\* GetStableInstance; the polling thread starts with AsyncCompressOut.
CGrab ==
    /\ pcC = "grab"
    /\ \/ instance' = TRUE /\ pcP' = "test" /\ heartbeat
       \/ instance' = FALSE /\ pcP' = pcP /\ (Fault("grab") \/ ~heartbeat)
    /\ pcC' = "loop"
    /\ UNCHANGED <<appVars, reqVars, sess, req, n, jIn, num_retries, pIn,
                   direct, outVars, streamVars, devVars>>

\* The semaphore counts the queue: a request, or another turn.
CTake ==
    /\ pcC = "loop" /\ async_ctrl_init /\ queue # << >>
    /\ req' = Head(queue) /\ queue' = Tail(queue)
    /\ pcC' = IF instance THEN "dir" ELSE "soft"
    /\ UNCHANGED <<load, app, async_ctrl_init, reqVars, sess, instance, n, jIn,
                   num_retries, pIn, pcP, direct, outVars, streamVars, devVars>>

\* The synchronous call does it (qzCompressCrcExt, qzDecompressCrcExt); then
\* an instance is tried for again.
CSoft ==
    /\ pcC = "soft"
    /\ \/ /\ dst' = [dst EXCEPT ![req] =
                       [i \in DOMAIN @ |-> IF i <= Len(Shape(req).kinds)
                                           THEN i ELSE 0]]
          /\ results' = Called([results EXCEPT ![req].dest_len =
                                  Len(Shape(req).kinds)], req, "OK")
          /\ Len(Shape(req).kinds) <= Shape(req).room
          /\ \A i \in 1..Len(Shape(req).kinds) :
                Shape(req).kinds[i] \in {"ok", "big"}
       \/ /\ results' = Called(results, req, "FAIL")
          /\ \/ Fault("sw") \/ Len(Shape(req).kinds) > Shape(req).room
             \/ ~load.sw_backup
             \/ \E i \in 1..Len(Shape(req).kinds) :
                   Shape(req).kinds[i] \in {"hdr", "sum"}
          /\ UNCHANGED dst
    /\ obj' = Freed(obj, req)
    /\ sess' = FreshSess
    /\ pcC' = "grab"
    /\ UNCHANGED <<appVars, inVars, pcP, direct, outVars, streamVars, devVars>>

\* CheckAsyncPollingDirection: tell the polling thread that nothing follows.
CDirection ==
    /\ pcC = "dir"
    /\ IF direct = Shape(req).op
       THEN pcC' = "start" /\ UNCHANGED sess
       ELSE pcC' = "switch" /\ sess' = [sess EXCEPT !.last_submitted = TRUE]
    /\ UNCHANGED <<appVars, reqVars, inVars, pcP, direct, outVars, streamVars,
                   devVars>>

CSwitchWithoutJoin ==
    /\ pcC = "switch"
    /\ sess' = FreshSess
    /\ direct' = Shape(req).op
    /\ pcP' = "test" /\ req_prv' = Null
    /\ pcC' = "start"
    /\ UNCHANGED <<appVars, reqVars, inVars, jOut, reqOut, pOut, streamVars,
                   devVars>>

\* pthread_join, resetQzsess, pthread_create.
CSwitch ==
    /\ pcC = "switch" /\ pcP = "ended"
    /\ sess' = FreshSess
    /\ direct' = Shape(req).op
    /\ pcP' = "test" /\ req_prv' = Null
    /\ pcC' = "start"
    /\ UNCHANGED <<appVars, reqVars, inVars, jOut, reqOut, pOut, streamVars,
                   devVars>>

\* A submission failed: wait until the answers under way are dropped.
CRecover ==
    /\ pcC = "recover" /\ ~(sess.stop_submitting /\ sess.seq # sess.seq_in)
    /\ sess' = FreshSess
    /\ pcC' = "refuse"
    /\ UNCHANGED <<appVars, reqVars, inVars, pcP, direct, outVars, streamVars,
                   devVars>>

\* "req callback when offload failed"; the lengths stay as they are.
CRefuse ==
    /\ pcC = "refuse"
    /\ results' = [results EXCEPT ![req].status = "FAIL",
                                  ![req].calls = @ + 1]
    /\ obj' = Freed(obj, req)
    /\ pcC' = "loop"
    /\ UNCHANGED <<appVars, dst, sess, inVars, pcP, direct, outVars,
                   streamVars, devVars>>

\* The end: no more requests, the polling thread is joined.
CLeaveWithoutLast ==
    /\ pcC = "loop" /\ ~async_ctrl_init
    /\ pcC' = "join"
    /\ UNCHANGED <<appVars, reqVars, sess, inVars, pcP, direct, outVars,
                   streamVars, devVars>>

CLeave ==
    /\ pcC = "loop" /\ ~async_ctrl_init
    /\ sess' = [sess EXCEPT !.last_submitted = TRUE]
    /\ pcC' = "join"
    /\ UNCHANGED <<appVars, reqVars, inVars, pcP, direct, outVars, streamVars,
                   devVars>>

\* QzClearRing frees what is still queued; the instance is released.
CClear ==
    /\ pcC = "join" /\ pcP \in {"none", "ended"}
    /\ obj' = [r \in DOMAIN obj |->
                 IF \E i \in 1..Len(queue) : queue[i] = r
                 THEN [obj[r] EXCEPT !.live = FALSE] ELSE obj[r]]
    /\ queue' = << >>
    /\ instance' = FALSE
    /\ pcC' = "ended"
    /\ UNCHANGED <<load, app, async_ctrl_init, results, dst, sess, req, n, jIn,
                   num_retries, pIn, pcP, direct, outVars, streamVars, devVars>>

ConsumerNext == \/ CGrab \/ CTake \/ CSoft \/ CDirection \/ CSwitch
                \/ CRecover \/ CRefuse \/ CLeave \/ CClear

-----------------------------------------------------------------------------
(* AsyncCompressIn and AsyncDeCompressIn.  n units have been submitted.    *)

InStart ==
    /\ pcC = "start"
    /\ n' = 0 /\ jIn' = -1
    /\ pcC' = IF Shape(req).op = "comp" THEN "buf" ELSE "check"
    /\ UNCHANGED <<appVars, reqVars, sess, instance, req, num_retries, pIn,
                   pcP, direct, outVars, streamVars, devVars>>

\* checkHeader: the destination is used up, an earlier member went to
\* software, there is no header, or the member is too large.
CheckHeader ==
    LET kind == Shape(req).kinds[n + 1]
    IN  IF n >= Shape(req).room THEN "BUF_ERROR"
        ELSE IF sess.force_sw THEN "FORCE_SW"
        ELSE IF kind = "hdr" THEN "DATA_ERROR"
        ELSE IF kind # "big" THEN "OK"
        ELSE IF load.sw_backup THEN "FORCE_SW" ELSE "FAIL"

InCheck ==
    /\ pcC = "check"
    /\ CASE CheckHeader \notin {"OK", "FORCE_SW"} ->
                /\ sess' = [sess EXCEPT !.stat = CheckHeader]
                /\ pcC' = "err"
         [] CheckHeader = "FORCE_SW" \/ (CheckHeader = "OK" /\ ~heartbeat) ->
                /\ sess' = [sess EXCEPT !.force_sw =
                              @ \/ CheckHeader = "FORCE_SW"]
                /\ pcC' = "sw"
         [] OTHER -> pcC' = "buf" /\ UNCHANGED sess
    /\ UNCHANGED <<appVars, reqVars, inVars, pcP, direct, outVars, streamVars,
                   devVars>>

\* getUnusedBuffer is tried until it finds one; compBufferSetup or
\* decompBufferSetup.
InGetBuffer ==
    /\ pcC = "buf"
    /\ \E k \in Slots :
        /\ FirstUnused(k, jIn)
        /\ cur' = [cur EXCEPT ![k].src1 = @ + 1]
        /\ jIn' = k
    /\ pcC' = "setup"
    /\ UNCHANGED <<appVars, reqVars, sess, instance, req, n, num_retries, pIn,
                   pcP, direct, outVars, sseq, sreq, job, devVars>>

InSetupWithoutReq ==
    /\ pcC = "setup"
    /\ sseq' = [sseq EXCEPT ![jIn] = sess.seq]
    /\ sreq' = [sreq EXCEPT ![jIn] = IF @ = Null THEN req ELSE @]
    /\ cur' = [cur EXCEPT ![jIn].src2 = @ + 1]
    /\ pcC' = "send"
    /\ UNCHANGED <<appVars, reqVars, sess, inVars, pcP, direct, outVars, job,
                   devVars>>

InSetup ==
    /\ pcC = "setup"
    /\ sseq' = [sseq EXCEPT ![jIn] = sess.seq]
    /\ sreq' = [sreq EXCEPT ![jIn] = req]
    /\ cur' = [cur EXCEPT ![jIn].src2 = @ + 1]
    /\ pcC' = "send"
    /\ UNCHANGED <<appVars, reqVars, sess, inVars, pcP, direct, outVars, job,
                   devVars>>

TooOften == num_retries + 1 > MaxNumRetry

\* The submission loop.
InSend ==
    /\ pcC = "send"
    /\ \/ /\ hw' = hw \cup {[slot |-> jIn, op |-> Shape(req).op, r |-> req,
                             c |-> n + 1, st |-> "pending"]}
          /\ num_retries' = 0
          /\ pcC' = "adv"
       \/ /\ Fault("retry")
          /\ IF TooOften
             THEN num_retries' = 0 /\ pcC' = "cleanup"
             ELSE num_retries' = num_retries + 1 /\ UNCHANGED pcC
          /\ UNCHANGED hw
       \/ /\ Fault("submit")
          /\ num_retries' = 0
          /\ pcC' = "cleanup"
          /\ UNCHANGED hw
    /\ UNCHANGED <<appVars, reqVars, sess, instance, req, n, jIn, pIn, pcP,
                   direct, outVars, streamVars, heartbeat, dropped>>

\* The buffer is given back; a compression fails, a member is inflated here.
InCleanUp ==
    /\ pcC = "cleanup"
    /\ cur' = [cur EXCEPT ![jIn].src1 = @ - 1, ![jIn].src2 = @ - 1]
    /\ IF Shape(req).op = "comp"
       THEN pcC' = "err" /\ sess' = [sess EXCEPT !.stat = "FAIL"]
       ELSE pcC' = "sw" /\ UNCHANGED sess
    /\ UNCHANGED <<appVars, reqVars, inVars, pcP, direct, outVars, sseq, sreq,
                   job, devVars>>

\* decompInSWFallback.
InSWFallback ==
    /\ pcC = "sw"
    /\ IF ~load.sw_backup
       THEN pcC' = "err" /\ sess' = [sess EXCEPT !.stat = "FAIL"]
       ELSE /\ pcC' = IF sess.stop_submitting THEN "err" ELSE "swseq"
            /\ UNCHANGED sess
    /\ UNCHANGED <<appVars, reqVars, inVars, pcP, direct, outVars, streamVars,
                   devVars>>

\* QZ_WAIT_SW_PENDING while earlier members are unanswered.
InSWPending ==
    /\ pcC = "swseq"
    /\ pcC' = IF sess.seq # sess.seq_in THEN "check" ELSE "swdec"
    /\ UNCHANGED <<appVars, reqVars, sess, inVars, pcP, direct, outVars,
                   streamVars, devVars>>

\* The member is inflated straight to its place.  processed is a plain
\* increment: it is read here and written in the next step.
InSWDecompress ==
    /\ pcC = "swdec"
    /\ IF Shape(req).kinds[n + 1] \in {"ok", "big"}
       THEN \/ /\ dst' = Write(dst, req, n, n + 1)
               /\ sess' = [sess EXCEPT !.seq_in = @ + 1, !.force_sw = TRUE]
               /\ pIn' = sess.processed
               /\ pcC' = "swproc"
            \/ /\ Fault("sw")
               /\ sess' = [sess EXCEPT !.stat = "FAIL"]
               /\ pcC' = "err"
               /\ UNCHANGED <<dst, pIn>>
       ELSE /\ sess' = [sess EXCEPT !.stat = "FAIL", !.force_sw = TRUE]
            /\ pcC' = "err"
            /\ UNCHANGED <<dst, pIn>>
    /\ UNCHANGED <<appVars, obj, results, instance, req, n, jIn, num_retries,
                   pcP, direct, outVars, streamVars, devVars>>

InSWProcessed ==
    /\ pcC = "swproc"
    /\ sess' = [sess EXCEPT !.processed = pIn + 1]
    /\ pcC' = "swreq"
    /\ UNCHANGED <<appVars, reqVars, inVars, pcP, direct, outVars, streamVars,
                   devVars>>

\* The request's lengths, and its callback when it is complete.
InSWRequest ==
    /\ pcC = "swreq"
    /\ LET o == [obj EXCEPT ![req].in_len = @ + 1, ![req].out_len = @ + 1]
       IN  IF o[req].in_len = results[req].src_len
           THEN /\ results' = Called([results EXCEPT ![req].dest_len =
                                        o[req].out_len], req, "OK")
                /\ obj' = Freed(o, req)
           ELSE /\ results' = [results EXCEPT ![req].dest_len = @ - 1]
                /\ obj' = o
    /\ pcC' = "adv"
    /\ UNCHANGED <<appVars, dst, sess, inVars, pcP, direct, outVars,
                   streamVars, devVars>>

InAdvanceWithoutRest ==
    /\ pcC = "adv"
    /\ n' = n + 1
    /\ sess' = [sess EXCEPT !.seq = @ + 1, !.submitted = @ + 1]
    /\ pcC' = "loop"
    /\ UNCHANGED <<appVars, reqVars, instance, req, jIn, num_retries, pIn, pcP,
                   direct, outVars, streamVars, devVars>>

\* The tail of the loops.
InAdvance ==
    /\ pcC = "adv"
    /\ n' = n + 1
    /\ LET done == n' = Len(Shape(req).kinds) \/ sess.stop_submitting
           s == [sess EXCEPT !.seq = @ + 1, !.submitted = @ + 1]
       IN  IF Shape(req).op = "comp"
           THEN sess' = s /\ pcC' = IF done THEN "loop" ELSE "buf"
           ELSE /\ sess' = [s EXCEPT !.force_sw = @ /\ ~done]
                /\ pcC' = IF done THEN "loop" ELSE "check"
    /\ UNCHANGED <<appVars, reqVars, instance, req, jIn, num_retries, pIn, pcP,
                   direct, outVars, streamVars, devVars>>

InErrExit ==
    /\ pcC = "err"
    /\ sess' = [sess EXCEPT !.stop_submitting = TRUE]
    /\ pcC' = "recover"
    /\ UNCHANGED <<appVars, reqVars, inVars, pcP, direct, outVars, streamVars,
                   devVars>>

InNext == \/ InStart \/ InCheck \/ InGetBuffer \/ InSetup \/ InSend
          \/ InCleanUp \/ InSWFallback \/ InSWPending \/ InSWDecompress
          \/ InSWProcessed \/ InSWRequest \/ InAdvance \/ InErrExit

-----------------------------------------------------------------------------
(* The polling thread: AsyncCompressOut or AsyncDecompressOut.             *)

OutTest ==
    /\ pcP = "test"
    /\ pcP' = IF ~sess.last_submitted \/ sess.processed < sess.submitted
              THEN "poll" ELSE "ended"
    /\ UNCHANGED <<appVars, reqVars, sess, pcC, inVars, direct, outVars,
                   streamVars, devVars>>

\* dcCallback, run by icp_sal_DcPollInstance for every answer that is there.
OutCallback ==
    /\ pcP = "poll"
    /\ \E a \in hw :
        /\ a.st # "pending"
        /\ hw' = hw \ {a}
        /\ job' = [job EXCEPT ![a.slot] = a]
        /\ cur' = IF InFlight(cur[a.slot])
                  THEN [cur EXCEPT ![a.slot].sink1 = @ + 1] ELSE cur
    /\ UNCHANGED <<appVars, reqVars, sess, pcC, inVars, pcP, direct, outVars,
                   sseq, sreq, heartbeat, dropped>>

OutPolled ==
    /\ pcP = "poll" /\ \A a \in hw : a.st = "pending"
    /\ jOut' = 0
    /\ pcP' = "scan"
    /\ UNCHANGED <<appVars, reqVars, sess, pcC, inVars, direct, reqOut,
                   req_prv, pOut, streamVars, devVars>>

\* A failed poll resets the buffers and ends the thread.
OutPollFail ==
    /\ pcP = "poll" /\ Fault("poll")
    /\ sess' = [sess EXCEPT !.stat = "FAIL", !.stop_submitting = TRUE]
    /\ cur' = [k \in Slots |-> FreeSlot]
    /\ pcP' = "ended" /\ dropped' = TRUE
    /\ UNCHANGED <<appVars, reqVars, pcC, inVars, direct, outVars, sseq, sreq,
                   job, hw, heartbeat>>

ReadyWithoutSeq(k) == Answered(cur[k])
Ready(k) == sseq[k] = sess.seq_in /\ Answered(cur[k])

\* thd_sess_stat asks the polling thread to drop answers.
Failing == sess.stat \in {"FAIL", IF direct = "comp" THEN "BUF_ERROR"
                                  ELSE "DATA_ERROR"}

\* The retrieve loop: the next buffer that holds the answer to seq_in.
OutScan ==
    /\ pcP = "scan"
    /\ \/ /\ \A k \in Slots : k >= jOut => ~Ready(k)
          /\ pcP' = "test"
          /\ UNCHANGED <<jOut, reqOut>>
       \/ \E k \in Slots :
             /\ k >= jOut /\ Ready(k)
             /\ \A m \in Slots : m >= jOut /\ Ready(m) => k <= m
             /\ jOut' = k /\ reqOut' = sreq[k]
             /\ pcP' = IF Failing THEN "failing" ELSE "answer"
    /\ UNCHANGED <<appVars, reqVars, sess, pcC, inVars, direct, req_prv, pOut,
                   streamVars, devVars>>

\* compOutProcessedRespond, decompOutProcessedRespond: the buffer is free and
\* seq_in moves on.  The latter counts the answer only then: processed is
\* read here and written in the next step, see Counted.
Respond(s) ==
    /\ cur' = [cur EXCEPT ![jOut].sink2 = @ + 1]
    /\ sess' = [s EXCEPT !.seq_in = @ + 1,
                         !.processed = IF direct = "comp" THEN @ + 1 ELSE @]
    /\ pOut' = sess.processed
    /\ dropped' = (dropped \/ pcP' # "done")

Counted == [sess EXCEPT !.processed =
              IF direct = "comp" THEN @ ELSE pOut + 1]

\* The answers of the failed request are dropped; the first answer of another
\* request means that all of them have been.
OutFailing ==
    /\ pcP = "failing"
    /\ IF req_prv # Null /\ reqOut # req_prv
       THEN /\ results' = Called(results, req_prv, "FAIL")
            /\ obj' = Freed(obj, req_prv)
            /\ sess' = [sess EXCEPT !.stat = "OK"]
            /\ req_prv' = Null
            /\ pcP' = "answer"
            /\ UNCHANGED <<cur, pOut, dropped>>
       ELSE /\ pcP' = "skip"
            /\ Respond(sess)
            /\ req_prv' = reqOut
            /\ UNCHANGED <<results, obj>>
    /\ UNCHANGED <<appVars, dst, pcC, inVars, direct, jOut, reqOut, sseq, sreq,
                   job, hw, heartbeat>>

\* An answer was dropped.  When every submission is answered, request r is
\* called back.
Dropped(r, status, resume) ==
    LET s == [Counted EXCEPT !.stat = status,
                             !.stop_submitting = @ /\ ~resume]
    IN  IF s.processed = s.submitted
        THEN /\ results' = Called(results, r, "FAIL")
             /\ obj' = Freed(obj, r)
             /\ sess' = [s EXCEPT !.stat = "OK"]
             /\ req_prv' = Null
        ELSE sess' = s /\ UNCHANGED <<results, obj, req_prv>>

OutSkip ==
    /\ pcP = "skip"
    /\ Dropped(req_prv, sess.stat, TRUE)
    /\ jOut' = jOut + 1
    /\ pcP' = "scan"
    /\ UNCHANGED <<appVars, dst, pcC, inVars, direct, reqOut, pOut, streamVars,
                   devVars>>

OutDrop(status) ==
    /\ pcP = IF status = "DATA_ERROR" THEN "bad" ELSE
             IF status = "BUF_ERROR" THEN "short" ELSE "failed"
    /\ Dropped(reqOut, status, FALSE)
    /\ jOut' = jOut + 1
    /\ pcP' = "scan"
    /\ UNCHANGED <<appVars, dst, pcC, inVars, direct, reqOut, pOut, streamVars,
                   devVars>>

\* decompOutCheckSum of a zlib member at the end of its source.
ZlibEnds(s) == [s EXCEPT !.last_submitted = @ \/ load.zlib]

\* The unit is put into the request's destination and counted.
Deliver(r, c) ==
    /\ dst' = Write(dst, r, obj[r].out_len, c)
    /\ obj' = [obj EXCEPT ![r].in_len = @ + 1, ![r].out_len = @ + 1]
    /\ results' = [results EXCEPT ![r].dest_len =
                     IF direct = "decomp" THEN @ - 1 ELSE @]

OutCompAnswer ==
    /\ pcP = "answer" /\ direct = "comp"
    /\ LET a == job[jOut]
       IN  CASE a.st # "ok" ->
                    pcP' = "failed" /\ Respond(sess) /\ UNCHANGED reqVars
             [] /\ a.st = "ok"
                /\ results[reqOut].dest_len - obj[reqOut].out_len < 1 ->
                    pcP' = "short" /\ Respond(sess) /\ UNCHANGED reqVars
             [] OTHER ->
                    /\ Deliver(reqOut, a.c)
                    /\ pcP' = "done" /\ Respond(sess)
    /\ UNCHANGED <<appVars, pcC, inVars, direct, jOut, reqOut, req_prv, sseq,
                   sreq, job, hw, heartbeat>>

\* A failed job is repeated in software from the request's own position.
OutDecompAnswer ==
    /\ pcP = "answer" /\ direct = "decomp"
    /\ LET a  == job[jOut]
           c  == obj[reqOut].in_len + 1
           sw == /\ load.sw_backup /\ c <= Len(Shape(reqOut).kinds)
                 /\ Shape(reqOut).kinds[c] = "ok"
       IN  \/ /\ a.st = "ok"
              /\ Deliver(reqOut, a.c)
              /\ pcP' = "done" /\ Respond(ZlibEnds(sess))
           \/ /\ a.st = "bad"
              /\ pcP' = "bad"
              /\ Respond([ZlibEnds(sess) EXCEPT !.stop_submitting = TRUE])
              /\ dst' = Write(dst, reqOut, obj[reqOut].out_len, -1)
              /\ UNCHANGED <<obj, results>>
           \/ /\ a.st = "err" /\ sw
              /\ Deliver(reqOut, c)
              /\ pcP' = "done" /\ Respond([sess EXCEPT !.force_sw = TRUE])
           \/ /\ a.st = "err" /\ (~sw \/ Fault("sw"))
              /\ pcP' = "failed"
              /\ Respond([sess EXCEPT !.force_sw = @ \/ load.sw_backup])
              /\ UNCHANGED reqVars
    /\ UNCHANGED <<appVars, pcC, inVars, direct, jOut, reqOut, req_prv, sseq,
                   sreq, job, hw, heartbeat>>

OutDoneWithoutPrv ==
    /\ pcP = "done"
    /\ sess' = Counted
    /\ results' = Called([results EXCEPT ![reqOut].dest_len =
                            obj[reqOut].out_len], reqOut, "OK")
    /\ obj' = Freed(obj, reqOut)
    /\ req_prv' = Null
    /\ pcP' = "test"
    /\ UNCHANGED <<appVars, dst, pcC, inVars, direct, jOut, reqOut, pOut,
                   streamVars, devVars>>

\* A request with all its source consumed is called back.
OutDone ==
    /\ pcP = "done"
    /\ sess' = Counted
    /\ IF obj[reqOut].in_len = results[reqOut].src_len
       THEN /\ results' = Called([results EXCEPT ![reqOut].dest_len =
                                    obj[reqOut].out_len], reqOut, "OK")
            /\ obj' = Freed(obj, reqOut)
            /\ req_prv' = Null
       ELSE req_prv' = reqOut /\ UNCHANGED <<results, obj>>
    /\ pcP' = "test"
    /\ UNCHANGED <<appVars, dst, pcC, inVars, direct, jOut, reqOut, pOut,
                   streamVars, devVars>>

OutNext == \/ OutTest \/ OutCallback \/ OutPolled \/ OutPollFail \/ OutScan
           \/ OutFailing \/ OutSkip \/ OutCompAnswer \/ OutDecompAnswer
           \/ (\E s \in {"FAIL", "BUF_ERROR", "DATA_ERROR"} : OutDrop(s))
           \/ OutDone

-----------------------------------------------------------------------------
(* The device.                                                             *)

HwOutcomes(a) ==
    {IF results[a.r].shape.kinds[a.c] = "sum" THEN "bad" ELSE "ok"}
    \cup (IF Fault(IF a.op = "comp" THEN "comp_job" ELSE "decomp_job")
          THEN {"err"} ELSE {})

HwComplete ==
    /\ \E a \in hw, st \in {"ok", "bad", "err"} :
        /\ a.st = "pending" /\ st \in HwOutcomes(a)
        /\ hw' = (hw \ {a}) \cup {[a EXCEPT !.st = st]}
    /\ UNCHANGED <<appVars, reqVars, sess, pcC, inVars, pcP, direct, outVars,
                   streamVars, heartbeat, dropped>>

\* dcEventCallback.
HwEvent ==
    /\ Fault("event") /\ heartbeat /\ instance
    /\ heartbeat' = FALSE
    /\ UNCHANGED <<appVars, reqVars, sess, pcC, inVars, pcP, direct, outVars,
                   streamVars, hw, dropped>>

-----------------------------------------------------------------------------
\* qzSetupAsyncCtrl; async_polling_direct is 0, compression.
Init ==
    /\ load \in Loads
    /\ app = "run" /\ queue = << >> /\ async_ctrl_init = TRUE
    /\ obj = << >> /\ results = << >> /\ dst = << >>
    /\ sess = FreshSess
    /\ pcC = "grab" /\ instance = FALSE /\ req = Null /\ n = 0 /\ jIn = -1
    /\ num_retries = 0 /\ pIn = 0
    /\ pcP = "none" /\ direct = "comp" /\ jOut = 0 /\ reqOut = Null
    /\ req_prv = Null /\ pOut = 0
    /\ cur = [k \in Slots |-> FreeSlot] /\ sseq = [k \in Slots |-> 0]
    /\ sreq = [k \in Slots |-> Null] /\ job = [k \in Slots |-> Null]
    /\ hw = {} /\ heartbeat = TRUE /\ dropped = FALSE

\* The end; after a dropped answer the threads may also wait in vain.
Rest == (app = "gone" \/ dropped) /\ UNCHANGED vars

Next == AppNext \/ ConsumerNext \/ InNext \/ OutNext \/ HwComplete \/ HwEvent
        \/ Rest

Spec == Init /\ [][Next]_vars

\* The two threads are scheduled, the device answers and a successful
\* submission is not refused for ever; nothing makes the application submit
\* or exit, and nothing makes a fault happen.
FairSpec == /\ Spec
            /\ WF_vars(ConsumerNext \/ InNext) /\ WF_vars(OutNext)
            /\ WF_vars(HwComplete) /\ WF_vars(Joined)

-----------------------------------------------------------------------------
(* Properties.                                                             *)

\* The application is called back at most once for a request, whoever finds
\* out that it is complete or has failed: AsyncDeCompressIn, the polling
\* thread (by req or by req_prv) or AsyncReqConsumeJob.  (Here and below: as
\* long as no answer has been dropped.)
CalledBackOnce == dropped \/ \A r \in DOMAIN results : results[r].calls <= 1

\* A request is freed by its callback, and no thread uses it afterwards: not
\* the submitting one, nor the polling one through a stream buffer or through
\* req_prv.
OnlyLiveUsed == dropped \/
    /\ pcC \in {"dir", "switch", "start", "check", "buf", "setup", "send",
                "cleanup", "sw", "swseq", "swdec", "swproc", "swreq",
                "recover", "refuse"} => obj[req].live
    /\ pcP \in {"answer", "done", "failed", "short", "bad"} => obj[reqOut].live
    /\ (pcP = "failing" /\ req_prv # Null) => obj[req_prv].live

\* What the callback says is so: with QZ_OK the destination holds the whole
\* output in order and dest_len is its length, however the request was cut
\* up, mixed with others and done in hardware or software.
CallbackTrue ==
    \A r \in DOMAIN results :
        (results[r].calls > 0 /\ results[r].status = "OK") =>
            LET len == Len(Shape(r).kinds)
            IN  /\ results[r].src_len = len /\ results[r].dest_len = len
                /\ dst[r] = [i \in 1..(len + 1) |-> IF i <= len THEN i ELSE 0]

\* Callbacks come in the order of the submissions.
CalledInOrder ==
    dropped \/ \A r, q \in DOMAIN results :
        (r < q /\ results[q].calls > 0) => results[r].calls > 0

\* Every accepted request is called back, as long as the application lives:
\* there is not for ever one that is not.  (The requests are finitely many.)
EveryCalledBack ==
    (Pending # {}) ~> (Pending = {} \/ app # "run" \/ dropped)

\* The end of the application's thread is never held up: the consumer and the
\* polling thread end.
ShutdownCompletes == (app = "join") ~> (app = "gone" \/ dropped)
=============================================================================
