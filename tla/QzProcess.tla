----------------------------- MODULE QzProcess -----------------------------
(***************************************************************************)
(* The process-wide part of QATzip: qzInit opening the device under g_lock *)
(* and giving it up again (BACKOUT, stopQat), the sessions of several      *)
(* application threads, the test-and-set locks of the hardware instances,  *)
(* the set-up of an instance by its first user (qzSetupHW) and its hand-   *)
(* over to a session with other parameters (qzUpdateCpaSession), device    *)
(* events, and the destructor of the library.                              *)
(*                                                                         *)
(* g_lock protects qzInit only.  qzInit's fast path, qzSetupSession, the   *)
(* dispatch of a call and qzGrabInstance all read g_process without it, so *)
(* every write that one of them can see between two others is an action of *)
(* its own.  What is done to an instance by the thread that holds its lock *)
(* is one action, because nobody else reads those fields.                  *)
(*                                                                         *)
(* Compression and decompression have the same prologue; what they do with *)
(* the instance is the subject of QzCompress and QzDecompress and is the   *)
(* single state "use" here.  The consumer thread of the asynchronous API   *)
(* grabs its instance without looking at the session's status, and is not  *)
(* a thread of this model.                                                 *)
(***************************************************************************)
EXTENDS Integers, FiniteSets

CONSTANTS
  Threads,      \* application threads, one session each
  NumInst,      \* instances the driver reports
  Caps,         \* Caps[i]: the capabilities of instance i
  Params,       \* Params[t]: the parameters thread t sets its session up with
  Default,      \* g_sess_params_internal_default
  Keys,         \* pthread keys the process has left
  MaxGrabRetry, \* MAX_GRAB_RETRY
  MaxCalls,     \* bound on the calls of the application
  MaxEvents,    \* bound on the device events
  Null          \* nobody, nothing

ASSUME ProcessConstants ==
  /\ NumInst \in Nat /\ Keys \in Nat
  /\ MaxGrabRetry \in Nat \ {0}
  /\ MaxCalls \in Nat /\ MaxEvents \in Nat
  /\ Null \notin Threads
  /\ Default.wait \in Nat                     \* wait_cnt_thrshold is unsigned
  /\ \A t \in Threads : Params[t].wait \in Nat

Insts == 0 .. NumInst - 1
NoInst == -1

VARIABLES
  g,      \* g_process and the statics of qzInit
  inst,   \* g_process.qz_inst
  sess,   \* sess[t]: the QzSession_T of thread t
  th,     \* th[t]: where thread t is in its call
  calls,  \* calls the application has made
  events  \* device events so far

vars == <<g, inst, sess, th, calls, events>>

(***************************************************************************)
(* Parameters.                                                             *)
(***************************************************************************)

\* qzSetupDcSessionData: what the device session of a QATzip session is.
\* gzip, extended gzip, raw and 4B streams share one device session.
SetupData(p) ==
  CASE p.fmt = "LZ4_FH"  -> [compType |-> "LZ4", checksum |-> "XXHASH32",
                             huffType |-> Null, compLevel |-> p.lvl]
    [] p.fmt = "LZ4S_BK" -> [compType |-> "LZ4S", checksum |-> "XXHASH32",
                             huffType |-> Null, compLevel |-> p.lvl]
    [] OTHER -> [compType |-> "DEFLATE",
                 checksum |-> IF p.fmt = "DEFLATE_ZLIB" THEN "ADLER32" ELSE "CRC32",
                 huffType |-> p.huff, compLevel |-> p.lvl]

\* qzCheckInstCap: what an instance must be capable of to serve a session.
Needs(p) ==
  CASE p.fmt = "LZ4_FH"  -> {"lz4Comp", "lz4Decomp", "xxhash32"}
    [] p.fmt = "LZ4S_BK" -> {"lz4sComp", "xxhash32"}
    [] OTHER -> {"deflateComp", "deflateDecomp", "crc32", "cnv"}
                  \cup (IF p.huff = "dynamic" THEN {"dynamicHuffman"} ELSE {})

CheckInstCap(i, p) == Needs(p) \subseteq Caps[i]

\* The parameters in force for a session: its own, or the defaults before
\* it is set up (getSwBackup, getWaitCnt).
ParamsOf(t) == IF sess[t].internal THEN sess[t].params ELSE Default

(***************************************************************************)
(* Initial state and helpers.                                              *)
(***************************************************************************)

\* What calloc leaves in an instance: free, alive, without memory, without
\* device session.
Fresh == [lock |-> Null, heartbeat |-> TRUE, mem_setup |-> FALSE,
          cpa_sess_setup |-> FALSE, cpaSess |-> "NULL", data |-> Null]

NoSession == [internal |-> FALSE, stat |-> "NONE", hint |-> NoInst, params |-> Default]

Idle == [pc |-> "idle", op |-> Null, rc |-> "OK", i |-> NoInst, round |-> 0]

Init ==
  /\ g = [status |-> "NONE", avail |-> "NONE", num |-> 0, array |-> FALSE,
          started |-> FALSE, lock |-> Null, waiting |-> FALSE, wait_cnt |-> 0,
          keys |-> Keys, untried |-> 0, exited |-> FALSE]
  /\ inst = [i \in Insts |-> Fresh]
  /\ sess = [t \in Threads |-> NoSession]
  /\ th = [t \in Threads |-> Idle]
  /\ calls = 0
  /\ events = 0

At(t, pc) == th[t].pc = pc
Goto(t, pc) == th' = [th EXCEPT ![t].pc = pc]
Return(t, rc) == th' = [th EXCEPT ![t] = [Idle EXCEPT !.rc = rc]]

\* The end of qzInit: a plain qzInit call returns, a compression or
\* decompression call fails on QZ_INIT_FAIL and goes on otherwise.
EndInit(t, rc) ==
  IF th[t].op = "init" \/ rc \notin {"OK", "DUPLICATE"}
    THEN Return(t, rc) ELSE Goto(t, "dispatch")

(***************************************************************************)
(* qzInit.                                                                 *)
(***************************************************************************)

\* A call of the application: qzInit, a session set-up, a compression or
\* decompression, which begins with qzInit.
Call(t, op) ==
  /\ At(t, "idle") /\ calls < MaxCalls /\ ~g.exited
  /\ calls' = calls + 1
  /\ th' = [th EXCEPT ![t] = [Idle EXCEPT !.op = op,
                               !.pc = IF op = "setup" THEN "setup" ELSE "init"]]
  /\ UNCHANGED <<g, inst, sess, events>>

\* The fast path, without the lock.
InitFast(t) ==
  /\ At(t, "init")
  /\ IF g.avail = "FALSE" \/ g.status = "OK" THEN EndInit(t, "DUPLICATE") ELSE Goto(t, "lock")
  /\ UNCHANGED <<g, inst, sess, calls, events>>

\* pthread_mutex_lock; somebody else may have opened the device meanwhile.
InitLock(t) ==
  /\ At(t, "lock") /\ g.lock = Null
  /\ IF g.status = "OK" THEN EndInit(t, "DUPLICATE") /\ UNCHANGED g
                        ELSE Goto(t, "key") /\ g' = [g EXCEPT !.lock = t]
  /\ UNCHANGED <<inst, sess, calls, events>>

Backout(t, hw) == th' = [th EXCEPT ![t].pc = "stop", ![t].rc = hw]

\* Not used by any specification: the wait that does not look at its count.
InitKeyWithoutGuard(t) ==
  /\ At(t, "key")
  /\ IF g.keys = 0
       THEN Backout(t, "NOSW_NO_HW") /\ g' = [g EXCEPT !.untried = @ + 1]
     ELSE IF g.waiting
       THEN /\ Backout(t, "NOSW_NO_HW")
            /\ g' = [g EXCEPT !.keys = @ - 1, !.wait_cnt = @ - 1, !.untried = @ + 1]
     ELSE /\ Goto(t, "probe")
          /\ g' = [g EXCEPT !.keys = @ - 1, !.waiting = FALSE, !.untried = 0]
  /\ UNCHANGED <<inst, sess, calls, events>>

\* A new thread key at every attempt, then the calls to wait for before the
\* device is tried again.  untried counts the attempts since the last try.
InitKey(t) ==
  /\ At(t, "key")
  /\ IF g.keys = 0
       THEN Backout(t, "NOSW_NO_HW") /\ g' = [g EXCEPT !.untried = @ + 1]
     ELSE IF g.waiting /\ g.wait_cnt > 0
       THEN /\ Backout(t, "NOSW_NO_HW")
            /\ g' = [g EXCEPT !.keys = @ - 1, !.wait_cnt = @ - 1, !.untried = @ + 1]
     ELSE /\ Goto(t, "probe")
          /\ g' = [g EXCEPT !.keys = @ - 1, !.waiting = FALSE, !.untried = 0]
  /\ UNCHANGED <<inst, sess, calls, events>>

\* icp_sal_userIsQatAvailable / icp_adf_get_numDevices.
InitProbe(t) ==
  /\ At(t, "probe")
  /\ \/ Goto(t, "start") /\ g' = [g EXCEPT !.avail = "TRUE"]
     \/ Backout(t, "NOSW_NO_HW") /\ g' = [g EXCEPT !.avail = "FALSE"]
  /\ UNCHANGED <<inst, sess, calls, events>>

\* icp_sal_userStartMultiProcess.  After a failure the next wait_cnt calls
\* do not try again.
InitStart(t) ==
  /\ At(t, "start")
  /\ \/ /\ Goto(t, "count")
        /\ g' = [g EXCEPT !.started = TRUE, !.status = "NO_INST_ATTACH"]
     \/ /\ Backout(t, "NOSW_NO_HW")
        /\ g' = [g EXCEPT !.waiting = TRUE, !.wait_cnt = ParamsOf(t).wait]
  /\ UNCHANGED <<inst, sess, calls, events>>

\* cpaDcGetNumInstances writes num_instances straight into g_process.
InitCount(t) ==
  /\ At(t, "count")
  /\ \/ Goto(t, "array") /\ g' = [g EXCEPT !.num = NumInst]
     \/ Backout(t, "NOSW_NO_INST_ATTACH") /\ UNCHANGED g
  /\ UNCHANGED <<inst, sess, calls, events>>

\* The instance array is allocated, the handles are read and shuffled over
\* the devices; a failure of any of these gives the device up.
InitArray(t) ==
  /\ At(t, "array")
  /\ \/ Goto(t, "attach") /\ g' = [g EXCEPT !.array = TRUE]
     \/ \E hw \in {"NOSW_LOW_MEM", "NOSW_NO_INST_ATTACH", "NOSW_NO_HW"} :
          Backout(t, hw) /\ g' = [g EXCEPT !.array = hw # "NOSW_LOW_MEM"]
  /\ inst' = [i \in Insts |-> Fresh]
  /\ UNCHANGED <<sess, calls, events>>

\* The event callbacks are registered, the heartbeat thread started (its
\* failure is only a warning) and the status published.
InitAttach(t) ==
  /\ At(t, "attach")
  /\ \/ /\ g' = [g EXCEPT !.status = "OK"]
        /\ th' = [th EXCEPT ![t].pc = "unlock", ![t].rc = "OK"]
     \/ Backout(t, "NOSW_NO_INST_ATTACH") /\ UNCHANGED g
  /\ UNCHANGED <<inst, sess, calls, events>>

\* stopQat, as BACKOUT calls it: the array is freed and the device closed
\* only if it was started, and everything is reset.
StopQat(p) ==
  LET held == p.avail # "FALSE" /\ p.status \in {"NO_INST_ATTACH", "OK"}
  IN [p EXCEPT !.array = @ /\ ~held, !.started = @ /\ ~held,
               !.num = 0, !.status = "NONE", !.avail = "NONE"]

BackoutStop(t) ==
  /\ At(t, "stop")
  /\ g' = StopQat(g)
  /\ Goto(t, "status")
  /\ UNCHANGED <<inst, sess, calls, events>>

\* With software backup a call without hardware is still a success.
BackoutStatus(t) ==
  /\ At(t, "status")
  /\ IF ParamsOf(t).sw_backup
       THEN /\ g' = [g EXCEPT !.status = "NO_HW"]
            /\ th' = [th EXCEPT ![t].pc = "unlock", ![t].rc = "OK"]
       ELSE g' = [g EXCEPT !.status = "NOSW_NO_HW"] /\ Goto(t, "unlock")
  /\ UNCHANGED <<inst, sess, calls, events>>

\* Not used by any specification: the exit that keeps g_lock.
InitUnlockWithoutUnlock(t) ==
  /\ At(t, "unlock")
  /\ EndInit(t, th[t].rc)
  /\ UNCHANGED <<g, inst, sess, calls, events>>

InitUnlock(t) ==
  /\ At(t, "unlock")
  /\ g' = [g EXCEPT !.lock = Null]
  /\ EndInit(t, th[t].rc)
  /\ UNCHANGED <<inst, sess, calls, events>>

(***************************************************************************)
(* Sessions.                                                               *)
(***************************************************************************)

\* Not used by any specification: a session set up while the device is
\* being opened that counts on the opening to succeed.
HwStatWithoutPublish(p) ==
  IF g.status \in {"OK", "NO_INST_ATTACH"} THEN "OK"
  ELSE IF p.sw_backup THEN "NO_HW" ELSE "NOSW_NO_HW"

\* qzSetupSessionInternal: the status of the session is the status of the
\* process at this moment, and the session keeps it.
HwStat(p) ==
  IF g.status = "OK" THEN "OK" ELSE IF p.sw_backup THEN "NO_HW" ELSE "NOSW_NO_HW"

Opened(p) == [internal |-> HwStat(p) # "NOSW_NO_HW", stat |-> HwStat(p),
              hint |-> NoInst, params |-> p]

\* qzSetupSession and its variants, called by the application.
SetupSession(t) ==
  /\ At(t, "setup")
  /\ IF sess[t].internal
       THEN Return(t, "DUPLICATE") /\ UNCHANGED sess
       ELSE /\ sess' = [sess EXCEPT ![t] = Opened(Params[t])]
            /\ Return(t, IF sess'[t].internal THEN "OK" ELSE "NOSW_NO_HW")
  /\ UNCHANGED <<g, inst, calls, events>>

\* qzTeardownSession.
TeardownSession(t) ==
  /\ At(t, "idle") /\ sess[t].internal /\ calls < MaxCalls /\ ~g.exited
  /\ calls' = calls + 1
  /\ sess' = [sess EXCEPT ![t] = NoSession]
  /\ UNCHANGED <<g, inst, th, events>>

\* A call with no session sets one up with the default parameters; one with
\* a session, or with the one just made, is sent to software, refused or
\* sent to the hardware.  A short source goes to software whatever the rest.
Dispatch(t) ==
  /\ At(t, "dispatch")
  /\ LET s == IF sess[t].internal THEN sess[t] ELSE Opened(Default)
     IN /\ sess' = [sess EXCEPT ![t] = s]
        /\ \/ Return(t, "OK") /\ s.internal
           \/ /\ IF ~s.internal THEN Return(t, "NOSW_NO_HW")
                 ELSE IF g.status = "NO_HW" \/ s.stat = "NO_HW" THEN Return(t, "OK")
                 ELSE IF s.stat \notin {"OK", "NO_INST_ATTACH"} THEN Return(t, s.stat)
                 ELSE Goto(t, "hint")
  /\ UNCHANGED <<g, inst, calls, events>>

(***************************************************************************)
(* Instances.                                                              *)
(***************************************************************************)

\* A call that has no instance: software, or an error that leaves the
\* session open for another try.
NoInstance(t) ==
  IF sess[t].params.sw_backup
    THEN Return(t, "OK") /\ UNCHANGED sess
    ELSE /\ Return(t, "NOSW_NO_INST_ATTACH")
         /\ sess' = [sess EXCEPT ![t].stat = "NO_INST_ATTACH"]

\* The head of qzGrabInstance.
GrabHint(t) ==
  /\ At(t, "hint")
  /\ IF g.status = "NONE" \/ g.num = 0 THEN NoInstance(t)
     ELSE /\ th' = [th EXCEPT ![t].pc = "grab",
                              ![t].i = IF sess[t].hint \in 0 .. g.num - 1 THEN sess[t].hint ELSE 0]
          /\ UNCHANGED sess
  /\ UNCHANGED <<g, inst, calls, events>>

\* The next probe of qzGrabInstance.  The first pass starts at the hint, the
\* later ones at 0, MAX_GRAB_RETRY passes in all.
NextProbe(t) ==
  LET i == th[t].i
  IN IF i + 1 < g.num
       THEN th' = [th EXCEPT ![t].pc = "grab", ![t].i = i + 1] /\ UNCHANGED sess
     ELSE IF th[t].round + 1 < MaxGrabRetry
       THEN th' = [th EXCEPT ![t].pc = "grab", ![t].i = 0, ![t].round = @ + 1] /\ UNCHANGED sess
     ELSE NoInstance(t)

\* One probe: the capabilities and the heartbeat are read without the lock.
GrabProbe(t) ==
  /\ At(t, "grab")
  /\ IF CheckInstCap(th[t].i, sess[t].params) /\ inst[th[t].i].heartbeat
       THEN Goto(t, "take") /\ UNCHANGED sess
       ELSE NextProbe(t)
  /\ UNCHANGED <<g, inst, calls, events>>

\* The test-and-set, on an instance that may have been lost since.
GrabTake(t) ==
  LET i == th[t].i
  IN /\ At(t, "take")
     /\ IF inst[i].lock = Null
          THEN /\ inst' = [inst EXCEPT ![i].lock = t]
               /\ sess' = [sess EXCEPT ![t].hint = i]
               /\ Goto(t, "ready")
          ELSE NextProbe(t) /\ UNCHANGED inst
     /\ UNCHANGED <<g, calls, events>>

\* Not used by any specification: the error path that forgets the lock when
\* the call goes on in software.
GiveUpWithoutRelease(t, x, rc) ==
  /\ inst' = [inst EXCEPT ![th[t].i] =
       IF rc # "OK" /\ sess[t].params.sw_backup THEN x ELSE [x EXCEPT !.lock = Null]]
  /\ Return(t, IF sess[t].params.sw_backup THEN "OK" ELSE rc)

\* The instance is released and the call continued in software or failed.
GiveUp(t, x, rc) ==
  /\ inst' = [inst EXCEPT ![th[t].i] = [x EXCEPT !.lock = Null]]
  /\ Return(t, IF sess[t].params.sw_backup THEN "OK" ELSE rc)

UseIt(t, x) == inst' = [inst EXCEPT ![th[t].i] = x] /\ Goto(t, "use")

\* getInstMem: all the buffers of the instance and its start, or nothing.
\* Two of its tests look at the wrong pointer (qatzip.c:1056, 1085): when that
\* buffer cannot be had the process dies on a null pointer, and no step is
\* left to model; the other failures are the clean ones below.
GetInstMem(x, ok) == [x EXCEPT !.mem_setup = ok]

\* qzSetupHW: memory once per instance, then a device session.  A session
\* that is not initialised is kept in cpaSess, and not used because
\* cpa_sess_setup stays 0.  An instance without memory has no session either:
\* only the destructor takes the memory back.
SetupHW(t) ==
  LET x == inst[th[t].i]
      m == GetInstMem(x, TRUE)
      d == SetupData(sess[t].params)
  IN /\ At(t, "ready") /\ ~x.cpa_sess_setup
     /\ \/ ~x.mem_setup /\ GiveUp(t, GetInstMem(x, FALSE), "NOSW_LOW_MEM")
        \/ GiveUp(t, m, "FAIL")                                  \* cpaDcGetSessionSize
        \/ GiveUp(t, [m EXCEPT !.cpaSess = "NULL"], "NOSW_LOW_MEM")
        \/ GiveUp(t, [m EXCEPT !.cpaSess = "raw", !.data = d], "FAIL")
        \/ UseIt(t, [m EXCEPT !.cpaSess = "live", !.data = d, !.cpa_sess_setup = TRUE])
     /\ UNCHANGED <<g, sess, calls, events>>

\* Not used by any specification: the update that clears cpa_sess_setup
\* only once the old session is gone and the new one refused by the device.
UpdateCpaSessionWithoutMark(t) ==
  LET x == inst[th[t].i]
      d == SetupData(sess[t].params)
  IN \/ GiveUp(t, x, "FAIL")
     \/ GiveUp(t, [x EXCEPT !.cpaSess = "freed"], "FAIL")
     \/ GiveUp(t, [x EXCEPT !.cpaSess = "NULL", !.cpa_sess_setup = FALSE], "FAIL")
     \/ UseIt(t, [x EXCEPT !.cpaSess = "live", !.data = d, !.cpa_sess_setup = TRUE])

\* qzUpdateCpaSession, step by step: the old session is removed and freed
\* before the new one is made, and each of these may fail.  A session that is
\* not initialised is given to plain free() (qatzip.c:1466) though it came from
\* qzMalloc; what that does to the allocator is outside this module, which
\* follows the pointer only.
UpdateCpaSession(t) ==
  LET x == [inst[th[t].i] EXCEPT !.cpa_sess_setup = FALSE]
      d == SetupData(sess[t].params)
  IN \/ GiveUp(t, x, "FAIL")                                        \* cpaDcRemoveSession
     \/ GiveUp(t, [x EXCEPT !.cpaSess = "freed"], "FAIL")           \* cpaDcGetSessionSize
     \/ GiveUp(t, [x EXCEPT !.cpaSess = "NULL"], "FAIL")            \* qzMalloc, cpaDcInitSession
     \/ UseIt(t, [x EXCEPT !.cpaSess = "live", !.data = d, !.cpa_sess_setup = TRUE])

ReadyInstance(t) ==
  /\ At(t, "ready") /\ inst[th[t].i].cpa_sess_setup
  /\ IF inst[th[t].i].data = SetupData(sess[t].params)
       THEN UseIt(t, inst[th[t].i]) ELSE UpdateCpaSession(t)
  /\ UNCHANGED <<g, sess, calls, events>>

\* The work is done: qzReleaseInstance.
Release(t) ==
  /\ At(t, "use")
  /\ GiveUp(t, inst[th[t].i], "OK")
  /\ UNCHANGED <<g, sess, calls, events>>

\* dcEventCallback: a device is lost and comes back.
DeviceEvent(i) ==
  /\ g.status = "OK" /\ events < MaxEvents
  /\ inst' = [inst EXCEPT ![i].heartbeat = ~@]
  /\ events' = events + 1
  /\ UNCHANGED <<g, sess, th, calls>>

\* removeSession and cleanUpInstMem for one instance, at exit.  A session
\* the device refuses to remove stays allocated in its list, and its memory
\* is freed all the same.
CleanUp(x, removed) ==
  LET s == IF x.cpa_sess_setup /\ removed
             THEN [x EXCEPT !.cpaSess = "NULL", !.cpa_sess_setup = FALSE] ELSE x
  IN [s EXCEPT !.cpaSess = IF @ = "NULL" THEN @ ELSE "freed", !.mem_setup = FALSE]

\* exitFunc, the library's destructor, when every thread is done.
Exit ==
  /\ ~g.exited /\ \A t \in Threads : At(t, "idle")
  /\ \E ok \in BOOLEAN : inst' = [i \in Insts |-> IF i < g.num THEN CleanUp(inst[i], ok) ELSE inst[i]]
  /\ g' = [StopQat(g) EXCEPT !.exited = TRUE]
  /\ UNCHANGED <<sess, th, calls, events>>

(***************************************************************************)
(* Specification.                                                          *)
(***************************************************************************)

Step(t) ==
  \/ InitFast(t) \/ InitLock(t) \/ InitKey(t) \/ InitProbe(t) \/ InitStart(t)
  \/ InitCount(t) \/ InitArray(t) \/ InitAttach(t)
  \/ BackoutStop(t) \/ BackoutStatus(t) \/ InitUnlock(t)
  \/ SetupSession(t) \/ Dispatch(t)
  \/ GrabHint(t) \/ GrabProbe(t) \/ GrabTake(t)
  \/ SetupHW(t) \/ ReadyInstance(t) \/ Release(t)

Next ==
  \/ \E t \in Threads : \/ \E op \in {"init", "setup", "work"} : Call(t, op)
                        \/ TeardownSession(t)
                        \/ Step(t)
  \/ \E i \in Insts : DeviceEvent(i)
  \/ Exit

Spec == Init /\ [][Next]_vars

\* A thread that is inside a call keeps running.  Nobody is forced to make
\* a call, to tear a session down or to exit, and no device event must come.
FairSpec == Spec /\ \A t \in Threads : WF_vars(Step(t))

(***************************************************************************)
(* Properties.                                                             *)
(***************************************************************************)

\* The lock of an instance is held by exactly the thread that is between
\* qzGrabInstance and qzReleaseInstance on it: two calls never share an
\* instance, and no error path of the set-up forgets to release one.
LocksOwned ==
  \A i \in Insts, t \in Threads :
    inst[i].lock = t <=> th[t].pc \in {"ready", "use"} /\ th[t].i = i

\* A call that uses an instance finds its buffers allocated and a device
\* session that is alive and was made from this session's own parameters,
\* whoever used the instance before and wherever an earlier set-up or
\* hand-over of it failed.
UsedReady ==
  \A t \in Threads : At(t, "use") =>
    LET x == inst[th[t].i]
    IN x.mem_setup /\ x.cpa_sess_setup /\ x.cpaSess = "live" /\ x.data = SetupData(sess[t].params)

\* A session that is sent to the hardware finds the device open and the
\* instance array complete.  The calls look at num_instances and qz_inst
\* without g_lock while qzInit of another thread may be building them or
\* tearing them down again.
DeviceForSession ==
  \A t \in Threads : sess[t].internal /\ sess[t].stat \in {"OK", "NO_INST_ATTACH"} /\ ~g.exited =>
    g.status = "OK" /\ g.started /\ g.array /\ g.num = NumInst

\* After a failed start of the device at most wait_cnt_thrshold attempts to
\* initialise go by without a new try.
RetriedInTime ==
  \A n \in {g.untried} : \E p \in {Default} \cup {Params[t] : t \in Threads} : n <= p.wait

\* Every call returns: qzInit, the search for an instance and the set-up of
\* one end whatever the device does and whoever competes for g_lock.
CallReturns == \A t \in Threads : ~At(t, "idle") ~> At(t, "idle")
=============================================================================
