-------------------------- MODULE QzProcess_proofs --------------------------
(***************************************************************************)
(* Opening the device, the sessions that count on it and the locks and the *)
(* readiness of its instances, for every number of threads, instances and  *)
(* calls.                                                                  *)
(*                                                                         *)
(* The argument.  Only the holder of g_lock changes what qzInit builds, and *)
(* it does so while the status is not OK; once the status is OK it stays   *)
(* OK until the destructor runs, which needs every thread to be outside a  *)
(* call.  So a session that was set up with status OK finds the device     *)
(* open without taking g_lock.  Of an instance only the holder of its lock *)
(* changes more than the heartbeat.                                        *)
(***************************************************************************)
EXTENDS QzProcess, TLAPS

AllParams == {Default} \cup {Params[t] : t \in Threads}

\* Where a thread holds g_lock, and where in it the device is not open.
Building == {"key", "probe", "start", "count", "array", "attach", "stop",
             "status"}
Locked   == Building \cup {"unlock"}

\* Where a thread relies on the device, and where it holds an instance.
Relying == {"hint", "grab", "take", "ready", "use"}
Holding == {"ready", "use"}

Pcs   == {"idle", "init", "lock", "setup", "dispatch"} \cup Locked \cup Relying
Codes == {"OK", "DUPLICATE", "FAIL", "NO_HW", "NOSW_NO_HW", "NOSW_LOW_MEM",
          "NOSW_NO_INST_ATTACH", "NO_INST_ATTACH", "NONE"}
Data  == {Null} \cup {SetupData(p) : p \in AllParams}

GRec == [status : Codes, avail : {"NONE", "TRUE", "FALSE"}, num : Nat,
         array : BOOLEAN, started : BOOLEAN, lock : Threads \cup {Null},
         waiting : BOOLEAN, wait_cnt : Nat, keys : Nat, untried : Nat,
         exited : BOOLEAN]
IRec == [lock : Threads \cup {Null}, heartbeat : BOOLEAN,
         mem_setup : BOOLEAN, cpa_sess_setup : BOOLEAN,
         cpaSess : {"NULL", "raw", "live", "freed"}, data : Data]
SRec == [internal : BOOLEAN, stat : Codes, hint : Int, params : AllParams]
TRec == [pc : Pcs, op : {Null, "init", "setup", "work"}, rc : Codes, i : Int,
         round : Int]

TypeInv == /\ g \in GRec /\ inst \in [Insts -> IRec]
           /\ sess \in [Threads -> SRec] /\ th \in [Threads -> TRec]

\* g_lock, and how far its holder has come.
OpenInv ==
  /\ \A t \in Threads : g.lock = t <=> th[t].pc \in Locked
  /\ \A t \in Threads : th[t].pc \in Building => g.status # "OK"
  /\ \A t \in Threads : th[t].pc \in {"count", "array", "attach"} => g.started
  /\ \A t \in Threads : th[t].pc \in {"array", "attach"} => g.num = NumInst
  /\ \A t \in Threads : th[t].pc = "attach" => g.array
  /\ g.status = "OK" => g.started /\ g.array /\ g.num = NumInst
  /\ g.exited => \A t \in Threads : At(t, "idle")

\* A session that is sent to the hardware.
ForHW(t) == sess[t].internal /\ sess[t].stat \in {"OK", "NO_INST_ATTACH"}

SessInv ==
  /\ \A t \in Threads : ForHW(t) /\ ~g.exited => g.status = "OK"
  /\ \A t \in Threads : th[t].pc \in Relying => ForHW(t)

InstInv ==
  /\ \A t \in Threads : th[t].pc \in {"grab", "take", "ready", "use"} => th[t].i \in Insts
  /\ LocksOwned

ReadyInv ==
  /\ \A i \in Insts : inst[i].cpa_sess_setup /\ ~g.exited =>
                        inst[i].mem_setup /\ inst[i].cpaSess = "live"
  /\ \A t \in Threads : At(t, "use") =>
       /\ inst[th[t].i].cpa_sess_setup
       /\ inst[th[t].i].data = SetupData(sess[t].params)

\* While thread keys last, a pending try is a countdown from some threshold.
WaitInv ==
  g.keys > 0 =>
    IF g.waiting THEN \E p \in AllParams : g.untried + g.wait_cnt = p.wait
                 ELSE g.untried = 0

\* Nobody has tried to start the device and is waiting at the same time.
TryInv == \A t \in Threads : th[t].pc \in {"probe", "start"} => ~g.waiting

PInv == /\ TypeInv /\ OpenInv /\ SessInv /\ InstInv /\ ReadyInv
        /\ WaitInv /\ TryInv

-----------------------------------------------------------------------------
LEMMA InitPInv == Init => PInv
<1> SUFFICES ASSUME Init PROVE PInv
  OBVIOUS
<1> USE ProcessConstants DEF Init, Idle, Fresh, NoSession
<1>1. TypeInv
  BY DEF TypeInv, GRec, IRec, SRec, TRec, Codes, Pcs, AllParams, Data, NoInst
<1>2. OpenInv /\ SessInv /\ TryInv
  BY DEF OpenInv, SessInv, TryInv, Locked, Building, Relying, ForHW, At
<1>3. InstInv /\ ReadyInv
  BY DEF InstInv, LocksOwned, ReadyInv, At
<1>4. WaitInv
  BY DEF WaitInv
<1>5. QED  BY <1>1, <1>2, <1>3, <1>4 DEF PInv

\* A call that relies on the device finds it open.
LEMMA Relied ==
    ASSUME PInv, NEW t \in Threads, th[t].pc \in Relying
    PROVE  /\ ~g.exited /\ g.status = "OK" /\ g.started /\ g.array
           /\ g.num = NumInst /\ ForHW(t)
  BY DEF PInv, OpenInv, SessInv, Relying, At

-----------------------------------------------------------------------------
(* What the ends of a step do to the thread that takes it.                 *)

Others(t) == \A u \in Threads : u # t => th'[u] = th[u]

LEMMA GotoFact ==
    ASSUME TypeInv, NEW t \in Threads, NEW p \in Pcs, Goto(t, p)
    PROVE  /\ th' \in [Threads -> TRec] /\ Others(t)
           /\ th'[t].pc = p /\ th'[t].i = th[t].i
  BY DEF TypeInv, TRec, Goto, Others

LEMMA ReturnFact ==
    ASSUME TypeInv, NEW t \in Threads, NEW c \in Codes, Return(t, c)
    PROVE  th' \in [Threads -> TRec] /\ Others(t) /\ th'[t].pc = "idle"
<1>1. [Idle EXCEPT !.rc = c] \in TRec
  BY DEF Idle, TRec, Pcs, NoInst
<1>2. [Idle EXCEPT !.rc = c].pc = "idle"
  BY DEF Idle
<1>3. QED  BY <1>1, <1>2 DEF TypeInv, Return, Others

LEMMA BackoutFact ==
    ASSUME TypeInv, NEW t \in Threads, NEW c \in Codes, Backout(t, c)
    PROVE  th' \in [Threads -> TRec] /\ Others(t) /\ th'[t].pc = "stop"
  BY ZenonT(40) DEF TypeInv, TRec, Backout, Others, Pcs, Locked, Building

LEMMA EndInitFact ==
    ASSUME TypeInv, NEW t \in Threads, NEW c \in Codes, EndInit(t, c)
    PROVE  /\ th' \in [Threads -> TRec] /\ Others(t)
           /\ th'[t].pc \in {"idle", "dispatch"}
<1>1. CASE Return(t, c)
  BY <1>1, ReturnFact
<1>2. CASE Goto(t, "dispatch")
  BY <1>2, GotoFact, "dispatch" \in Pcs DEF Pcs
<1>3. QED  BY <1>1, <1>2 DEF EndInit

-----------------------------------------------------------------------------
(* Three kinds of steps.                                                   *)

\* A thread that holds neither g_lock nor an instance, before or after.
LEMMA FreeStep ==
    ASSUME PInv, NEW t \in Threads, UNCHANGED <<g, inst>>, ~g.exited,
           th' \in [Threads -> TRec], sess' \in [Threads -> SRec], Others(t),
           \A u \in Threads : u # t => sess'[u] = sess[u],
           th[t].pc \notin Locked \cup Holding,
           th'[t].pc \notin Locked \cup Holding,
           ForHW(t)' => g.status = "OK",
           th'[t].pc \in Relying => ForHW(t)',
           th'[t].pc \in {"grab", "take"} => th'[t].i \in Insts
    PROVE  PInv'
<1>1. TypeInv'
  BY DEF PInv, TypeInv
<1>2. OpenInv'
  BY DEF PInv, OpenInv, Others, Locked, Building
<1>3. SessInv'
  BY DEF PInv, SessInv, Others, ForHW
<1>4. InstInv'
  BY DEF PInv, InstInv, LocksOwned, Others, Holding
<1>5. ReadyInv'
  BY DEF PInv, ReadyInv, Others, Holding, At
<1>6. WaitInv' /\ TryInv'
  BY DEF PInv, WaitInv, TryInv, Others, Locked, Building
<1>7. QED  BY <1>1, <1>2, <1>3, <1>4, <1>5, <1>6 DEF PInv

\* A thread that builds the device up or takes it down, inside g_lock.
LEMMA BuildStep ==
    ASSUME PInv, NEW t \in Threads, th[t].pc \in Building,
           g' \in GRec, g'.lock = g.lock, g'.exited = g.exited,
           UNCHANGED sess, UNCHANGED inst \/ inst' = [i \in Insts |-> Fresh],
           th' \in [Threads -> TRec], Others(t), th'[t].pc \in Locked,
           th'[t].pc \in Building => g'.status # "OK",
           th'[t].pc \in {"count", "array", "attach"} => g'.started,
           th'[t].pc \in {"array", "attach"} => g'.num = NumInst,
           th'[t].pc = "attach" => g'.array,
           g'.status = "OK" => g'.started /\ g'.array /\ g'.num = NumInst,
           th'[t].pc \in {"probe", "start"} => ~g'.waiting,
           WaitInv'
    PROVE  PInv'
<1>1. /\ g.status # "OK" /\ g.lock = t /\ ~g.exited /\ th[t].pc \in Locked
      /\ \A u \in Threads : u # t => th[u].pc \notin Locked
  BY DEF PInv, OpenInv, Locked, Building, At
<1>2. \A u \in Threads : ~ForHW(u) /\ th[u].pc \notin Relying
  BY <1>1 DEF PInv, SessInv
<1>3. TypeInv'
  <2>1. Fresh \in IRec
    BY DEF Fresh, IRec, Data
  <2>2. QED  BY <2>1 DEF PInv, TypeInv
<1>4. OpenInv'
  <2>1. \A u \in Threads : g'.lock = u <=> th'[u].pc \in Locked
    BY <1>1 DEF Others
  <2>2. \A u \in Threads : th'[u].pc \in Building => u = t
    BY <1>1 DEF Others, Locked
  <2>3. "count" \in Building /\ "array" \in Building /\ "attach" \in Building
    BY DEF Building
  <2>4. QED  BY <1>1, <2>1, <2>2, <2>3 DEF OpenInv
<1>5. SessInv'
  <2>1. \A u \in Threads : ~ForHW(u)'
    BY <1>2 DEF ForHW
  <2>2. \A u \in Threads : th'[u].pc \notin Relying
    BY <1>2 DEF Others, Locked, Building, Relying
  <2>3. QED  BY <2>1, <2>2 DEF SessInv
<1>6. \A u \in Threads : th'[u].pc \notin Relying
  BY <1>2 DEF Others, Locked, Building, Relying
<1>7. InstInv'
  <2>1. \A i \in Insts, u \in Threads : inst[i].lock # u
    BY <1>2 DEF PInv, InstInv, LocksOwned, Relying
  <2>2. \A i \in Insts, u \in Threads : inst'[i].lock # u
    BY <2>1, ProcessConstants DEF Fresh
  <2>3. QED  BY <1>6, <2>2 DEF InstInv, LocksOwned, Relying
<1>8. ReadyInv'
  <2>1. \A i \in Insts : inst[i].cpa_sess_setup =>
                           inst[i].mem_setup /\ inst[i].cpaSess = "live"
    BY <1>1 DEF PInv, ReadyInv
  <2>2. \A i \in Insts : inst'[i].cpa_sess_setup =>
                           inst'[i].mem_setup /\ inst'[i].cpaSess = "live"
    BY <2>1 DEF Fresh
  <2>3. QED  BY <1>6, <2>2 DEF ReadyInv, Relying, At
<1>9. TryInv'
  BY <1>1 DEF PInv, TryInv, Others, Locked, Building
<1>10. QED
  BY <1>3, <1>4, <1>5, <1>7, <1>8, <1>9 DEF PInv

\* A thread that looks for an instance or holds one, and changes only that.
LEMMA HoldStep ==
    ASSUME PInv, NEW t \in Threads, th[t].pc \in {"grab", "take", "ready", "use"},
           UNCHANGED g, sess' \in [Threads -> SRec],
           \A u \in Threads : /\ sess'[u].internal = sess[u].internal
                              /\ sess'[u].stat = sess[u].stat
                              /\ sess'[u].params = sess[u].params,
           inst[th[t].i].lock \in {t, Null},
           NEW x \in IRec, inst' = [inst EXCEPT ![th[t].i] = x],
           x.cpa_sess_setup => x.mem_setup /\ x.cpaSess = "live",
           th' \in [Threads -> TRec], Others(t),
           \/ /\ th'[t].pc \in Holding /\ th'[t].i = th[t].i /\ x.lock = t
              /\ th'[t].pc = "use" => /\ x.cpa_sess_setup
                                      /\ x.data = SetupData(sess[t].params)
           \/ th'[t].pc = "idle" /\ x.lock = Null
    PROVE  PInv'
<1>1. /\ ~g.exited /\ g.status = "OK" /\ g.started /\ g.array
      /\ g.num = NumInst /\ ForHW(t)
  BY Relied DEF Relying
<1>2. /\ th[t].i \in Insts
      /\ \A u \in Threads : u # t /\ th[u].pc \in Holding => th[u].i # th[t].i
  BY ProcessConstants DEF PInv, InstInv, LocksOwned, Holding
<1>3. /\ inst'[th[t].i] = x
      /\ \A i \in Insts : i # th[t].i => inst'[i] = inst[i]
  BY <1>2 DEF PInv, TypeInv
<1>4. TypeInv'
  BY <1>2 DEF PInv, TypeInv
<1>5. OpenInv'
  BY <1>1 DEF PInv, OpenInv, Others, Locked, Building, Holding
<1>6. SessInv'
  <2>1. \A u \in Threads : ForHW(u)' <=> ForHW(u)
    BY DEF ForHW
  <2>2. QED  BY <1>1, <2>1 DEF PInv, SessInv, Others, Relying
<1>7. InstInv'
  <2>1. \A u \in Threads :
          th'[u].pc \in {"grab", "take", "ready", "use"} => th'[u].i \in Insts
    BY <1>2 DEF PInv, InstInv, Others, Holding
  <2>2. ASSUME NEW i \in Insts, NEW u \in Threads
        PROVE  inst'[i].lock = u <=> th'[u].pc \in {"ready", "use"} /\ th'[u].i = i
    <3>1. CASE i # th[t].i
      BY <1>3, <3>1 DEF PInv, InstInv, LocksOwned, Others, Holding
    <3>2. CASE i = th[t].i
      BY <1>2, <1>3, <3>2, ProcessConstants DEF Others, Holding
    <3>3. QED  BY <3>1, <3>2
  <2>3. QED  BY <2>1, <2>2 DEF InstInv, LocksOwned
<1>8. ReadyInv'
  <2>1. \A i \in Insts : inst'[i].cpa_sess_setup =>
                           inst'[i].mem_setup /\ inst'[i].cpaSess = "live"
    BY <1>1, <1>3 DEF PInv, ReadyInv
  <2>2. ASSUME NEW u \in Threads, th'[u].pc = "use"
        PROVE  /\ inst'[th'[u].i].cpa_sess_setup
               /\ inst'[th'[u].i].data = SetupData(sess'[u].params)
    <3>1. CASE u = t
      BY <1>3, <2>2, <3>1
    <3>2. CASE u # t
      <4>1. th[u].pc = "use" /\ th'[u] = th[u] /\ th[u].i # th[t].i
        BY <1>2, <2>2, <3>2 DEF Others, Holding
      <4>2. th[u].i \in Insts
        BY <4>1 DEF PInv, InstInv
      <4>3. QED  BY <1>3, <4>1, <4>2 DEF PInv, ReadyInv, At
    <3>3. QED  BY <3>1, <3>2
  <2>3. QED  BY <2>1, <2>2 DEF ReadyInv, At
<1>9. WaitInv' /\ TryInv'
  BY DEF PInv, WaitInv, TryInv, Others, Holding
<1>10. QED
  BY <1>4, <1>5, <1>6, <1>7, <1>8, <1>9 DEF PInv

-----------------------------------------------------------------------------
(* qzInit.                                                                 *)

\* A step of qzInit that only moves the thread.
LEMMA PlainStep ==
    ASSUME PInv, NEW t \in Threads, UNCHANGED <<g, inst, sess>>, ~g.exited,
           th' \in [Threads -> TRec], Others(t),
           th[t].pc \notin Locked \cup Holding,
           th'[t].pc \notin Locked \cup Relying
    PROVE  PInv'
<1>1. ForHW(t)' => g.status = "OK"
  BY DEF PInv, SessInv, ForHW
<1>2. sess' \in [Threads -> SRec] /\ th'[t].pc \notin Holding
  BY DEF PInv, TypeInv, Holding, Relying
<1>3. th'[t].pc \notin {"grab", "take"}
  BY DEF Relying
<1>4. QED  BY <1>1, <1>2, <1>3, FreeStep

LEMMA CallStep ==
    ASSUME PInv, NEW t \in Threads, NEW op \in {"init", "setup", "work"},
           Call(t, op)
    PROVE  PInv'
<1> DEFINE q == IF op = "setup" THEN "setup" ELSE "init"
           r == [Idle EXCEPT !.op = op, !.pc = q]
<1>1. /\ th' \in [Threads -> TRec] /\ Others(t)
      /\ th[t].pc = "idle" /\ th'[t].pc \in {"setup", "init"}
  <2>1. /\ q \in {"setup", "init"} /\ q \in Pcs /\ "OK" \in Codes
        /\ NoInst \in Int
    BY DEF Pcs, Codes, NoInst
  <2>2. th' = [th EXCEPT ![t] = r] /\ th[t].pc = "idle"
    BY DEF Call, At
  <2> HIDE DEF q
  <2>3. Idle \in [pc : {"idle"}, op : {Null}, rc : Codes, i : Int, round : Int]
    BY <2>1 DEF Idle
  <2>4. op \in {Null, "init", "setup", "work"}
    OBVIOUS
  <2>5. r \in TRec /\ r.pc = q
    BY <2>1, <2>3, <2>4 DEF TRec
  <2> HIDE DEF r
  <2>6. QED  BY <2>1, <2>2, <2>5 DEF PInv, TypeInv, Others
<1>2. UNCHANGED <<g, inst, sess>> /\ ~g.exited
  BY DEF Call
<1>3. /\ th[t].pc \notin Locked \cup Holding
      /\ th'[t].pc \notin Locked \cup Relying
  BY <1>1 DEF Locked, Building, Holding, Relying
<1>4. QED  BY <1>1, <1>2, <1>3, PlainStep

LEMMA InitFastStep ==
    ASSUME PInv, NEW t \in Threads, InitFast(t) PROVE PInv'
<1>1. TypeInv /\ th[t].pc = "init" /\ ~g.exited /\ UNCHANGED <<g, inst, sess>>
  BY DEF InitFast, At, PInv, OpenInv
<1>2. /\ th' \in [Threads -> TRec] /\ Others(t)
      /\ th'[t].pc \in {"idle", "dispatch", "lock"}
  <2>1. CASE EndInit(t, "DUPLICATE")
    BY <1>1, <2>1, EndInitFact, "DUPLICATE" \in Codes DEF Codes
  <2>2. CASE Goto(t, "lock")
    BY <1>1, <2>2, GotoFact, "lock" \in Pcs DEF Pcs
  <2>3. QED  BY <2>1, <2>2 DEF InitFast
<1>3. /\ th[t].pc \notin Locked \cup Holding
      /\ th'[t].pc \notin Locked \cup Relying
  BY <1>1, <1>2 DEF Locked, Building, Holding, Relying
<1>4. QED  BY <1>1, <1>2, <1>3, PlainStep

LEMMA InitLockStep ==
    ASSUME PInv, NEW t \in Threads, InitLock(t) PROVE PInv'
<1>1. /\ TypeInv /\ th[t].pc = "lock" /\ ~g.exited /\ UNCHANGED <<inst, sess>>
      /\ g.lock = Null /\ th[t].pc \notin Locked \cup Holding
      /\ g.lock \notin Threads
  BY ProcessConstants
     DEF InitLock, At, PInv, OpenInv, Locked, Building, Holding
<1>2. CASE g.status = "OK"
  <2>1. EndInit(t, "DUPLICATE") /\ UNCHANGED g
    BY <1>2 DEF InitLock
  <2>2. /\ th' \in [Threads -> TRec] /\ Others(t)
        /\ th'[t].pc \in {"idle", "dispatch"}
    BY <1>1, <2>1, EndInitFact, "DUPLICATE" \in Codes DEF Codes
  <2>3. th'[t].pc \notin Locked \cup Relying
    BY <2>2 DEF Locked, Building, Relying
  <2>4. QED  BY <1>1, <2>1, <2>2, <2>3, PlainStep
<1>3. CASE g.status # "OK"
  <2>1. Goto(t, "key") /\ g' = [g EXCEPT !.lock = t]
    BY <1>3 DEF InitLock
  <2>2. /\ th' \in [Threads -> TRec] /\ Others(t) /\ th'[t].pc = "key"
    BY <1>1, <2>1, GotoFact, "key" \in Pcs DEF Pcs, Locked, Building
  <2>3. /\ g' \in GRec /\ g'.lock = t /\ g'.status = g.status
        /\ g'.exited = g.exited /\ g'.keys = g.keys /\ g'.waiting = g.waiting
        /\ g'.wait_cnt = g.wait_cnt /\ g'.untried = g.untried
    BY <1>1, <2>1 DEF TypeInv, GRec
  <2>4. TypeInv'
    BY <1>1, <2>2, <2>3 DEF TypeInv
  <2>5. \A u \in Threads : u # t => th[u].pc \notin Locked
    BY <1>1 DEF PInv, OpenInv
  <2>6. OpenInv'
    BY <1>1, <1>3, <2>2, <2>3, <2>5 DEF OpenInv, Others, Locked, Building
  <2>7. SessInv'
    BY <1>1, <1>3, <2>2, <2>3 DEF PInv, SessInv, ForHW, Others, Relying
  <2>8. InstInv'
    BY <1>1, <2>2 DEF PInv, InstInv, LocksOwned, Others, Holding
  <2>9. ReadyInv'
    BY <1>1, <2>2, <2>3 DEF PInv, ReadyInv, Others, At
  <2>10. WaitInv'
    BY <2>3 DEF PInv, WaitInv
  <2>11. TryInv'
    BY <2>2, <2>5 DEF TryInv, Others, Locked, Building
  <2>12. QED
    BY <2>4, <2>6, <2>7, <2>8, <2>9, <2>10, <2>11 DEF PInv
<1>4. QED  BY <1>2, <1>3

\* What every step of the builder starts from.
LEMMA Builder ==
    ASSUME PInv, NEW t \in Threads, th[t].pc \in Building
    PROVE  /\ TypeInv /\ g \in GRec /\ g.status # "OK" /\ WaitInv
           /\ th[t].pc \in {"count", "array", "attach"} => g.started
           /\ th[t].pc \in {"array", "attach"} => g.num = NumInst
           /\ th[t].pc = "attach" => g.array
           /\ th[t].pc \in {"probe", "start"} => ~g.waiting
           /\ Building \subseteq Locked /\ Locked \subseteq Pcs
  BY DEF PInv, TypeInv, OpenInv, TryInv, Locked, Pcs

LEMMA InitKeyStep ==
    ASSUME PInv, NEW t \in Threads, InitKey(t) PROVE PInv'
<1>1. th[t].pc = "key" /\ th[t].pc \in Building /\ UNCHANGED <<inst, sess>>
  BY DEF InitKey, At, Building
<1>2. /\ TypeInv /\ g.status # "OK" /\ WaitInv /\ "NOSW_NO_HW" \in Codes
      /\ g.untried \in Nat /\ g.wait_cnt \in Nat /\ g.keys \in Nat
      /\ "probe" \in Pcs /\ "probe" \in Locked /\ "stop" \in Locked
  BY <1>1, Builder DEF Codes, Locked, Building, GRec
<1>3. CASE g.keys = 0
  <2>1. Backout(t, "NOSW_NO_HW") /\ g' = [g EXCEPT !.untried = @ + 1]
    BY <1>3 DEF InitKey
  <2>2. /\ g' \in GRec /\ g'.lock = g.lock /\ g'.exited = g.exited
        /\ g'.status = g.status /\ g'.keys = 0
    BY <1>2, <1>3, <2>1 DEF TypeInv, GRec
  <2>3. th' \in [Threads -> TRec] /\ Others(t) /\ th'[t].pc = "stop"
    BY <1>2, <2>1, BackoutFact
  <2>4. WaitInv'
    BY <2>2 DEF WaitInv
  <2>5. QED  BY <1>1, <1>2, <2>2, <2>3, <2>4, BuildStep
<1>4. CASE g.keys # 0 /\ g.waiting /\ g.wait_cnt > 0
  <2>1. /\ Backout(t, "NOSW_NO_HW")
        /\ g' = [g EXCEPT !.keys = @ - 1, !.wait_cnt = @ - 1, !.untried = @ + 1]
    BY <1>4 DEF InitKey
  <2>2. /\ g' \in GRec /\ g'.lock = g.lock /\ g'.exited = g.exited
        /\ g'.status = g.status /\ g'.waiting
        /\ g'.untried + g'.wait_cnt = g.untried + g.wait_cnt
    <3> DEFINE k == g.keys - 1
               w == g.wait_cnt - 1
               n == g.untried + 1
    <3>1. /\ k \in Nat /\ w \in Nat /\ n \in Nat
          /\ n + w = g.untried + g.wait_cnt
      BY <1>2, <1>4
    <3>2. g' = [g EXCEPT !.keys = k, !.wait_cnt = w, !.untried = n]
      BY <2>1
    <3> HIDE DEF k, w, n
    <3>3. QED  BY <1>2, <1>4, <3>1, <3>2 DEF TypeInv, GRec
  <2>3. th' \in [Threads -> TRec] /\ Others(t) /\ th'[t].pc = "stop"
    BY <1>2, <2>1, BackoutFact
  <2>4. WaitInv'
    BY <1>2, <1>4, <2>2 DEF WaitInv
  <2>5. QED  BY <1>1, <1>2, <2>2, <2>3, <2>4, BuildStep
<1>5. CASE g.keys # 0 /\ ~(g.waiting /\ g.wait_cnt > 0)
  <2>1. /\ Goto(t, "probe")
        /\ g' = [g EXCEPT !.keys = @ - 1, !.waiting = FALSE, !.untried = 0]
    BY <1>5 DEF InitKey
  <2>2. /\ g' \in GRec /\ g'.lock = g.lock /\ g'.exited = g.exited
        /\ g'.status = g.status /\ ~g'.waiting /\ g'.untried = 0
    <3> DEFINE k == g.keys - 1
    <3>1. k \in Nat
      BY <1>2, <1>5
    <3>2. g' = [g EXCEPT !.keys = k, !.waiting = FALSE, !.untried = 0]
      BY <2>1
    <3> HIDE DEF k
    <3>3. QED  BY <1>2, <3>1, <3>2 DEF TypeInv, GRec
  <2>3. th' \in [Threads -> TRec] /\ Others(t) /\ th'[t].pc = "probe"
    BY <1>2, <2>1, GotoFact
  <2>4. WaitInv'
    BY <2>2 DEF WaitInv
  <2>5. QED  BY <1>1, <1>2, <2>2, <2>3, <2>4, BuildStep
<1>6. QED  BY <1>3, <1>4, <1>5

\* Where the steps of the builder go, and the codes they return.
LEMMA Places ==
    /\ {"key", "probe", "start", "count", "array", "attach", "stop",
        "status"} = Building
    /\ Building \subseteq Locked /\ "unlock" \in Locked /\ Locked \subseteq Pcs
    /\ "unlock" \notin Building
    /\ {"NOSW_LOW_MEM", "NOSW_NO_INST_ATTACH", "NOSW_NO_HW", "OK", "NO_HW",
        "NONE", "NO_INST_ATTACH"} \subseteq Codes
  BY DEF Building, Locked, Pcs, Codes

\* A step of the builder that leaves the count of attempts alone.
LEMMA SameWait ==
    ASSUME WaitInv, g'.keys = g.keys, g'.waiting = g.waiting,
           g'.wait_cnt = g.wait_cnt, g'.untried = g.untried
    PROVE  WaitInv'
  BY DEF WaitInv

LEMMA InitProbeStep ==
    ASSUME PInv, NEW t \in Threads, InitProbe(t) PROVE PInv'
<1>1. th[t].pc = "probe" /\ th[t].pc \in Building /\ UNCHANGED <<inst, sess>>
  BY DEF InitProbe, At, Building
<1>2. TypeInv /\ g \in GRec /\ g.status # "OK" /\ WaitInv /\ ~g.waiting
  BY <1>1, Builder
<1>3. /\ th' \in [Threads -> TRec] /\ Others(t)
      /\ th'[t].pc \in {"start", "stop"}
  BY <1>2, GotoFact, BackoutFact, Places DEF InitProbe
<1>4. \E a \in {"TRUE", "FALSE"} : g' = [g EXCEPT !.avail = a]
  BY DEF InitProbe
<1>5. /\ g' \in GRec /\ g'.lock = g.lock /\ g'.exited = g.exited
      /\ g'.status = g.status /\ g'.keys = g.keys /\ g'.waiting = g.waiting
      /\ g'.wait_cnt = g.wait_cnt /\ g'.untried = g.untried
  BY <1>2, <1>4 DEF GRec
<1>6. WaitInv'
  BY <1>2, <1>5, SameWait
<1>7. QED  BY <1>1, <1>2, <1>3, <1>5, <1>6, BuildStep, Places

\* The threshold in force is one that some caller configured.
LEMMA ParamsOfFact ==
    ASSUME TypeInv, NEW t \in Threads
    PROVE  ParamsOf(t) \in AllParams /\ ParamsOf(t).wait \in Nat
<1>1. ParamsOf(t) \in AllParams
  BY DEF TypeInv, SRec, ParamsOf, AllParams
<1>2. QED  BY <1>1, ProcessConstants DEF AllParams

LEMMA InitStartStep ==
    ASSUME PInv, NEW t \in Threads, InitStart(t) PROVE PInv'
<1>1. th[t].pc = "start" /\ th[t].pc \in Building /\ UNCHANGED <<inst, sess>>
  BY DEF InitStart, At, Building
<1>2. TypeInv /\ g \in GRec /\ g.status # "OK" /\ WaitInv /\ ~g.waiting
  BY <1>1, Builder
<1>3. CASE /\ Goto(t, "count")
           /\ g' = [g EXCEPT !.started = TRUE, !.status = "NO_INST_ATTACH"]
  <2>1. th' \in [Threads -> TRec] /\ Others(t) /\ th'[t].pc = "count"
    BY <1>2, <1>3, GotoFact, Places
  <2>2. /\ g' \in GRec /\ g'.lock = g.lock /\ g'.exited = g.exited
        /\ g'.status = "NO_INST_ATTACH" /\ g'.started /\ g'.keys = g.keys
        /\ g'.waiting = g.waiting /\ g'.wait_cnt = g.wait_cnt
        /\ g'.untried = g.untried
    BY <1>2, <1>3, Places DEF GRec
  <2>3. WaitInv'
    BY <1>2, <2>2, SameWait
  <2>4. QED  BY <1>1, <1>2, <2>1, <2>2, <2>3, BuildStep, Places
<1>4. CASE /\ Backout(t, "NOSW_NO_HW")
           /\ g' = [g EXCEPT !.waiting = TRUE, !.wait_cnt = ParamsOf(t).wait]
  <2>1. th' \in [Threads -> TRec] /\ Others(t) /\ th'[t].pc = "stop"
    BY <1>2, <1>4, BackoutFact, Places
  <2> DEFINE w == ParamsOf(t).wait
  <2>2. w \in Nat /\ \E p \in AllParams : w = p.wait
    BY <1>2, ParamsOfFact
  <2>3. g' = [g EXCEPT !.waiting = TRUE, !.wait_cnt = w]
    BY <1>4
  <2> HIDE DEF w
  <2>4. /\ g' \in GRec /\ g'.lock = g.lock /\ g'.exited = g.exited
        /\ g'.status = g.status /\ g'.keys = g.keys
        /\ g'.waiting /\ g'.wait_cnt = w /\ g'.untried = g.untried
    BY <1>2, <2>2, <2>3 DEF GRec
  <2>5. WaitInv'
    BY <1>2, <2>2, <2>4 DEF WaitInv
  <2>6. QED  BY <1>1, <1>2, <2>1, <2>4, <2>5, BuildStep, Places
<1>5. QED  BY <1>3, <1>4 DEF InitStart

LEMMA InitCountStep ==
    ASSUME PInv, NEW t \in Threads, InitCount(t) PROVE PInv'
<1>1. th[t].pc = "count" /\ th[t].pc \in Building /\ UNCHANGED <<inst, sess>>
  BY DEF InitCount, At, Building
<1>2. TypeInv /\ g \in GRec /\ g.status # "OK" /\ WaitInv /\ g.started
  BY <1>1, Builder
<1>3. /\ th' \in [Threads -> TRec] /\ Others(t)
      /\ th'[t].pc \in {"array", "stop"}
  BY <1>2, GotoFact, BackoutFact, Places DEF InitCount
<1>4. \/ g' = [g EXCEPT !.num = NumInst]
      \/ g' = g /\ Backout(t, "NOSW_NO_INST_ATTACH")
  BY DEF InitCount
<1>5. /\ g' \in GRec /\ g'.lock = g.lock /\ g'.exited = g.exited
      /\ g'.status = g.status /\ g'.keys = g.keys /\ g'.waiting = g.waiting
      /\ g'.wait_cnt = g.wait_cnt /\ g'.untried = g.untried
      /\ g'.started = g.started
      /\ th'[t].pc = "array" => g'.num = NumInst
  BY <1>2, <1>4, BackoutFact, Places, ProcessConstants DEF GRec
<1>6. WaitInv'
  BY <1>2, <1>5, SameWait
<1>7. QED  BY <1>1, <1>2, <1>3, <1>5, <1>6, BuildStep, Places

LEMMA InitArrayStep ==
    ASSUME PInv, NEW t \in Threads, InitArray(t) PROVE PInv'
<1>1. /\ th[t].pc = "array" /\ th[t].pc \in Building /\ UNCHANGED sess
      /\ inst' = [i \in Insts |-> Fresh]
  BY DEF InitArray, At, Building
<1>2. /\ TypeInv /\ g \in GRec /\ g.status # "OK" /\ WaitInv /\ g.started
      /\ g.num = NumInst
  BY <1>1, Builder
<1>3. CASE Goto(t, "attach") /\ g' = [g EXCEPT !.array = TRUE]
  <2>1. th' \in [Threads -> TRec] /\ Others(t) /\ th'[t].pc = "attach"
    BY <1>2, <1>3, GotoFact, Places
  <2>2. /\ g' \in GRec /\ g'.lock = g.lock /\ g'.exited = g.exited
        /\ g'.status = g.status /\ g'.keys = g.keys /\ g'.waiting = g.waiting
        /\ g'.wait_cnt = g.wait_cnt /\ g'.untried = g.untried
        /\ g'.started /\ g'.array /\ g'.num = NumInst
    BY <1>2, <1>3 DEF GRec
  <2>3. WaitInv'
    BY <1>2, <2>2, SameWait
  <2>4. QED  BY <1>1, <1>2, <2>1, <2>2, <2>3, BuildStep, Places
<1>4. ASSUME NEW hw \in {"NOSW_LOW_MEM", "NOSW_NO_INST_ATTACH", "NOSW_NO_HW"},
             Backout(t, hw), g' = [g EXCEPT !.array = hw # "NOSW_LOW_MEM"]
      PROVE  PInv'
  <2>1. th' \in [Threads -> TRec] /\ Others(t) /\ th'[t].pc = "stop"
    BY <1>2, <1>4, BackoutFact, Places
  <2> DEFINE b == hw # "NOSW_LOW_MEM"
  <2>2. b \in BOOLEAN /\ g' = [g EXCEPT !.array = b]
    BY <1>4
  <2> HIDE DEF b
  <2>3. /\ g' \in GRec /\ g'.lock = g.lock /\ g'.exited = g.exited
        /\ g'.status = g.status /\ g'.keys = g.keys /\ g'.waiting = g.waiting
        /\ g'.wait_cnt = g.wait_cnt /\ g'.untried = g.untried
    BY <1>2, <2>2 DEF GRec
  <2>4. WaitInv'
    BY <1>2, <2>3, SameWait
  <2>5. QED  BY <1>1, <1>2, <2>1, <2>3, <2>4, BuildStep, Places
<1>5. QED  BY <1>3, <1>4 DEF InitArray

LEMMA InitAttachStep ==
    ASSUME PInv, NEW t \in Threads, InitAttach(t) PROVE PInv'
<1>1. th[t].pc = "attach" /\ th[t].pc \in Building /\ UNCHANGED <<inst, sess>>
  BY DEF InitAttach, At, Building
<1>2. /\ TypeInv /\ g \in GRec /\ g.status # "OK" /\ WaitInv /\ g.started
      /\ g.num = NumInst /\ g.array
  BY <1>1, Builder
<1>3. CASE /\ g' = [g EXCEPT !.status = "OK"]
           /\ th' = [th EXCEPT ![t].pc = "unlock", ![t].rc = "OK"]
  <2>1. th' \in [Threads -> TRec] /\ Others(t) /\ th'[t].pc = "unlock"
    BY <1>2, <1>3, Places DEF TypeInv, TRec, Others
  <2>2. /\ g' \in GRec /\ g'.lock = g.lock /\ g'.exited = g.exited
        /\ g'.keys = g.keys /\ g'.waiting = g.waiting
        /\ g'.wait_cnt = g.wait_cnt /\ g'.untried = g.untried
        /\ g'.started /\ g'.array /\ g'.num = NumInst
    BY <1>2, <1>3, Places DEF GRec
  <2>3. WaitInv'
    BY <1>2, <2>2, SameWait
  <2>4. QED  BY <1>1, <1>2, <2>1, <2>2, <2>3, BuildStep, Places
<1>4. CASE Backout(t, "NOSW_NO_INST_ATTACH") /\ UNCHANGED g
  <2>1. th' \in [Threads -> TRec] /\ Others(t) /\ th'[t].pc = "stop"
    BY <1>2, <1>4, BackoutFact, Places
  <2>2. WaitInv'
    BY <1>2, <1>4, SameWait
  <2>3. QED  BY <1>1, <1>2, <1>4, <2>1, <2>2, BuildStep, Places
<1>5. QED  BY <1>3, <1>4 DEF InitAttach

\* stopQat resets the status and touches neither the lock nor the wait.
LEMMA StopFact ==
    ASSUME TypeInv
    PROVE  LET p == StopQat(g)
           IN /\ p \in GRec /\ p.status = "NONE" /\ p.lock = g.lock
              /\ p.exited = g.exited /\ p.keys = g.keys
              /\ p.waiting = g.waiting /\ p.wait_cnt = g.wait_cnt
              /\ p.untried = g.untried
<1> DEFINE held == g.avail # "FALSE" /\ g.status \in {"NO_INST_ATTACH", "OK"}
           a == g.array /\ ~held
           d == g.started /\ ~held
<1>1. a \in BOOLEAN /\ d \in BOOLEAN /\ g \in GRec
  BY DEF TypeInv
<1>2. StopQat(g) = [g EXCEPT !.array = a, !.started = d, !.num = 0,
                             !.status = "NONE", !.avail = "NONE"]
  BY DEF StopQat
<1> DEFINE p == [g EXCEPT !.array = a, !.started = d]
           q == [p EXCEPT !.num = 0]
           r == [q EXCEPT !.status = "NONE", !.avail = "NONE"]
<1> HIDE DEF a, d, held
<1>3. /\ p \in GRec /\ p.lock = g.lock /\ p.exited = g.exited
      /\ p.keys = g.keys /\ p.waiting = g.waiting
      /\ p.wait_cnt = g.wait_cnt /\ p.untried = g.untried
  BY <1>1 DEF GRec
<1>4. StopQat(g) = r
  BY <1>2
<1> HIDE DEF p
<1>5. /\ q \in GRec /\ q.lock = p.lock /\ q.exited = p.exited
      /\ q.keys = p.keys /\ q.waiting = p.waiting
      /\ q.wait_cnt = p.wait_cnt /\ q.untried = p.untried
  BY <1>3 DEF GRec
<1> HIDE DEF q
<1>6. /\ r \in GRec /\ r.status = "NONE" /\ r.lock = q.lock
      /\ r.exited = q.exited /\ r.keys = q.keys /\ r.waiting = q.waiting
      /\ r.wait_cnt = q.wait_cnt /\ r.untried = q.untried
  <2>1. "NONE" \in Codes
    BY DEF Codes
  <2>2. QED  BY <1>5, <2>1 DEF GRec
<1> HIDE DEF r
<1>7. QED  BY <1>3, <1>4, <1>5, <1>6

LEMMA BackoutStopStep ==
    ASSUME PInv, NEW t \in Threads, BackoutStop(t) PROVE PInv'
<1>1. /\ th[t].pc = "stop" /\ th[t].pc \in Building /\ UNCHANGED <<inst, sess>>
      /\ g' = StopQat(g)
  BY DEF BackoutStop, At, Building
<1>2. TypeInv /\ WaitInv
  BY <1>1, Builder
<1>3. th' \in [Threads -> TRec] /\ Others(t) /\ th'[t].pc = "status"
  BY <1>2, GotoFact, Places DEF BackoutStop
<1>4. /\ g' \in GRec /\ g'.lock = g.lock /\ g'.exited = g.exited
      /\ g'.status = "NONE" /\ g'.keys = g.keys /\ g'.waiting = g.waiting
      /\ g'.wait_cnt = g.wait_cnt /\ g'.untried = g.untried
  BY <1>1, <1>2, StopFact
<1>5. WaitInv'
  BY <1>2, <1>4, SameWait
<1>6. QED  BY <1>1, <1>2, <1>3, <1>4, <1>5, BuildStep, Places

LEMMA BackoutStatusStep ==
    ASSUME PInv, NEW t \in Threads, BackoutStatus(t) PROVE PInv'
<1>1. th[t].pc = "status" /\ th[t].pc \in Building /\ UNCHANGED <<inst, sess>>
  BY DEF BackoutStatus, At, Building
<1>2. TypeInv /\ g \in GRec /\ WaitInv
  BY <1>1, Builder
<1>3. th' \in [Threads -> TRec] /\ Others(t) /\ th'[t].pc = "unlock"
  <2>1. CASE th' = [th EXCEPT ![t].pc = "unlock", ![t].rc = "OK"]
    BY <1>2, <2>1, Places DEF TypeInv, TRec, Others
  <2>2. CASE Goto(t, "unlock")
    BY <1>2, <2>2, GotoFact, Places
  <2>3. QED  BY <2>1, <2>2 DEF BackoutStatus
<1>4. \E s \in {"NO_HW", "NOSW_NO_HW"} : g' = [g EXCEPT !.status = s]
  BY DEF BackoutStatus
<1>5. /\ g' \in GRec /\ g'.lock = g.lock /\ g'.exited = g.exited
      /\ g'.status # "OK" /\ g'.keys = g.keys /\ g'.waiting = g.waiting
      /\ g'.wait_cnt = g.wait_cnt /\ g'.untried = g.untried
  BY <1>2, <1>4, Places DEF GRec
<1>6. WaitInv'
  BY <1>2, <1>5, SameWait
<1>7. QED  BY <1>1, <1>2, <1>3, <1>5, <1>6, BuildStep, Places

LEMMA InitUnlockStep ==
    ASSUME PInv, NEW t \in Threads, InitUnlock(t) PROVE PInv'
<1>1. /\ TypeInv /\ th[t].pc = "unlock" /\ th[t].pc \in Locked
      /\ ~g.exited /\ UNCHANGED <<inst, sess>> /\ g' = [g EXCEPT !.lock = Null]
      /\ th[t].rc \in Codes /\ EndInit(t, th[t].rc)
  BY Places DEF InitUnlock, At, PInv, TypeInv, TRec, OpenInv
<1>2. /\ th' \in [Threads -> TRec] /\ Others(t)
      /\ th'[t].pc \in {"idle", "dispatch"}
  BY <1>1, EndInitFact
<1>3. /\ g' \in GRec /\ g'.lock = Null /\ g'.status = g.status
      /\ g'.started = g.started /\ g'.array = g.array /\ g'.num = g.num
      /\ g'.exited = g.exited /\ g'.keys = g.keys /\ g'.waiting = g.waiting
      /\ g'.wait_cnt = g.wait_cnt /\ g'.untried = g.untried
  BY <1>1 DEF TypeInv, GRec
<1>4. /\ \A u \in Threads : th'[u].pc \notin Locked
      /\ \A u \in Threads : g'.lock # u
  <2>1. \A u \in Threads : u # t => th[u].pc \notin Locked
    BY <1>1 DEF PInv, OpenInv
  <2>2. th'[t].pc \notin Locked
    BY <1>2 DEF Locked, Building
  <2>3. QED  BY <1>2, <1>3, <2>1, <2>2, ProcessConstants DEF Others
<1>5. TypeInv'
  BY <1>1, <1>2, <1>3 DEF TypeInv
<1>6. OpenInv'
  <2>1. \A u \in Threads : th'[u].pc \notin Building \cup {"count", "array", "attach"}
    BY <1>4, Places
  <2>2. g'.status = "OK" => g'.started /\ g'.array /\ g'.num = NumInst
    BY <1>3 DEF PInv, OpenInv
  <2>3. QED  BY <1>1, <1>3, <1>4, <2>1, <2>2 DEF OpenInv
<1>7. SessInv'
  BY <1>1, <1>2, <1>3 DEF PInv, SessInv, ForHW, Others, Relying
<1>8. InstInv'
  BY <1>1, <1>2 DEF PInv, InstInv, LocksOwned, Others, Holding
<1>9. ReadyInv'
  BY <1>1, <1>2, <1>3 DEF PInv, ReadyInv, Others, At
<1>10. WaitInv' /\ TryInv'
  BY <1>3, <1>4, Places, SameWait DEF PInv, TryInv
<1>11. QED
  BY <1>5, <1>6, <1>7, <1>8, <1>9, <1>10 DEF PInv

-----------------------------------------------------------------------------
(* Sessions.                                                               *)

\* A session that is set up takes over the status of the process.
LEMMA OpenedFact ==
    ASSUME NEW p \in AllParams
    PROVE  /\ Opened(p) \in SRec
           /\ Opened(p).internal /\ Opened(p).stat \in {"OK", "NO_INST_ATTACH"}
                => g.status = "OK"
<1>1. HwStat(p) \in {"OK", "NO_HW", "NOSW_NO_HW"}
  BY DEF HwStat
<1>2. HwStat(p) = "OK" => g.status = "OK"
  BY DEF HwStat
<1> HIDE DEF HwStat
<1>3. QED  BY <1>1, <1>2 DEF Opened, SRec, Codes, NoInst

LEMMA SetupSessionStep ==
    ASSUME PInv, NEW t \in Threads, SetupSession(t) PROVE PInv'
<1>1. /\ TypeInv /\ th[t].pc = "setup" /\ ~g.exited /\ UNCHANGED <<g, inst>>
  BY DEF SetupSession, At, PInv, OpenInv
<1>2. \E c \in Codes : Return(t, c)
  BY DEF SetupSession, Codes
<1>3. th' \in [Threads -> TRec] /\ Others(t) /\ th'[t].pc = "idle"
  BY <1>1, <1>2, ReturnFact
<1>4. Params[t] \in AllParams
  BY DEF AllParams
<1>5. UNCHANGED sess \/ sess' = [sess EXCEPT ![t] = Opened(Params[t])]
  BY DEF SetupSession
<1>6. /\ sess' \in [Threads -> SRec]
      /\ \A u \in Threads : u # t => sess'[u] = sess[u]
      /\ sess'[t] = sess[t] \/ sess'[t] = Opened(Params[t])
  BY <1>1, <1>4, <1>5, OpenedFact DEF TypeInv
<1>7. ForHW(t)' => g.status = "OK"
  BY <1>1, <1>4, <1>6, OpenedFact DEF ForHW, PInv, SessInv
<1>8. /\ th[t].pc \notin Locked \cup Holding
      /\ th'[t].pc \notin Locked \cup Holding
      /\ th'[t].pc \notin Relying /\ th'[t].pc \notin {"grab", "take"}
  BY <1>1, <1>3 DEF Locked, Building, Holding, Relying
<1>9. QED  BY <1>1, <1>3, <1>6, <1>7, <1>8, FreeStep

LEMMA TeardownSessionStep ==
    ASSUME PInv, NEW t \in Threads, TeardownSession(t) PROVE PInv'
<1>1. /\ TypeInv /\ th[t].pc = "idle" /\ ~g.exited /\ UNCHANGED <<g, inst, th>>
      /\ sess' = [sess EXCEPT ![t] = NoSession]
  BY DEF TeardownSession, At, PInv
<1>2. NoSession \in SRec /\ ~NoSession.internal
  BY DEF NoSession, SRec, AllParams, Codes, NoInst
<1>3. /\ sess' \in [Threads -> SRec] /\ ~sess'[t].internal
      /\ \A u \in Threads : u # t => sess'[u] = sess[u]
      /\ th' \in [Threads -> TRec] /\ Others(t)
  BY <1>1, <1>2 DEF TypeInv, Others
<1>4. /\ th[t].pc \notin Locked \cup Holding
      /\ th'[t].pc \notin Locked \cup Holding
      /\ th'[t].pc \notin Relying /\ th'[t].pc \notin {"grab", "take"}
  BY <1>1 DEF Locked, Building, Holding, Relying
<1>5. ~ForHW(t)'
  BY <1>3 DEF ForHW
<1>6. QED  BY <1>1, <1>3, <1>4, <1>5, FreeStep

LEMMA DispatchStep ==
    ASSUME PInv, NEW t \in Threads, Dispatch(t) PROVE PInv'
<1> DEFINE s == IF sess[t].internal THEN sess[t] ELSE Opened(Default)
<1>1. /\ TypeInv /\ th[t].pc = "dispatch" /\ ~g.exited /\ UNCHANGED <<g, inst>>
      /\ sess' = [sess EXCEPT ![t] = s]
  BY DEF Dispatch, At, PInv, OpenInv
<1>2. Default \in AllParams
  BY DEF AllParams
<1>3. /\ s \in SRec
      /\ s.internal /\ s.stat \in {"OK", "NO_INST_ATTACH"} => g.status = "OK"
  BY <1>1, <1>2, OpenedFact DEF TypeInv, PInv, SessInv, ForHW
<1>4. \/ \E c \in Codes : Return(t, c)
      \/ Goto(t, "hint") /\ s.internal /\ s.stat \in {"OK", "NO_INST_ATTACH"}
  <2>1. s.stat \in Codes /\ "OK" \in Codes /\ "NOSW_NO_HW" \in Codes
    BY <1>3 DEF SRec, Codes
  <2>2. QED  BY <2>1 DEF Dispatch
<1> HIDE DEF s
<1>5. /\ th' \in [Threads -> TRec] /\ Others(t)
      /\ \/ th'[t].pc = "idle"
         \/ /\ th'[t].pc = "hint" /\ s.internal
            /\ s.stat \in {"OK", "NO_INST_ATTACH"}
  BY <1>1, <1>4, ReturnFact, GotoFact, "hint" \in Pcs DEF Pcs, Relying
<1>6. /\ sess' \in [Threads -> SRec] /\ sess'[t] = s
      /\ \A u \in Threads : u # t => sess'[u] = sess[u]
  BY <1>1, <1>3 DEF TypeInv
<1>7. /\ th[t].pc \notin Locked \cup Holding
      /\ th'[t].pc \notin Locked \cup Holding /\ th'[t].pc \notin {"grab", "take"}
      /\ "idle" \notin Relying
  BY <1>1, <1>5 DEF Locked, Building, Holding, Relying
<1>8. /\ ForHW(t)' => g.status = "OK"
      /\ th'[t].pc \in Relying => ForHW(t)'
  BY <1>3, <1>5, <1>6, <1>7 DEF ForHW
<1>9. QED  BY <1>1, <1>5, <1>6, <1>7, <1>8, FreeStep

-----------------------------------------------------------------------------
(* Instances.                                                              *)

LEMMA NoInstanceFact ==
    ASSUME TypeInv, NEW t \in Threads, NoInstance(t)
    PROVE  /\ th' \in [Threads -> TRec] /\ Others(t) /\ th'[t].pc = "idle"
           /\ sess' \in [Threads -> SRec]
           /\ \A u \in Threads : u # t => sess'[u] = sess[u]
<1>1. "OK" \in Codes /\ "NOSW_NO_INST_ATTACH" \in Codes
  BY DEF Codes
<1>2. th' \in [Threads -> TRec] /\ Others(t) /\ th'[t].pc = "idle"
  BY <1>1, ReturnFact DEF NoInstance
<1>3. /\ sess' \in [Threads -> SRec]
      /\ \A u \in Threads : u # t => sess'[u] = sess[u]
  BY DEF NoInstance, TypeInv, SRec, Codes
<1>4. QED  BY <1>2, <1>3

\* A search that goes on or ends without an instance.
LEMMA SearchStep ==
    ASSUME PInv, NEW t \in Threads, th[t].pc \in {"hint", "grab", "take"},
           UNCHANGED <<g, inst>>,
           \/ NoInstance(t)
           \/ /\ UNCHANGED sess /\ th' \in [Threads -> TRec] /\ Others(t)
              /\ th'[t].pc \in {"grab", "take"} /\ th'[t].i \in Insts
    PROVE  PInv'
<1>1. TypeInv /\ ~g.exited /\ g.status = "OK" /\ ForHW(t)
  BY Relied DEF PInv, Relying
<1>2. /\ th' \in [Threads -> TRec] /\ Others(t)
      /\ sess' \in [Threads -> SRec]
      /\ \A u \in Threads : u # t => sess'[u] = sess[u]
      /\ \/ th'[t].pc = "idle"
         \/ /\ UNCHANGED sess
            /\ th'[t].pc \in {"grab", "take"} /\ th'[t].i \in Insts
  BY <1>1, NoInstanceFact DEF TypeInv
<1>3. /\ th[t].pc \notin Locked \cup Holding
      /\ th'[t].pc \notin Locked \cup Holding /\ "idle" \notin Relying
  BY <1>2 DEF Locked, Building, Holding, Relying
<1>4. th'[t].pc \in Relying => ForHW(t)'
  BY <1>1, <1>2, <1>3 DEF ForHW
<1>5. QED  BY <1>1, <1>2, <1>3, <1>4, FreeStep

LEMMA GrabHintStep ==
    ASSUME PInv, NEW t \in Threads, GrabHint(t) PROVE PInv'
<1>1. /\ TypeInv /\ th[t].pc = "hint" /\ UNCHANGED <<g, inst>>
      /\ g.num = NumInst
  BY Relied DEF GrabHint, At, PInv, Relying
<1> DEFINE k == IF sess[t].hint \in 0 .. g.num - 1 THEN sess[t].hint ELSE 0
<1>2. CASE /\ UNCHANGED sess /\ g.num # 0
           /\ th' = [th EXCEPT ![t].pc = "grab", ![t].i = k]
  <2>1. k \in Insts /\ k \in Int
    BY <1>1, <1>2, ProcessConstants DEF Insts
  <2>2. "grab" \in Pcs
    BY DEF Pcs, Relying
  <2> HIDE DEF k
  <2>3. /\ th' \in [Threads -> TRec] /\ Others(t)
        /\ th'[t].pc = "grab" /\ th'[t].i = k
    BY <1>1, <1>2, <2>1, <2>2 DEF TypeInv, TRec, Others
  <2>4. QED  BY <1>1, <1>2, <2>1, <2>3, SearchStep
<1>3. CASE NoInstance(t)
  BY <1>1, <1>3, SearchStep
<1>4. QED  BY <1>2, <1>3 DEF GrabHint

\* Where the search goes when a probe finds nothing.
LEMMA NextProbeStep ==
    ASSUME PInv, NEW t \in Threads, th[t].pc \in {"grab", "take"},
           UNCHANGED <<g, inst>>, NextProbe(t)
    PROVE  PInv'
<1> DEFINE i == th[t].i
<1>1. /\ TypeInv /\ g.num = NumInst
      /\ i \in Insts /\ i \in Int /\ th[t].round \in Int
  BY Relied DEF PInv, Relying, TypeInv, TRec, InstInv
<1>2. "grab" \in Pcs
  BY DEF Pcs, Relying
<1>3. CASE /\ UNCHANGED sess /\ i + 1 < g.num
           /\ th' = [th EXCEPT ![t].pc = "grab", ![t].i = i + 1]
  <2> DEFINE k == i + 1
  <2>1. /\ k \in Insts /\ k \in Int
        /\ th' = [th EXCEPT ![t].pc = "grab", ![t].i = k]
    BY <1>1, <1>3, ProcessConstants DEF Insts
  <2> HIDE DEF k, i
  <2>2. /\ th' \in [Threads -> TRec] /\ Others(t)
        /\ th'[t].pc = "grab" /\ th'[t].i = k
    BY <1>1, <1>2, <2>1 DEF TypeInv, TRec, Others
  <2>3. QED  BY <1>1, <1>3, <2>1, <2>2, SearchStep
<1>4. CASE /\ UNCHANGED sess
           /\ th' = [th EXCEPT ![t].pc = "grab", ![t].i = 0,
                               ![t].round = @ + 1]
  <2> DEFINE n == th[t].round + 1
             k == 0
  <2>1. /\ k \in Insts /\ k \in Int /\ n \in Int
        /\ th' = [th EXCEPT ![t].pc = "grab", ![t].i = k, ![t].round = n]
    BY <1>1, <1>4, ProcessConstants DEF Insts
  <2> HIDE DEF n, i, k
  <2> DEFINE q == [th[t] EXCEPT !.pc = "grab", !.i = k, !.round = n]
  <2>2. q \in TRec /\ q.pc = "grab" /\ q.i = k
    BY <1>1, <1>2, <2>1 DEF TypeInv, TRec
  <2>3. th' = [th EXCEPT ![t] = q]
    BY <2>1
  <2> HIDE DEF q
  <2>4. /\ th' \in [Threads -> TRec] /\ Others(t)
        /\ th'[t].pc = "grab" /\ th'[t].i = k
    BY <1>1, <2>2, <2>3 DEF TypeInv, Others
  <2>5. QED  BY <1>1, <1>4, <2>1, <2>4, SearchStep
<1>5. CASE NoInstance(t)
  BY <1>1, <1>5, SearchStep
<1>6. QED  BY <1>3, <1>4, <1>5 DEF NextProbe

LEMMA GrabProbeStep ==
    ASSUME PInv, NEW t \in Threads, GrabProbe(t) PROVE PInv'
<1>1. /\ TypeInv /\ th[t].pc = "grab" /\ UNCHANGED <<g, inst>>
      /\ th[t].i \in Insts
  BY DEF GrabProbe, At, PInv, TypeInv, InstInv
<1>2. CASE Goto(t, "take") /\ UNCHANGED sess
  <2>1. /\ th' \in [Threads -> TRec] /\ Others(t)
        /\ th'[t].pc = "take" /\ th'[t].i = th[t].i
    BY <1>1, <1>2, GotoFact, "take" \in Pcs DEF Pcs, Relying
  <2>2. QED  BY <1>1, <1>2, <2>1, SearchStep
<1>3. CASE NextProbe(t)
  BY <1>1, <1>3, NextProbeStep
<1>4. QED  BY <1>2, <1>3 DEF GrabProbe

LEMMA GrabTakeStep ==
    ASSUME PInv, NEW t \in Threads, GrabTake(t) PROVE PInv'
<1> DEFINE i == th[t].i
<1>1. /\ TypeInv /\ th[t].pc = "take" /\ UNCHANGED g /\ i \in Insts
      /\ inst[i] \in IRec
      /\ inst[i].cpa_sess_setup => inst[i].mem_setup /\ inst[i].cpaSess = "live"
  BY Relied DEF GrabTake, At, PInv, Relying, TypeInv, InstInv, ReadyInv
<1>2. CASE /\ inst[i].lock = Null /\ inst' = [inst EXCEPT ![i].lock = t]
           /\ sess' = [sess EXCEPT ![t].hint = i] /\ Goto(t, "ready")
  <2> DEFINE x == [inst[i] EXCEPT !.lock = t]
  <2>1. /\ x \in IRec /\ x.lock = t
        /\ x.cpa_sess_setup => x.mem_setup /\ x.cpaSess = "live"
    BY <1>1 DEF IRec
  <2>2. inst' = [inst EXCEPT ![th[t].i] = x]
    BY <1>2
  <2>3. i \in Int
    BY <1>1 DEF TypeInv, TRec
  <2>4. /\ sess' \in [Threads -> SRec]
        /\ \A u \in Threads : /\ sess'[u].internal = sess[u].internal
                              /\ sess'[u].stat = sess[u].stat
                              /\ sess'[u].params = sess[u].params
    BY <1>1, <1>2, <2>3 DEF TypeInv, SRec
  <2>5. /\ th' \in [Threads -> TRec] /\ Others(t) /\ th'[t].pc = "ready"
        /\ th'[t].i = th[t].i
    BY <1>1, <1>2, GotoFact, "ready" \in Pcs DEF Pcs, Relying
  <2> HIDE DEF x
  <2>6. QED
    BY <1>1, <1>2, <2>1, <2>2, <2>4, <2>5, HoldStep DEF Holding
<1>3. CASE NextProbe(t) /\ UNCHANGED inst
  BY <1>1, <1>3, NextProbeStep
<1>4. QED  BY <1>2, <1>3 DEF GrabTake

\* What a thread that holds an instance starts from.
LEMMA Holder ==
    ASSUME PInv, NEW t \in Threads, th[t].pc \in Holding
    PROVE  LET x == inst[th[t].i]
           IN /\ TypeInv /\ th[t].i \in Insts /\ x \in IRec /\ x.lock = t
              /\ x.cpa_sess_setup => x.mem_setup /\ x.cpaSess = "live"
              /\ SetupData(sess[t].params) \in Data
<1>1. th[t].i \in Insts /\ ~g.exited
  BY Relied DEF PInv, InstInv, Holding, Relying
<1>2. sess[t].params \in AllParams
  BY DEF PInv, TypeInv, SRec
<1>3. QED
  BY <1>1, <1>2 DEF PInv, TypeInv, InstInv, LocksOwned, ReadyInv, Holding, Data

LEMMA GiveUpStep ==
    ASSUME PInv, NEW t \in Threads, th[t].pc \in Holding,
           UNCHANGED <<g, sess>>, NEW y \in IRec, NEW c \in Codes,
           y.cpa_sess_setup => y.mem_setup /\ y.cpaSess = "live",
           GiveUp(t, y, c)
    PROVE  PInv'
<1> DEFINE x == [y EXCEPT !.lock = Null]
<1>1. /\ TypeInv /\ inst[th[t].i].lock = t
      /\ th[t].pc \in {"grab", "take", "ready", "use"}
  BY Holder DEF Holding
<1>2. /\ x \in IRec /\ x.lock = Null
      /\ x.cpa_sess_setup => x.mem_setup /\ x.cpaSess = "live"
  BY DEF IRec
<1>3. inst' = [inst EXCEPT ![th[t].i] = x]
  BY DEF GiveUp
<1>4. th' \in [Threads -> TRec] /\ Others(t) /\ th'[t].pc = "idle"
  BY <1>1, ReturnFact, "OK" \in Codes DEF GiveUp, Codes
<1>5. sess' \in [Threads -> SRec]
  BY <1>1 DEF TypeInv
<1> HIDE DEF x
<1>6. QED  BY <1>1, <1>2, <1>3, <1>4, <1>5, HoldStep

LEMMA UseItStep ==
    ASSUME PInv, NEW t \in Threads, th[t].pc = "ready",
           UNCHANGED <<g, sess>>, NEW y \in IRec, y.lock = t,
           y.cpa_sess_setup, y.mem_setup, y.cpaSess = "live",
           y.data = SetupData(sess[t].params), UseIt(t, y)
    PROVE  PInv'
<1>1. TypeInv /\ inst[th[t].i].lock = t
  BY Holder DEF Holding
<1>2. /\ th' \in [Threads -> TRec] /\ Others(t) /\ th'[t].pc = "use"
      /\ th'[t].i = th[t].i
  BY <1>1, GotoFact, "use" \in Pcs DEF UseIt, Pcs, Relying
<1>3. sess' \in [Threads -> SRec] /\ inst' = [inst EXCEPT ![th[t].i] = y]
  BY <1>1 DEF TypeInv, UseIt
<1>4. QED  BY <1>1, <1>2, <1>3, HoldStep DEF Holding

\* qzSetupHW: wherever it fails, the instance has no device session and no
\* owner; where it succeeds, its session is the caller's.
LEMMA SetupHWStep ==
    ASSUME PInv, NEW t \in Threads, SetupHW(t) PROVE PInv'
<1> DEFINE x == inst[th[t].i]
           m == [x EXCEPT !.mem_setup = TRUE]
           d == SetupData(sess[t].params)
<1>1. /\ th[t].pc = "ready" /\ th[t].pc \in Holding /\ UNCHANGED <<g, sess>>
      /\ ~x.cpa_sess_setup
  BY DEF SetupHW, At, Holding
<1>2. /\ x \in IRec /\ x.lock = t /\ d \in Data
      /\ {"NOSW_LOW_MEM", "FAIL"} \subseteq Codes
  BY <1>1, Holder DEF Codes
<1>3. m \in IRec /\ m.lock = t /\ ~m.cpa_sess_setup /\ m.mem_setup
  BY <1>1, <1>2 DEF IRec
<1>4. \/ GiveUp(t, [x EXCEPT !.mem_setup = FALSE], "NOSW_LOW_MEM")
      \/ GiveUp(t, m, "FAIL")
      \/ GiveUp(t, [m EXCEPT !.cpaSess = "NULL"], "NOSW_LOW_MEM")
      \/ GiveUp(t, [m EXCEPT !.cpaSess = "raw", !.data = d], "FAIL")
      \/ UseIt(t, [m EXCEPT !.cpaSess = "live", !.data = d,
                            !.cpa_sess_setup = TRUE])
  BY DEF SetupHW, GetInstMem
<1> HIDE DEF x, m, d
<1>5. CASE GiveUp(t, [x EXCEPT !.mem_setup = FALSE], "NOSW_LOW_MEM")
  <2> DEFINE y == [x EXCEPT !.mem_setup = FALSE]
  <2>1. y \in IRec /\ ~y.cpa_sess_setup /\ GiveUp(t, y, "NOSW_LOW_MEM")
    BY <1>1, <1>2, <1>5 DEF IRec
  <2> HIDE DEF y
  <2>2. QED  BY <1>1, <1>2, <2>1, GiveUpStep
<1>6. CASE GiveUp(t, m, "FAIL")
  BY <1>1, <1>2, <1>3, <1>6, GiveUpStep
<1>7. CASE GiveUp(t, [m EXCEPT !.cpaSess = "NULL"], "NOSW_LOW_MEM")
  <2> DEFINE y == [m EXCEPT !.cpaSess = "NULL"]
  <2>1. y \in IRec /\ ~y.cpa_sess_setup /\ GiveUp(t, y, "NOSW_LOW_MEM")
    BY <1>3, <1>7 DEF IRec
  <2> HIDE DEF y
  <2>2. QED  BY <1>1, <1>2, <2>1, GiveUpStep
<1>8. CASE GiveUp(t, [m EXCEPT !.cpaSess = "raw", !.data = d], "FAIL")
  <2> DEFINE y == [m EXCEPT !.cpaSess = "raw", !.data = d]
  <2>1. y \in IRec /\ ~y.cpa_sess_setup /\ GiveUp(t, y, "FAIL")
    BY <1>2, <1>3, <1>8 DEF IRec
  <2> HIDE DEF y
  <2>2. QED  BY <1>1, <1>2, <2>1, GiveUpStep
<1>9. CASE UseIt(t, [m EXCEPT !.cpaSess = "live", !.data = d,
                              !.cpa_sess_setup = TRUE])
  <2> DEFINE y == [m EXCEPT !.cpaSess = "live", !.data = d,
                            !.cpa_sess_setup = TRUE]
  <2>1. /\ y \in IRec /\ y.lock = t /\ y.cpa_sess_setup /\ y.mem_setup
        /\ y.cpaSess = "live" /\ y.data = d /\ UseIt(t, y)
    BY <1>2, <1>3, <1>9 DEF IRec
  <2> HIDE DEF y
  <2>2. y.data = SetupData(sess[t].params)
    BY <2>1 DEF d
  <2>3. QED  BY <1>1, <2>1, <2>2, UseItStep
<1>10. QED  BY <1>4, <1>5, <1>6, <1>7, <1>8, <1>9

\* qzUpdateCpaSession: the mark is taken away before the old session is.
LEMMA ReadyInstanceStep ==
    ASSUME PInv, NEW t \in Threads, ReadyInstance(t) PROVE PInv'
<1> DEFINE z == inst[th[t].i]
           x == [z EXCEPT !.cpa_sess_setup = FALSE]
           d == SetupData(sess[t].params)
<1>1. /\ th[t].pc = "ready" /\ th[t].pc \in Holding /\ UNCHANGED <<g, sess>>
      /\ z.cpa_sess_setup
  BY DEF ReadyInstance, At, Holding
<1>2. /\ z \in IRec /\ z.lock = t /\ d \in Data /\ z.mem_setup
      /\ z.cpaSess = "live" /\ {"NOSW_LOW_MEM", "FAIL"} \subseteq Codes
  BY <1>1, Holder DEF Codes
<1>3. x \in IRec /\ x.lock = t /\ ~x.cpa_sess_setup /\ x.mem_setup
  BY <1>2 DEF IRec
<1>4. \/ UseIt(t, z) /\ z.data = d
      \/ GiveUp(t, x, "FAIL")
      \/ GiveUp(t, [x EXCEPT !.cpaSess = "freed"], "FAIL")
      \/ GiveUp(t, [x EXCEPT !.cpaSess = "NULL"], "FAIL")
      \/ UseIt(t, [x EXCEPT !.cpaSess = "live", !.data = d,
                            !.cpa_sess_setup = TRUE])
  BY DEF ReadyInstance, UpdateCpaSession
<1> HIDE DEF z, x
<1>5. CASE UseIt(t, z) /\ z.data = d
  BY <1>1, <1>2, <1>5, UseItStep
<1> HIDE DEF d
<1>6. CASE GiveUp(t, x, "FAIL")
  BY <1>1, <1>2, <1>3, <1>6, GiveUpStep
<1>7. CASE GiveUp(t, [x EXCEPT !.cpaSess = "freed"], "FAIL")
  <2> DEFINE y == [x EXCEPT !.cpaSess = "freed"]
  <2>1. y \in IRec /\ ~y.cpa_sess_setup /\ GiveUp(t, y, "FAIL")
    BY <1>3, <1>7 DEF IRec
  <2> HIDE DEF y
  <2>2. QED  BY <1>1, <1>2, <2>1, GiveUpStep
<1>8. CASE GiveUp(t, [x EXCEPT !.cpaSess = "NULL"], "FAIL")
  <2> DEFINE y == [x EXCEPT !.cpaSess = "NULL"]
  <2>1. y \in IRec /\ ~y.cpa_sess_setup /\ GiveUp(t, y, "FAIL")
    BY <1>3, <1>8 DEF IRec
  <2> HIDE DEF y
  <2>2. QED  BY <1>1, <1>2, <2>1, GiveUpStep
<1>9. CASE UseIt(t, [x EXCEPT !.cpaSess = "live", !.data = d,
                              !.cpa_sess_setup = TRUE])
  <2> DEFINE y == [x EXCEPT !.cpaSess = "live", !.data = d,
                            !.cpa_sess_setup = TRUE]
  <2>1. /\ y \in IRec /\ y.lock = t /\ y.cpa_sess_setup /\ y.mem_setup
        /\ y.cpaSess = "live" /\ y.data = d /\ UseIt(t, y)
    BY <1>2, <1>3, <1>9 DEF IRec
  <2> HIDE DEF y
  <2>2. y.data = SetupData(sess[t].params)
    BY <2>1 DEF d
  <2>3. QED  BY <1>1, <2>1, <2>2, UseItStep
<1>10. QED  BY <1>4, <1>5, <1>6, <1>7, <1>8, <1>9

LEMMA ReleaseStep ==
    ASSUME PInv, NEW t \in Threads, Release(t) PROVE PInv'
<1>1. th[t].pc \in Holding /\ UNCHANGED <<g, sess>>
  BY DEF Release, At, Holding
<1>2. "OK" \in Codes
  BY DEF Codes
<1>3. QED  BY <1>1, <1>2, Holder, GiveUpStep DEF Release

-----------------------------------------------------------------------------
(* The device and the end of the process.                                  *)

LEMMA DeviceEventStep ==
    ASSUME PInv, NEW i \in Insts, DeviceEvent(i) PROVE PInv'
<1> DEFINE x == [inst[i] EXCEPT !.heartbeat = ~@]
<1>1. /\ TypeInv /\ UNCHANGED <<g, sess, th>> /\ inst[i] \in IRec
      /\ inst' = [inst EXCEPT ![i] = x]
  BY DEF DeviceEvent, PInv, TypeInv
<1>2. /\ x \in IRec /\ x.lock = inst[i].lock
      /\ x.cpa_sess_setup = inst[i].cpa_sess_setup /\ x.data = inst[i].data
      /\ x.mem_setup = inst[i].mem_setup /\ x.cpaSess = inst[i].cpaSess
  <2> DEFINE b == ~inst[i].heartbeat
  <2>1. b \in BOOLEAN /\ x = [inst[i] EXCEPT !.heartbeat = b]
    OBVIOUS
  <2> HIDE DEF b
  <2>2. QED  BY <1>1, <2>1 DEF IRec
<1> HIDE DEF x
<1>3. TypeInv'
  BY <1>1, <1>2 DEF TypeInv
<1>4. \A j \in Insts :
        /\ inst'[j].lock = inst[j].lock /\ inst'[j].data = inst[j].data
        /\ inst'[j].cpa_sess_setup = inst[j].cpa_sess_setup
        /\ inst'[j].mem_setup = inst[j].mem_setup
        /\ inst'[j].cpaSess = inst[j].cpaSess
  BY <1>1, <1>2 DEF TypeInv
<1>5. OpenInv' /\ SessInv' /\ WaitInv' /\ TryInv'
  BY <1>1 DEF PInv, OpenInv, SessInv, WaitInv, TryInv, ForHW, At
<1>6. InstInv'
  BY <1>1, <1>4 DEF PInv, InstInv, LocksOwned
<1>7. ReadyInv'
  BY <1>1, <1>4 DEF PInv, ReadyInv, InstInv, At
<1>8. QED  BY <1>3, <1>5, <1>6, <1>7 DEF PInv

LEMMA CleanUpFact ==
    ASSUME NEW x \in IRec, NEW ok \in BOOLEAN
    PROVE  CleanUp(x, ok) \in IRec /\ CleanUp(x, ok).lock = x.lock
<1> DEFINE s == IF x.cpa_sess_setup /\ ok
                THEN [x EXCEPT !.cpaSess = "NULL", !.cpa_sess_setup = FALSE]
                ELSE x
           c == IF s.cpaSess = "NULL" THEN s.cpaSess ELSE "freed"
<1>1. s \in IRec /\ s.lock = x.lock
  BY DEF IRec
<1>2. CleanUp(x, ok) = [s EXCEPT !.cpaSess = c, !.mem_setup = FALSE]
  BY DEF CleanUp
<1>3. c \in {"NULL", "freed"}
  OBVIOUS
<1> HIDE DEF s, c
<1>4. QED  BY <1>1, <1>2, <1>3 DEF IRec

LEMMA ExitStep == ASSUME PInv, Exit PROVE PInv'
<1>1. /\ TypeInv /\ WaitInv /\ UNCHANGED <<sess, th>>
      /\ \A t \in Threads : th[t].pc = "idle"
      /\ g' = [StopQat(g) EXCEPT !.exited = TRUE]
  BY DEF Exit, At, PInv
<1> DEFINE p == StopQat(g)
<1>2. /\ p \in GRec /\ p.status = "NONE" /\ p.lock = g.lock
      /\ p.keys = g.keys /\ p.waiting = g.waiting
      /\ p.wait_cnt = g.wait_cnt /\ p.untried = g.untried
  BY <1>1, StopFact
<1>3. g' = [p EXCEPT !.exited = TRUE]
  BY <1>1
<1> HIDE DEF p
<1>4. /\ g' \in GRec /\ g'.status = "NONE" /\ g'.lock = g.lock /\ g'.exited
      /\ g'.keys = g.keys /\ g'.waiting = g.waiting
      /\ g'.wait_cnt = g.wait_cnt /\ g'.untried = g.untried
  BY <1>2, <1>3 DEF GRec
<1>5. /\ inst' \in [Insts -> IRec]
      /\ \A i \in Insts : inst'[i].lock = inst[i].lock
  <2>1. PICK ok \in BOOLEAN :
          inst' = [i \in Insts |-> IF i < g.num THEN CleanUp(inst[i], ok)
                                                ELSE inst[i]]
    BY DEF Exit
  <2>2. ASSUME NEW i \in Insts
        PROVE  /\ CleanUp(inst[i], ok) \in IRec /\ inst[i] \in IRec
               /\ CleanUp(inst[i], ok).lock = inst[i].lock
    BY <1>1, CleanUpFact DEF TypeInv
  <2>3. QED  BY <2>1, <2>2
<1>6. TypeInv'
  BY <1>1, <1>4, <1>5 DEF TypeInv
<1>7. \A t \in Threads : /\ th'[t].pc = "idle" /\ th[t].pc = "idle"
                         /\ th'[t].pc \notin Locked \cup Relying
  BY <1>1 DEF Locked, Building, Relying
<1>8. OpenInv'
  BY <1>1, <1>4, <1>7, Places DEF PInv, OpenInv, At
<1>9. SessInv'
  BY <1>4, <1>7 DEF SessInv
<1>10. InstInv'
  BY <1>1, <1>5, <1>7 DEF PInv, InstInv, LocksOwned
<1>11. ReadyInv' /\ TryInv'
  BY <1>4, <1>7 DEF ReadyInv, TryInv, At
<1>12. WaitInv'
  BY <1>1, <1>4, SameWait
<1>13. QED
  BY <1>6, <1>8, <1>9, <1>10, <1>11, <1>12 DEF PInv

LEMMA PInvStep == PInv /\ [Next]_vars => PInv'
<1> SUFFICES ASSUME PInv, [Next]_vars PROVE PInv'
  OBVIOUS
<1>1. ASSUME NEW t \in Threads, Step(t) PROVE PInv'
  <2>1. CASE \/ InitFast(t) \/ InitLock(t) \/ InitKey(t) \/ InitProbe(t)
             \/ InitStart(t) \/ InitCount(t) \/ InitArray(t) \/ InitAttach(t)
    BY <2>1, InitFastStep, InitLockStep, InitKeyStep, InitProbeStep,
       InitStartStep, InitCountStep, InitArrayStep, InitAttachStep
  <2>2. CASE \/ BackoutStop(t) \/ BackoutStatus(t) \/ InitUnlock(t)
             \/ SetupSession(t) \/ Dispatch(t)
    BY <2>2, BackoutStopStep, BackoutStatusStep, InitUnlockStep,
       SetupSessionStep, DispatchStep
  <2>3. CASE \/ GrabHint(t) \/ GrabProbe(t) \/ GrabTake(t) \/ SetupHW(t)
             \/ ReadyInstance(t) \/ Release(t)
    BY <2>3, GrabHintStep, GrabProbeStep, GrabTakeStep, SetupHWStep,
       ReadyInstanceStep, ReleaseStep
  <2>4. QED  BY <1>1, <2>1, <2>2, <2>3 DEF Step
<1>2. CASE UNCHANGED vars
  <2>1. UNCHANGED <<g, inst, sess, th>>
    BY <1>2 DEF vars
  <2>2. TypeInv' /\ OpenInv' /\ SessInv'
    BY <2>1 DEF PInv, TypeInv, OpenInv, SessInv, ForHW, At
  <2>3. InstInv' /\ ReadyInv' /\ WaitInv' /\ TryInv'
    BY <2>1 DEF PInv, InstInv, LocksOwned, ReadyInv, WaitInv, TryInv, At
  <2>4. QED  BY <2>2, <2>3 DEF PInv
<1>3. QED
  BY <1>1, <1>2, CallStep, TeardownSessionStep, DeviceEventStep, ExitStep
     DEF Next

\* The inductive invariant behind the theorems that follow.
THEOREM ProcessInvariant == Spec => []PInv
  BY InitPInv, PInvStep, PTL DEF Spec

\* qzGrabInstance's test-and-set and the releases on every path of the set-up:
\* an instance is locked by the one thread that is using it.
THEOREM InstanceLocks == Spec => []LocksOwned
<1>1. PInv => LocksOwned
  BY DEF PInv, InstInv
<1>2. QED  BY <1>1, ProcessInvariant, PTL

\* qzSetupHW and qzUpdateCpaSession: work is only submitted to an instance
\* that has its buffers and a device session made for this caller.
THEOREM InstanceReady == Spec => []UsedReady
<1>1. PInv => UsedReady
  <2> SUFFICES ASSUME PInv, NEW t \in Threads, At(t, "use")
               PROVE  LET x == inst[th[t].i]
                      IN /\ x.mem_setup /\ x.cpa_sess_setup
                         /\ x.cpaSess = "live"
                         /\ x.data = SetupData(sess[t].params)
    BY DEF UsedReady
  <2>1. th[t].pc \in Holding
    BY DEF At, Holding
  <2>2. QED  BY <2>1, Holder DEF PInv, ReadyInv
<1>2. QED  BY <1>1, ProcessInvariant, PTL

\* qzSetupSession, qzGrabInstance and qzInit: whoever reads the instance array
\* without g_lock, because its session was set up for the hardware, finds it
\* complete.
THEOREM DeviceOpen == Spec => []DeviceForSession
<1>1. PInv => DeviceForSession
  BY DEF PInv, DeviceForSession, SessInv, OpenInv, ForHW
<1>2. QED  BY <1>1, ProcessInvariant, PTL

\* wait_cnt_thrshold: after a failed start the device is tried again within a
\* threshold that somebody configured, as long as thread keys are left, one of
\* which every attempt consumes.
THEOREM TriedAgain == Spec => [](g.keys > 0 => RetriedInTime)
<1>1. PInv => (g.keys > 0 => RetriedInTime)
  <2> SUFFICES ASSUME PInv, g.keys > 0
               PROVE  \E p \in AllParams : g.untried <= p.wait
    BY DEF RetriedInTime, AllParams
  <2>1. g.untried \in Nat /\ g.wait_cnt \in Nat
    BY DEF PInv, TypeInv, GRec
  <2>2. CASE g.waiting
    <3>1. PICK p \in AllParams : g.untried + g.wait_cnt = p.wait
      BY <2>2 DEF PInv, WaitInv
    <3>2. g.untried <= p.wait
      BY <2>1, <3>1
    <3>3. QED  BY <3>2
  <2>3. CASE ~g.waiting
    <3>1. g.untried = 0 /\ Default \in AllParams /\ Default.wait \in Nat
      BY <2>3, ProcessConstants DEF PInv, WaitInv, AllParams
    <3>2. QED  BY <3>1
  <2>4. QED  BY <2>2, <2>3
<1>2. QED  BY <1>1, ProcessInvariant, PTL
=============================================================================
