---------------------------- MODULE QzAsync_proofs ----------------------------
(***************************************************************************)
(* Theorems about the asynchronous API (module QzAsync).                   *)
(***************************************************************************)
EXTENDS QzAsync, FiniteSetTheorems, TLAPS

-----------------------------------------------------------------------------
(* The invariant.                                                          *)

\* What the theorems ask of the application and its world: members with a
\* header that fit the device and the destination, and nothing that makes the
\* consumer decompress in software or give a request up.  Jobs and polls may
\* fail, checksums be wrong and the destinations of compression too short.
Offloaded ==
    \A l \in Loads :
        /\ l.faults \subseteq {"grab", "comp_job", "decomp_job", "poll", "sw"}
        /\ "decomp_job" \in l.faults => ~l.sw_backup
        /\ ~l.zlib
        /\ \A s \in l.shapes :
              s.op = "decomp" =>
                  /\ Len(s.kinds) <= s.room
                  /\ \A i \in 1..Len(s.kinds) : s.kinds[i] \in {"ok", "sum"}

Shapes == [op : {"comp", "decomp"}, kinds : Seq(Kinds) \ {<< >>}, room : Nat]
Results == [shape : Shapes, status : {"OK", "FAIL"}, src_len : Nat,
            dest_len : Int, calls : Nat]
Objects == [live : BOOLEAN, in_len : Nat, out_len : Nat]
Sessions == [seq : Nat, seq_in : Nat, submitted : Nat, processed : Nat,
             last_submitted : BOOLEAN, stop_submitting : BOOLEAN,
             stat : {"OK", "FAIL", "BUF_ERROR", "DATA_ERROR"},
             force_sw : BOOLEAN]
Cursors == [src1 : Int, src2 : Int, sink1 : Int, sink2 : Int]
Jobs == [slot : Slots, op : {"comp", "decomp"}, r : Nat, c : Nat,
         st : {"pending", "ok", "bad", "err"}]

\* The requests there are, and the ones the consumer has taken.
Known == 1..Len(results)
Taken == Len(results) - Len(queue)
Units(r) == Len(Shape(r).kinds)

TypeApp ==
    /\ load \in Loads
    /\ app \in {"run", "join", "gone"} /\ async_ctrl_init = (app = "run")
    /\ queue \in Seq(Nat)
    /\ results \in Seq(Results) /\ obj \in Seq(Objects)
    /\ dst \in Seq(Seq(Int))
    /\ Len(obj) = Len(results) /\ Len(dst) = Len(results)
    /\ \A r \in Known : results[r].shape \in load.shapes
TypeSess == sess \in Sessions
TypeIn ==
    /\ pcC \in {"grab", "loop", "soft", "dir", "switch", "start", "check",
                "buf", "setup", "send", "adv", "join", "ended"}
    /\ instance \in BOOLEAN
    /\ n \in Nat
    /\ pcC \in {"setup", "send"} => jIn \in Slots
TypeOut ==
    /\ pcP \in {"none", "test", "poll", "scan", "answer", "done", "ended"}
    /\ direct \in {"comp", "decomp"}
    /\ pcP = "answer" => jOut \in Slots
TypeStream ==
    /\ cur \in [Slots -> Cursors]
    /\ sseq \in [Slots -> Nat]
    /\ DOMAIN sreq = Slots
    /\ DOMAIN job = Slots
TypeDev == hw \subseteq Jobs /\ heartbeat = TRUE

TypeInv == TypeApp /\ TypeSess /\ TypeIn /\ TypeOut /\ TypeStream /\ TypeDev

\* The units that have been submitted and not been taken off by the polling
\* thread: with the device, or answered.
Tickets ==
    {t \in [slot : Slots, r : Nat, c : Nat] :
        \/ \E a \in hw : a.slot = t.slot /\ a.r = t.r /\ a.c = t.c
        \/ Answered(cur[t.slot]) /\ job[t.slot].r = t.r /\ job[t.slot].c = t.c}
At(t) == sseq[t.slot]

\* The next sequence number, and the units of the request under way that have
\* been submitted: between a submission and the tail of the loop the counters
\* lag behind.
NextSeq == IF pcC = "adv" THEN sess.seq + 1 ELSE sess.seq
Working == pcC \in {"soft", "dir", "switch", "start", "check", "buf", "setup",
                    "send", "adv"}
NextUnit == IF pcC = "adv" THEN n + 1
            ELSE IF pcC \in {"check", "buf", "setup", "send"} THEN n ELSE 0

\* A buffer the consumer has claimed; an answer that does not make the polling
\* thread decompress in software.
Claimed(c) == c.src1 = c.src2 + 1 /\ c.src2 = c.sink1 /\ c.src2 = c.sink2
Sane(a) == /\ a.op = direct
           /\ (a.st = "err" /\ direct = "decomp") => ~load.sw_backup

SlotInv ==
    /\ pcC = "setup" => Claimed(cur[jIn])
    /\ pcC = "send" => /\ InFlight(cur[jIn])
                       /\ sseq[jIn] = sess.seq
                       /\ sreq[jIn] = req
    /\ \A a \in hw : /\ InFlight(cur[a.slot])
                     /\ pcC = "send" => a.slot # jIn
                     /\ Sane(a)
    /\ \A a, b \in hw : a.slot = b.slot => a = b
    /\ \A k \in Slots : Answered(cur[k]) => /\ job[k] \in Jobs
                                            /\ job[k].st # "pending"
                                            /\ Sane(job[k])

\* The sequence numbers seq_in, ..., NextSeq - 1 are those of the tickets.
SeqInv ==
    /\ sess.seq_in <= NextSeq
    /\ \A t \in Tickets : sess.seq_in <= At(t) /\ At(t) < NextSeq
    /\ \A t, u \in Tickets : At(t) = At(u) => t = u
    /\ \A i \in Nat : (sess.seq_in <= i /\ i < NextSeq) =>
                         \E t \in Tickets : At(t) = i
    /\ pcP = "answer" => /\ Answered(cur[jOut])
                         /\ sseq[jOut] = sess.seq_in
                         /\ reqOut = sreq[jOut]

\* The polling thread leaves when everything has been answered; until then
\* nothing makes it drop an answer.
CountInv ==
    /\ sess.stat = "OK" /\ ~sess.stop_submitting /\ ~sess.force_sw
    /\ sess.submitted = sess.seq
    /\ IF pcP = "done" /\ direct = "decomp"
       THEN pOut = sess.processed /\ sess.seq_in = sess.processed + 1
       ELSE sess.processed = sess.seq_in
    /\ sess.last_submitted => pcC \in {"switch", "join", "ended"}
    /\ pcP = "ended" => sess.last_submitted /\ sess.seq_in = sess.seq
    /\ pcP = "none" => sess.seq = 0 /\ sess.seq_in = 0
StageInv ==
    /\ pcP = "none" <=> ~instance
    /\ pcC \in {"grab", "soft"} => ~instance
    /\ pcC \in {"dir", "switch", "start", "check", "buf", "setup", "send",
                "adv"} => instance
    /\ pcC \in {"start", "check", "buf", "setup", "send", "adv"} =>
          direct = Shape(req).op
    /\ pcC = "check" => direct = "decomp"
    /\ pcC = "join" => app # "run"

\* The consumer takes the requests in order, and n counts their units.
QueueInv ==
    /\ Taken >= 0
    /\ \A i \in 1..Len(queue) : queue[i] = Taken + i
    /\ Working => Taken >= 1 /\ req = Taken
    /\ pcC \in {"check", "buf", "setup", "send", "adv"} => n < Units(Taken)

\* A request is called back once; until then, its lengths say how much of its
\* output is there.
LengthInv ==
    \A r \in Known :
        /\ results[r].calls \in {0, 1}
        /\ obj[r].live <=> results[r].calls = 0
        /\ results[r].calls = 0 =>
              /\ results[r].src_len = Units(r)
              /\ obj[r].in_len = obj[r].out_len
              /\ obj[r].in_len <= Units(r)
              /\ dst[r] = [i \in 1..(Units(r) + 1) |->
                             IF i <= obj[r].in_len THEN i ELSE 0]
        /\ r > Taken \/ (Working /\ r = Taken /\ NextUnit = 0) =>
              results[r].calls = 0 /\ obj[r].in_len = 0

\* What has been answered in full.
Finished(r) == \/ results[r].calls = 1
               \/ pcP = "done" /\ r = reqOut /\ obj[r].in_len = Units(r)

\* The tickets are the units that follow the answered ones, in the order of
\* their sequence numbers, up to the consumer's position.
TicketInv ==
    \A t \in Tickets :
        /\ t.r \in 1..Taken
        /\ obj[t.r].in_len < t.c /\ t.c <= Units(t.r)
        /\ sreq[t.slot] = t.r
        /\ results[t.r].calls = 0
        /\ Working /\ t.r = Taken => t.c <= NextUnit
OrderInv ==
    /\ \A t, u \in Tickets : t.r = u.r /\ At(t) < At(u) => t.c < u.c
    /\ \A t, u \in Tickets : At(u) = At(t) + 1 =>
          \/ u.r = t.r /\ u.c = t.c + 1
          \/ u.r = t.r + 1 /\ t.c = Units(t.r) /\ u.c = 1
HeadInv ==
    \A t \in Tickets : At(t) = sess.seq_in =>
        /\ t.c = obj[t.r].in_len + 1
        /\ \A r \in 1..(t.r - 1) : Finished(r)
TailInv ==
    \A t \in Tickets : At(t) + 1 = NextSeq =>
        IF Working /\ NextUnit > 0
        THEN t.r = Taken /\ t.c = NextUnit
        ELSE /\ t.r = IF Working THEN Taken - 1 ELSE Taken
             /\ t.c = Units(t.r)
IdleInv ==
    sess.seq_in = NextSeq =>
        /\ \A r \in 1..(Taken - 1) : Finished(r)
        /\ IF Working
           THEN /\ obj[Taken].in_len = NextUnit
                /\ NextUnit < Units(Taken) => results[Taken].calls = 0
                /\ NextUnit = Units(Taken) => Finished(Taken)
           ELSE Taken > 0 => Finished(Taken)

DoneInv ==
    pcP = "done" =>
        /\ reqOut \in 1..Taken /\ results[reqOut].calls = 0
        /\ \A r \in 1..(reqOut - 1) : results[r].calls = 1

ChainInv == TicketInv /\ OrderInv /\ HeadInv /\ TailInv /\ IdleInv /\ DoneInv

\* Until the consumer has ended.
RunInv == /\ SlotInv /\ SeqInv /\ CountInv /\ StageInv /\ QueueInv
          /\ LengthInv /\ ChainInv

Inv == /\ TypeInv
       /\ CalledBackOnce /\ CallbackTrue /\ CalledInOrder
       /\ pcC # "ended" => RunInv
       /\ pcC = "ended" => pcP \in {"none", "ended"} /\ app # "run"

IndInv == ~dropped => Inv

-----------------------------------------------------------------------------
(* What the parts of the invariant say of single requests and slots.       *)

\* A request has at least one unit.
LEMMA UnitsPositive ==
    ASSUME TypeApp, NEW r \in Known
    PROVE  /\ results[r] \in Results /\ obj[r] \in Objects
           /\ Shape(r) \in Shapes
           /\ Units(r) \in Nat /\ Units(r) >= 1
<1>1. results[r] \in Results /\ obj[r] \in Objects
  BY DEF TypeApp, Known
<1>2. Shape(r) \in Shapes
  BY <1>1 DEF Results, Shape
<1>3. Shape(r).kinds \in Seq(Kinds) /\ Shape(r).kinds # << >>
  BY <1>2 DEF Shapes
<1>4. Units(r) \in Nat /\ Units(r) # 0
  BY <1>3 DEF Units
<1>. QED  BY <1>1, <1>2, <1>4

\* The consumer has taken a request that is there.
LEMMA TakenKnown ==
    ASSUME TypeApp, QueueInv
    PROVE  /\ Taken \in Nat /\ Len(results) \in Nat /\ Len(queue) \in Nat
           /\ Taken <= Len(results)
           /\ \A r \in 1..Taken : r \in Known
           /\ Working => Taken \in Known /\ req = Taken
<1>1. Len(results) \in Nat /\ Len(queue) \in Nat
  BY DEF TypeApp
<1>. QED  BY <1>1 DEF Taken, QueueInv, Known

\* Tickets depend on the device and the buffers only.
LEMMA TicketsKept ==
    ASSUME hw' = hw, cur' = cur, job' = job
    PROVE  Tickets' = Tickets
BY DEF Tickets, Answered

\* A ticket names a slot, a request that has been taken and a unit of it.
LEMMA TicketType ==
    ASSUME NEW t \in Tickets
    PROVE  t.slot \in Slots /\ t.r \in Nat /\ t.c \in Nat
BY DEF Tickets

\* The properties of callbacks depend on the results and outputs only.
LEMMA PropertiesKept ==
    ASSUME CalledBackOnce, CallbackTrue, CalledInOrder,
           results' = results, dst' = dst, dropped' = dropped
    PROVE  CalledBackOnce' /\ CallbackTrue' /\ CalledInOrder'
BY DEF CalledBackOnce, CallbackTrue, CalledInOrder, Shape

\* What is said of requests and tickets survives a step that changes neither
\* them nor the position of a thread among them.
LEMMA ChainKept ==
    ASSUME LengthInv, ChainInv,
           UNCHANGED reqVars, Taken' = Taken,
           Tickets' = Tickets,
           \A t \in Tickets : At(t)' = At(t) /\ sreq'[t.slot] = sreq[t.slot],
           sess'.seq_in = sess.seq_in, NextSeq' = NextSeq,
           Working' = Working, NextUnit' = NextUnit,
           pcP # "done" => pcP' # "done",
           pcP = "done" => UNCHANGED <<pcP, reqOut>>
    PROVE  LengthInv' /\ ChainInv'
<1>. USE DEF reqVars
<1>1. /\ Known' = Known
      /\ \A r : Units(r)' = Units(r)
      /\ \A r : Finished(r)' = Finished(r)
  BY DEF Known, Units, Shape, Finished
<1>2. LengthInv'
  BY <1>1 DEF LengthInv
<1>3. TicketInv'
  BY <1>1 DEF TicketInv, ChainInv
<1>4. OrderInv'
  BY <1>1 DEF OrderInv, ChainInv
<1>5. HeadInv'
  BY <1>1 DEF HeadInv, ChainInv
<1>6. TailInv'
  BY <1>1 DEF TailInv, ChainInv
<1>7. IdleInv'
  BY <1>1 DEF IdleInv, ChainInv
<1>8. DoneInv'
  BY <1>1 DEF DoneInv, ChainInv
<1>. QED  BY <1>2, <1>3, <1>4, <1>5, <1>6, <1>7, <1>8 DEF ChainInv

\* So does what is said of sequence numbers.
LEMMA SeqKept ==
    ASSUME SeqInv, Tickets' = Tickets,
           \A t \in Tickets : At(t)' = At(t),
           sess'.seq_in = sess.seq_in, NextSeq' = NextSeq
    PROVE  /\ sess'.seq_in <= NextSeq'
           /\ \A t \in Tickets' : /\ sess'.seq_in <= At(t)'
                                  /\ At(t)' < NextSeq'
           /\ \A t, u \in Tickets' : At(t)' = At(u)' => t = u
           /\ \A i \in Nat : (sess'.seq_in <= i /\ i < NextSeq') =>
                                \E t \in Tickets' : At(t)' = i
BY DEF SeqInv

\* An answered buffer holds a ticket.
LEMMA AnsweredTicket ==
    ASSUME TypeStream, SlotInv, NEW k \in Slots, Answered(cur[k])
    PROVE  /\ job[k] \in Jobs
           /\ [slot |-> k, r |-> job[k].r, c |-> job[k].c] \in Tickets
<1>1. job[k] \in Jobs
  BY DEF SlotInv
<1>2. job[k].r \in Nat /\ job[k].c \in Nat
  BY <1>1 DEF Jobs
<1>3. [slot |-> k, r |-> job[k].r, c |-> job[k].c]
        \in [slot : Slots, r : Nat, c : Nat]
  BY <1>2
<1>. QED  BY <1>1, <1>3 DEF Tickets

\* A slot that is unused or claimed holds none.
LEMMA NoTicket ==
    ASSUME SlotInv, NEW t \in Tickets, TypeStream
    PROVE  /\ ~Unused(cur[t.slot])
           /\ pcC = "setup" => t.slot # jIn
           /\ pcC = "send" => t.slot # jIn
<1>1. t.slot \in Slots
  BY TicketType
<1>2. \/ \E a \in hw : a.slot = t.slot
      \/ Answered(cur[t.slot])
  BY DEF Tickets
<1>3. InFlight(cur[t.slot]) \/ Answered(cur[t.slot])
  BY <1>2 DEF SlotInv
<1>4. cur[t.slot] \in Cursors
  BY <1>1 DEF TypeStream
<1>5. /\ cur[t.slot].src1 \in Int /\ cur[t.slot].src2 \in Int
      /\ cur[t.slot].sink1 \in Int /\ cur[t.slot].sink2 \in Int
  BY <1>4 DEF Cursors
<1>6. ~Unused(cur[t.slot]) /\ ~Claimed(cur[t.slot])
  BY <1>3, <1>5 DEF InFlight, Answered, Unused, Claimed
<1>7. pcC = "setup" => t.slot # jIn
  BY <1>6 DEF SlotInv
<1>8. ASSUME pcC = "send", t.slot = jIn  PROVE FALSE
  <2>1. InFlight(cur[t.slot])
    BY <1>8 DEF SlotInv
  <2>2. ~Answered(cur[t.slot])
    BY <2>1, <1>5 DEF InFlight, Answered
  <2>3. PICK a \in hw : a.slot = t.slot
    BY <2>2, <1>2
  <2>. QED  BY <2>3, <1>8 DEF SlotInv
<1>. QED  BY <1>6, <1>7, <1>8

-----------------------------------------------------------------------------
(* The beginning.                                                          *)

LEMMA InitInv ==
    ASSUME AsyncAssumption, Init
    PROVE  Inv
<1>. USE DEF Init
<1>1. NumBuff \in Nat \ {0}
  BY DEF AsyncAssumption
<1>2. Len(results) = 0 /\ Len(queue) = 0 /\ Len(obj) = 0 /\ Len(dst) = 0
  OBVIOUS
<1>3. Known = {} /\ Taken = 0
  BY <1>2 DEF Known, Taken
<1>4. Tickets = {}
  BY DEF Tickets, FreeSlot, Answered
<1>5. NextSeq = 0 /\ ~Working
  BY DEF NextSeq, Working, FreshSess
<1>6. TypeApp
  <2>1. async_ctrl_init = (app = "run")
    OBVIOUS
  <2>2. << >> \in Seq(Nat) /\ << >> \in Seq(Results) /\ << >> \in Seq(Objects)
        /\ << >> \in Seq(Seq(Int))
    OBVIOUS
  <2>3. app \in {"run", "join", "gone"} /\ load \in Loads
    OBVIOUS
  <2>. QED  BY <1>2, <1>3, <2>1, <2>2, <2>3 DEF TypeApp
<1>7. TypeSess
  BY DEF TypeSess, Sessions, FreshSess
<1>8. TypeIn
  BY DEF TypeIn
<1>9. TypeOut
  BY DEF TypeOut
<1>10. TypeStream
  BY DEF TypeStream, Cursors, FreeSlot
<1>11. TypeDev
  BY DEF TypeDev
<1>12. SlotInv
  BY DEF SlotInv, FreeSlot, Answered
<1>13. SeqInv
  <2>1. sess.seq_in = 0
    BY DEF FreshSess
  <2>. QED  BY <1>4, <1>5, <2>1 DEF SeqInv
<1>14. CountInv
  BY DEF CountInv, FreshSess
<1>15. StageInv
  BY DEF StageInv
<1>16. QueueInv
  BY <1>2, <1>3, <1>5 DEF QueueInv
<1>17. LengthInv
  BY <1>3 DEF LengthInv
<1>18. ChainInv
  BY <1>3, <1>4, <1>5
  DEF ChainInv, TicketInv, OrderInv, HeadInv, TailInv, IdleInv, DoneInv
<1>19. CalledBackOnce /\ CallbackTrue /\ CalledInOrder
  BY DEF CalledBackOnce, CallbackTrue, CalledInOrder
<1>. QED
  BY <1>6, <1>7, <1>8, <1>9, <1>10, <1>11, <1>12, <1>13, <1>14, <1>15, <1>16,
     <1>17, <1>18, <1>19
  DEF Inv, TypeInv, RunInv

-----------------------------------------------------------------------------
(* The application's thread.                                               *)

LEMMA SubmitKeeps ==
    ASSUME AsyncAssumption, Inv, NEW shape \in load.shapes, Submit(shape)
    PROVE  Inv'
<1>. USE DEF appVars, reqVars, inVars, outVars, streamVars, devVars
<1>1. /\ TypeApp /\ app = "run" /\ RunInv /\ pcC # "ended"
  BY DEF Inv, TypeInv, Submit
<1>2. /\ SlotInv /\ SeqInv /\ CountInv /\ StageInv /\ QueueInv
      /\ LengthInv /\ ChainInv
  BY <1>1 DEF RunInv
<1>3. UNCHANGED <<load, app, async_ctrl_init, sess, pcC, inVars, pcP, direct,
                  outVars, streamVars, devVars>>
  BY DEF Submit
<1>. DEFINE x == Len(results) + 1
            R == [shape |-> shape, status |-> "OK",
                  src_len |-> Len(shape.kinds), dest_len |-> shape.room,
                  calls |-> 0]
            O == [live |-> TRUE, in_len |-> 0, out_len |-> 0]
            D == [i \in 1..(Len(shape.kinds) + 1) |-> 0]
<1>4. shape \in Shapes
  BY <1>1 DEF TypeApp, AsyncAssumption, Shapes
<1>5. Len(shape.kinds) \in Nat /\ shape.room \in Nat
  BY <1>4 DEF Shapes
<1>6. R \in Results
  <2>1. R.dest_len \in Int
    BY <1>5
  <2>. QED  BY <1>4, <1>5, <2>1 DEF Results
<1>7. O \in Objects
  BY DEF Objects
<1>8. D \in Seq(Int)
  BY <1>5
<1>9. /\ results' = Append(results, R)
      /\ obj' = Append(obj, O)
      /\ dst' = Append(dst, D)
      /\ queue' = Append(queue, x)
  BY DEF Submit
<1>. HIDE DEF R, O, D
<1>10. /\ results \in Seq(Results) /\ obj \in Seq(Objects)
       /\ dst \in Seq(Seq(Int)) /\ queue \in Seq(Nat)
       /\ Len(obj) = Len(results) /\ Len(dst) = Len(results)
  BY <1>1 DEF TypeApp
<1>11. /\ results' \in Seq(Results) /\ Len(results') = x
       /\ \A r \in Known : results'[r] = results[r]
       /\ results'[x] = R
  BY <1>6, <1>9, <1>10 DEF Known
<1>12. /\ obj' \in Seq(Objects) /\ Len(obj') = x
       /\ \A r \in Known : obj'[r] = obj[r]
       /\ obj'[x] = O
  BY <1>7, <1>9, <1>10 DEF Known
<1>13. /\ dst' \in Seq(Seq(Int)) /\ Len(dst') = x
       /\ \A r \in Known : dst'[r] = dst[r]
       /\ dst'[x] = D
  BY <1>8, <1>9, <1>10 DEF Known
<1>14. /\ queue' \in Seq(Nat) /\ Len(queue') = Len(queue) + 1
       /\ \A i \in 1..Len(queue) : queue'[i] = queue[i]
       /\ queue'[Len(queue) + 1] = x
  <2>1. x \in Nat
    BY <1>10
  <2>. QED  BY <1>9, <1>10, <2>1
<1>15. Len(results) \in Nat /\ Len(queue) \in Nat /\ Taken \in Nat
       /\ Taken <= Len(results)
       /\ (\A r \in 1..Taken : r \in Known)
  BY <1>1, <1>2, TakenKnown
<1>16. Taken' = Taken
  BY <1>11, <1>14, <1>15 DEF Taken
<1>17. Known' = Known \cup {x} /\ x \notin Known /\ x > Taken
  BY <1>11, <1>15 DEF Known
<1>18. /\ \A r \in Known : Units(r)' = Units(r)
       /\ \A r \in Known : Finished(r)' = Finished(r)
  BY <1>3, <1>11, <1>12 DEF Units, Shape, Finished
<1>19. Tickets' = Tickets
  BY <1>3, TicketsKept
<1>20. /\ \A t \in Tickets : At(t)' = At(t) /\ sreq'[t.slot] = sreq[t.slot]
       /\ NextSeq' = NextSeq /\ Working' = Working /\ NextUnit' = NextUnit
       /\ sess' = sess
  BY <1>3 DEF At, NextSeq, Working, NextUnit
<1>21. \A t \in Tickets : t.r \in 1..Taken /\ t.r \in Known
  BY <1>2, <1>15 DEF ChainInv, TicketInv
<1>22. TypeInv'
  <2>1. TypeApp'
    <3>1. \A r \in Known' : results'[r].shape \in load'.shapes
      <4>1. \A r \in Known : results[r].shape \in load.shapes
        BY <1>1 DEF TypeApp
      <4>2. R.shape \in load.shapes
        BY DEF R
      <4>. QED  BY <1>3, <1>11, <1>17, <4>1, <4>2
    <3>. QED
      BY <1>1, <1>3, <1>11, <1>12, <1>13, <1>14, <3>1 DEF TypeApp
  <2>. QED
    BY <2>1, <1>3 DEF Inv, TypeInv, TypeSess, TypeIn, TypeOut, TypeStream,
                      TypeDev
<1>23. SlotInv'
  BY <1>2, <1>3
  DEF SlotInv, Claimed, InFlight, Answered, Sane
<1>24. SeqInv'
  BY <1>2, <1>3, <1>19, <1>20, SeqKept DEF SeqInv, Answered
<1>25. CountInv'
  BY <1>2, <1>3 DEF CountInv
<1>26. StageInv'
  <2>1. Working => Shape(req)' = Shape(req)
    <3>1. Working => req \in Known /\ req' = req
      BY <1>1, <1>2, <1>3, TakenKnown
    <3>. QED  BY <1>11, <3>1 DEF Shape
  <2>. QED  BY <1>2, <1>3, <2>1 DEF StageInv, Working
<1>27. QueueInv'
  <2>1. Taken' >= 0
    BY <1>15, <1>16
  <2>2. \A i \in 1..Len(queue') : queue'[i] = Taken' + i
    <3>1. \A i \in 1..Len(queue) : queue[i] = Taken + i
      BY <1>2 DEF QueueInv
    <3>2. x = Taken + (Len(queue) + 1)
      BY <1>15 DEF Taken
    <3>3. SUFFICES ASSUME NEW i \in 1..Len(queue')
                   PROVE  queue'[i] = Taken + i
      BY <1>16
    <3>4. i \in 1..Len(queue) \/ i = Len(queue) + 1
      BY <1>14, <1>15
    <3>. QED  BY <3>1, <3>2, <3>4, <1>14
  <2>3. Working' => Taken' >= 1 /\ req' = Taken'
    BY <1>2, <1>3, <1>16, <1>20 DEF QueueInv
  <2>4. pcC' \in {"check", "buf", "setup", "send", "adv"} =>
          n' < Units(Taken)'
    <3>1. SUFFICES ASSUME pcC \in {"check", "buf", "setup", "send", "adv"}
                   PROVE  n < Units(Taken)'
      BY <1>3
    <3>2. Taken \in Known
      BY <1>1, <1>2, <3>1, TakenKnown DEF Working
    <3>3. Units(Taken)' = Units(Taken)
      BY <1>16, <1>18, <3>2 DEF Units, Shape
    <3>. QED  BY <1>2, <3>1, <3>3 DEF QueueInv
  <2>. QED  BY <2>1, <2>2, <2>3, <2>4 DEF QueueInv
<1>28. LengthInv'
  <2>1. SUFFICES ASSUME NEW r \in Known'
                 PROVE
        /\ results'[r].calls \in {0, 1}
        /\ obj'[r].live <=> results'[r].calls = 0
        /\ results'[r].calls = 0 =>
              /\ results'[r].src_len = Units(r)'
              /\ obj'[r].in_len = obj'[r].out_len
              /\ obj'[r].in_len <= Units(r)'
              /\ dst'[r] = [i \in 1..(Units(r)' + 1) |->
                             IF i <= obj'[r].in_len THEN i ELSE 0]
        /\ r > Taken' \/ (Working' /\ r = Taken' /\ NextUnit' = 0) =>
              results'[r].calls = 0 /\ obj'[r].in_len = 0
    BY DEF LengthInv
  <2>2. CASE r \in Known
    <3>1. /\ results'[r] = results[r] /\ obj'[r] = obj[r]
          /\ dst'[r] = dst[r] /\ Units(r)' = Units(r)
      BY <2>2, <1>11, <1>12, <1>13, <1>18
    <3>2. Taken' = Taken /\ Working' = Working /\ NextUnit' = NextUnit
      BY <1>16, <1>20
    <3>3. LengthInv
      BY <1>2
    <3>. QED  BY <2>2, <3>1, <3>2, <3>3 DEF LengthInv
  <2>3. CASE r = x
    <3>1. Units(r)' = Len(shape.kinds)
      BY <2>3, <1>11 DEF Units, Shape, R
    <3>2. /\ results'[r].calls = 0 /\ results'[r].src_len = Len(shape.kinds)
          /\ obj'[r].live = TRUE /\ obj'[r].in_len = 0 /\ obj'[r].out_len = 0
      BY <2>3, <1>11, <1>12 DEF R, O
    <3>3. dst'[r] = [i \in 1..(Units(r)' + 1) |->
                             IF i <= obj'[r].in_len THEN i ELSE 0]
      <4>1. \A i \in 1..(Len(shape.kinds) + 1) : ~(i <= 0)
        BY <1>5
      <4>2. D = [i \in 1..(Len(shape.kinds) + 1) |->
                             IF i <= 0 THEN i ELSE 0]
        BY <4>1 DEF D
      <4>. QED  BY <4>2, <3>1, <3>2, <2>3, <1>13
    <3>. QED  BY <3>1, <3>2, <3>3, <1>5
  <2>. QED  BY <2>2, <2>3, <1>17
<1>29. ChainInv'
  <2>1. TicketInv'
    BY <1>2, <1>11, <1>12, <1>16, <1>18, <1>19, <1>20, <1>21
    DEF TicketInv, ChainInv
  <2>2. OrderInv'
    BY <1>2, <1>18, <1>19, <1>20, <1>21 DEF OrderInv, ChainInv
  <2>3. HeadInv'
    <3>1. \A t \in Tickets : \A r \in 1..(t.r - 1) : r \in Known
      BY <1>15, <1>21 DEF Known
    <3>. QED
      BY <1>2, <1>12, <1>18, <1>19, <1>20, <1>21, <3>1 DEF HeadInv, ChainInv
  <2>4. TailInv'
    BY <1>2, <1>16, <1>18, <1>19, <1>20, <1>21 DEF TailInv, ChainInv
  <2>5. IdleInv'
    <3>1. \A r \in 1..(Taken - 1) : r \in Known
      BY <1>15 DEF Known
    <3>2. Taken > 0 => Taken \in Known
      BY <1>15 DEF Known
    <3>3. Working => Taken \in Known
      BY <1>1, <1>2, TakenKnown
    <3>4. Taken \in Known => /\ Units(Taken)' = Units(Taken)
                             /\ Finished(Taken)' = Finished(Taken)
                             /\ obj'[Taken] = obj[Taken]
                             /\ results'[Taken] = results[Taken]
      BY <1>3, <1>11, <1>12, <1>16 DEF Units, Shape, Finished
    <3>. QED
      BY <1>2, <1>16, <1>18, <1>20, <3>1, <3>2, <3>3, <3>4
      DEF IdleInv, ChainInv
  <2>6. DoneInv'
    <3>1. pcP = "done" => /\ reqOut \in Known
                          /\ \A r \in 1..(reqOut - 1) : r \in Known
      BY <1>2, <1>15 DEF ChainInv, DoneInv, Known
    <3>. QED
      BY <1>2, <1>3, <1>11, <1>16, <3>1 DEF DoneInv, ChainInv
  <2>. QED  BY <2>1, <2>2, <2>3, <2>4, <2>5, <2>6 DEF ChainInv
<1>30. CalledBackOnce' /\ CallbackTrue' /\ CalledInOrder'
  <2>1. DOMAIN results = Known /\ DOMAIN results' = Known \cup {x}
    BY <1>10, <1>11, <1>17 DEF Known
  <2>2. results'[x].calls = 0
    BY <1>11 DEF R
  <2>3. CalledBackOnce'
    BY <1>3, <1>11, <2>1, <2>2 DEF CalledBackOnce, Inv
  <2>4. CallbackTrue'
    <3>1. SUFFICES ASSUME NEW r \in Known, results'[r].calls > 0,
                          results'[r].status = "OK"
                   PROVE  LET len == Len(Shape(r)'.kinds)
                          IN  /\ results'[r].src_len = len
                              /\ results'[r].dest_len = len
                              /\ dst'[r] = [i \in 1..(len + 1) |->
                                              IF i <= len THEN i ELSE 0]
      BY <2>1, <2>2 DEF CallbackTrue
    <3>2. /\ results'[r] = results[r] /\ dst'[r] = dst[r]
          /\ Shape(r)' = Shape(r)
      BY <1>11, <1>13 DEF Shape
    <3>. QED  BY <3>1, <3>2, <2>1 DEF CallbackTrue, Inv
  <2>5. CalledInOrder'
    <3>1. SUFFICES ASSUME ~dropped, NEW r \in Known \cup {x}, NEW q \in Known,
                          r < q, results'[q].calls > 0
                   PROVE  results'[r].calls > 0
      BY <1>3, <2>1, <2>2 DEF CalledInOrder
    <3>2. r \in Known
      BY <3>1, <1>15 DEF Known
    <3>. QED  BY <3>1, <3>2, <2>1, <1>11 DEF CalledInOrder, Inv
  <2>. QED  BY <2>3, <2>4, <2>5
<1>. QED
  BY <1>1, <1>3, <1>22, <1>23, <1>24, <1>25, <1>26, <1>27, <1>28, <1>29, <1>30
  DEF Inv, RunInv

LEMMA ExitKeeps ==
    ASSUME Inv, Exit
    PROVE  Inv'
<1>. USE DEF appVars, reqVars, inVars, outVars, streamVars, devVars
<1>1. TypeInv /\ RunInv /\ pcC # "ended" /\ pcC # "join"
  BY DEF Inv, Exit, RunInv, StageInv
<1>2. /\ UNCHANGED <<load, queue, obj, results, dst, sess, pcC, inVars, pcP,
                     direct, outVars, streamVars, devVars>>
      /\ app' = "join" /\ async_ctrl_init' = FALSE
  BY DEF Exit
<1>3. Tickets' = Tickets /\ Taken' = Taken
  BY <1>2, TicketsKept DEF Taken
<1>4. /\ \A t \in Tickets : At(t)' = At(t) /\ sreq'[t.slot] = sreq[t.slot]
      /\ NextSeq' = NextSeq /\ Working' = Working /\ NextUnit' = NextUnit
  BY <1>2 DEF At, NextSeq, Working, NextUnit
<1>5. TypeInv'
  <2>1. TypeApp'
    <3>1. async_ctrl_init' = (app' = "run")
      BY <1>2
    <3>. QED  BY <1>1, <1>2, <3>1 DEF TypeInv, TypeApp, Known
  <2>. QED
    BY <2>1, <1>1, <1>2 DEF TypeInv, TypeSess, TypeIn, TypeOut, TypeStream,
                            TypeDev
<1>6. SlotInv'
  BY <1>1, <1>2 DEF RunInv, SlotInv, Claimed, InFlight, Answered, Sane
<1>7. SeqInv'
  BY <1>1, <1>2, <1>3, <1>4, SeqKept DEF RunInv, SeqInv, Answered
<1>8. CountInv'
  BY <1>1, <1>2 DEF RunInv, CountInv
<1>9. StageInv'
  BY <1>1, <1>2 DEF RunInv, StageInv, Shape
<1>10. QueueInv'
  BY <1>1, <1>2, <1>3, <1>4 DEF RunInv, QueueInv, Units, Shape
<1>11. LengthInv' /\ ChainInv'
  BY <1>1, <1>2, <1>3, <1>4, ChainKept DEF RunInv
<1>12. CalledBackOnce' /\ CallbackTrue' /\ CalledInOrder'
  BY <1>2, PropertiesKept DEF Inv
<1>. QED
  BY <1>1, <1>2, <1>5, <1>6, <1>7, <1>8, <1>9, <1>10, <1>11, <1>12
  DEF Inv, RunInv

\* Once the consumer has ended, nothing that matters changes but the device.
LEMMA EndKept ==
    ASSUME Inv, pcC = "ended", TypeInv',
           UNCHANGED <<results, dst, dropped, pcC, pcP>>, app' # "run"
    PROVE  Inv'
<1>1. CalledBackOnce' /\ CallbackTrue' /\ CalledInOrder'
  BY PropertiesKept DEF Inv
<1>. QED  BY <1>1 DEF Inv

LEMMA JoinedKeeps ==
    ASSUME Inv, Joined
    PROVE  Inv'
<1>. USE DEF appVars, reqVars, inVars, outVars, streamVars, devVars
<1>1. /\ UNCHANGED <<load, queue, async_ctrl_init, obj, results, dst, sess, pcC,
                     inVars, pcP, direct, outVars, streamVars, devVars>>
      /\ app = "join" /\ app' = "gone" /\ pcC = "ended"
  BY DEF Joined
<1>2. TypeInv'
  <2>1. TypeApp'
    <3>1. async_ctrl_init' = (app' = "run")
      <4>1. async_ctrl_init = (app = "run")
        BY DEF Inv, TypeInv, TypeApp
      <4>. QED  BY <1>1, <4>1
    <3>. QED  BY <1>1, <3>1 DEF Inv, TypeInv, TypeApp, Known
  <2>. QED
    BY <2>1, <1>1 DEF Inv, TypeInv, TypeSess, TypeIn, TypeOut, TypeStream,
                      TypeDev
<1>. QED  BY <1>1, <1>2, EndKept

-----------------------------------------------------------------------------
(* The consumer.                                                           *)

LEMMA GrabKeeps ==
    ASSUME Inv, CGrab
    PROVE  Inv'
<1>. USE DEF appVars, reqVars, inVars, outVars, streamVars, devVars
<1>1. TypeInv /\ RunInv /\ pcC # "ended"
  BY DEF Inv, RunInv, StageInv, TypeInv, TypeDev, CGrab
<1>2. /\ UNCHANGED <<load, app, async_ctrl_init, queue, obj, results, dst, sess,
                     req, n, jIn, direct, outVars, streamVars, devVars>>
      /\ pcC = "grab" /\ pcC' = "loop" /\ pcP = "none"
      /\ \/ instance' = TRUE /\ pcP' = "test"
         \/ instance' = FALSE /\ pcP' = "none"
  BY <1>1 DEF CGrab, RunInv, StageInv
<1>3. Tickets' = Tickets /\ Taken' = Taken
  BY <1>2, TicketsKept DEF Taken
<1>4. /\ \A t \in Tickets : At(t)' = At(t) /\ sreq'[t.slot] = sreq[t.slot]
      /\ NextSeq' = NextSeq /\ Working' = Working /\ NextUnit' = NextUnit
      /\ sess'.seq_in = sess.seq_in
  BY <1>1, <1>2 DEF At, NextSeq, Working, NextUnit
<1>5. TypeInv'
  BY <1>1, <1>2
  DEF TypeInv, TypeApp, TypeSess, TypeIn, TypeOut, TypeStream, TypeDev,
      Known, Sessions
<1>6. SlotInv'
  BY <1>1, <1>2 DEF RunInv, SlotInv, Claimed, InFlight, Answered, Sane
<1>7. SeqInv'
  BY <1>1, <1>2, <1>3, <1>4, SeqKept DEF RunInv, SeqInv, Answered
<1>8. CountInv'
  BY <1>1, <1>2 DEF RunInv, CountInv, TypeInv, TypeSess, Sessions
<1>9. StageInv'
  BY <1>1, <1>2 DEF RunInv, StageInv, Shape, TypeInv, TypeOut
<1>10. QueueInv'
  BY <1>1, <1>2, <1>3, <1>4 DEF RunInv, QueueInv, Units, Shape, Working
<1>11. LengthInv' /\ ChainInv'
  BY <1>1, <1>2, <1>3, <1>4, ChainKept DEF RunInv
<1>12. CalledBackOnce' /\ CallbackTrue' /\ CalledInOrder'
  BY <1>2, PropertiesKept DEF Inv
<1>. QED
  BY <1>1, <1>2, <1>5, <1>6, <1>7, <1>8, <1>9, <1>10, <1>11, <1>12
  DEF Inv, RunInv

\* The polling thread is told that nothing follows; the counters stay.
LastSaid == /\ sess' \in Sessions /\ sess'.last_submitted
            /\ sess'.seq = sess.seq /\ sess'.seq_in = sess.seq_in
            /\ sess'.submitted = sess.submitted
            /\ sess'.processed = sess.processed
            /\ sess'.stop_submitting = sess.stop_submitting
            /\ sess'.stat = sess.stat /\ sess'.force_sw = sess.force_sw

LEMMA SaysLast ==
    ASSUME TypeSess, sess' = [sess EXCEPT !.last_submitted = TRUE]
    PROVE  LastSaid
BY DEF LastSaid, TypeSess, Sessions

LEMMA DirectionKeeps ==
    ASSUME Inv, CDirection
    PROVE  Inv'
<1>. USE DEF appVars, reqVars, inVars, outVars, streamVars, devVars
<1>1. TypeInv /\ RunInv /\ pcC # "ended"
  BY DEF Inv, RunInv, StageInv, TypeInv, TypeDev, CDirection
<1>2. /\ UNCHANGED <<load, app, async_ctrl_init, queue, obj, results, dst, inVars,
                     pcP, direct, outVars, streamVars, devVars>>
      /\ pcC = "dir"
      /\ \/ direct = Shape(req).op /\ pcC' = "start" /\ sess' = sess
         \/ /\ direct # Shape(req).op /\ pcC' = "switch"
            /\ LastSaid
  BY <1>1, SaysLast DEF CDirection, TypeInv
<1>3. Tickets' = Tickets /\ Taken' = Taken
  BY <1>2, TicketsKept DEF Taken
<1>4. /\ \A t \in Tickets : At(t)' = At(t) /\ sreq'[t.slot] = sreq[t.slot]
      /\ NextSeq' = NextSeq /\ Working' = Working /\ NextUnit' = NextUnit
      /\ sess'.seq_in = sess.seq_in
  <2>2. sess'.seq = sess.seq /\ sess'.seq_in = sess.seq_in
    BY <1>2 DEF LastSaid
  <2>3. pcC' \in {"start", "switch"} /\ sseq' = sseq /\ sreq' = sreq /\ n' = n
    BY <1>2
  <2>. QED  BY <1>2, <2>2, <2>3 DEF At, NextSeq, Working, NextUnit
<1>5. TypeInv'
  BY <1>1, <1>2
  DEF TypeInv, TypeApp, TypeSess, TypeIn, TypeOut, TypeStream, TypeDev,
      Known, LastSaid
<1>6. SlotInv'
  BY <1>1, <1>2
  DEF RunInv, SlotInv, LastSaid, Claimed, InFlight, Answered, Sane
<1>7. SeqInv'
  BY <1>1, <1>2, <1>3, <1>4, SeqKept DEF RunInv, SeqInv, Answered
<1>8. CountInv'
  BY <1>1, <1>2 DEF RunInv, CountInv, LastSaid
<1>9. StageInv'
  BY <1>1, <1>2 DEF RunInv, StageInv, Shape, TypeInv, TypeOut
<1>10. QueueInv'
  BY <1>1, <1>2, <1>3, <1>4 DEF RunInv, QueueInv, Units, Shape, Working
<1>11. LengthInv' /\ ChainInv'
  BY <1>1, <1>2, <1>3, <1>4, ChainKept DEF RunInv
<1>12. CalledBackOnce' /\ CallbackTrue' /\ CalledInOrder'
  BY <1>2, PropertiesKept DEF Inv
<1>. QED
  BY <1>1, <1>2, <1>5, <1>6, <1>7, <1>8, <1>9, <1>10, <1>11, <1>12
  DEF Inv, RunInv

LEMMA LeaveKeeps ==
    ASSUME Inv, CLeave
    PROVE  Inv'
<1>. USE DEF appVars, reqVars, inVars, outVars, streamVars, devVars
<1>1. TypeInv /\ RunInv /\ pcC # "ended"
  BY DEF Inv, RunInv, StageInv, TypeInv, TypeDev, CLeave
<1>2. /\ UNCHANGED <<load, app, async_ctrl_init, queue, obj, results, dst, inVars,
                     pcP, direct, outVars, streamVars, devVars>>
      /\ pcC = "loop" /\ pcC' = "join" /\ app # "run"
      /\ LastSaid
  BY <1>1, SaysLast DEF CLeave, TypeInv, TypeApp
<1>3. Tickets' = Tickets /\ Taken' = Taken
  BY <1>2, TicketsKept DEF Taken
<1>4. /\ \A t \in Tickets : At(t)' = At(t) /\ sreq'[t.slot] = sreq[t.slot]
      /\ NextSeq' = NextSeq /\ Working' = Working /\ NextUnit' = NextUnit
      /\ sess'.seq_in = sess.seq_in
  BY <1>1, <1>2 DEF LastSaid, At, NextSeq, Working, NextUnit
<1>5. TypeInv'
  BY <1>1, <1>2
  DEF TypeInv, TypeApp, TypeSess, TypeIn, TypeOut, TypeStream, TypeDev,
      Known, LastSaid
<1>6. SlotInv'
  BY <1>1, <1>2
  DEF RunInv, SlotInv, LastSaid, Claimed, InFlight, Answered, Sane
<1>7. SeqInv'
  BY <1>1, <1>2, <1>3, <1>4, SeqKept DEF RunInv, SeqInv, Answered
<1>8. CountInv'
  BY <1>1, <1>2 DEF RunInv, CountInv, LastSaid
<1>9. StageInv'
  BY <1>1, <1>2 DEF RunInv, StageInv, Shape, TypeInv, TypeOut
<1>10. QueueInv'
  BY <1>1, <1>2, <1>3, <1>4 DEF RunInv, QueueInv, Units, Shape, Working
<1>11. LengthInv' /\ ChainInv'
  BY <1>1, <1>2, <1>3, <1>4, ChainKept DEF RunInv
<1>12. CalledBackOnce' /\ CallbackTrue' /\ CalledInOrder'
  BY <1>2, PropertiesKept DEF Inv
<1>. QED
  BY <1>1, <1>2, <1>5, <1>6, <1>7, <1>8, <1>9, <1>10, <1>11, <1>12
  DEF Inv, RunInv

LEMMA InStartKeeps ==
    ASSUME Inv, InStart
    PROVE  Inv'
<1>. USE DEF appVars, reqVars, inVars, outVars, streamVars, devVars
<1>1. TypeInv /\ RunInv /\ pcC # "ended"
  BY DEF Inv, RunInv, StageInv, TypeInv, TypeDev, InStart
<1>2. /\ UNCHANGED <<load, app, async_ctrl_init, queue, obj, results, dst, sess,
                     instance, req, pcP, direct, outVars, streamVars, devVars>>
      /\ pcC = "start" /\ n' = 0
      /\ \/ Shape(req).op = "comp" /\ pcC' = "buf"
         \/ Shape(req).op # "comp" /\ pcC' = "check"
  BY <1>1 DEF InStart
<1>3. Tickets' = Tickets /\ Taken' = Taken
  BY <1>2, TicketsKept DEF Taken
<1>4. /\ \A t \in Tickets : At(t)' = At(t) /\ sreq'[t.slot] = sreq[t.slot]
      /\ NextSeq' = NextSeq /\ Working' = Working /\ NextUnit' = NextUnit
      /\ sess'.seq_in = sess.seq_in
  BY <1>1, <1>2 DEF At, NextSeq, Working, NextUnit
<1>5. TypeInv'
  BY <1>1, <1>2
  DEF TypeInv, TypeApp, TypeSess, TypeIn, TypeOut, TypeStream, TypeDev,
      Known, Sessions
<1>6. SlotInv'
  BY <1>1, <1>2 DEF RunInv, SlotInv, Claimed, InFlight, Answered, Sane
<1>7. SeqInv'
  BY <1>1, <1>2, <1>3, <1>4, SeqKept DEF RunInv, SeqInv, Answered
<1>8. CountInv'
  BY <1>1, <1>2 DEF RunInv, CountInv, TypeInv, TypeSess, Sessions
<1>9. StageInv'
  BY <1>1, <1>2 DEF RunInv, StageInv, Shape, TypeInv, TypeOut
<1>10. QueueInv'
  <2>1. Taken \in Known
    BY <1>1, <1>2, TakenKnown DEF RunInv, TypeInv, Working
  <2>2. 0 < Units(Taken)
    BY <1>1, <2>1, UnitsPositive DEF TypeInv
  <2>. QED
    BY <1>1, <1>2, <1>3, <1>4, <2>2 DEF RunInv, QueueInv, Units, Shape, Working
<1>11. LengthInv' /\ ChainInv'
  BY <1>1, <1>2, <1>3, <1>4, ChainKept DEF RunInv
<1>12. CalledBackOnce' /\ CallbackTrue' /\ CalledInOrder'
  BY <1>2, PropertiesKept DEF Inv
<1>. QED
  BY <1>1, <1>2, <1>5, <1>6, <1>7, <1>8, <1>9, <1>10, <1>11, <1>12
  DEF Inv, RunInv

-----------------------------------------------------------------------------
(* Callbacks.                                                              *)

LEMMA FunctionIsSeq ==
    ASSUME NEW S, NEW m \in Nat, NEW f \in [1..m -> S]
    PROVE  f \in Seq(S) /\ Len(f) = m
OBVIOUS

\* A callback counts, and says what it is told; other requests keep theirs.
LEMMA CalledOnly ==
    ASSUME NEW res \in Seq(Results), NEW r \in 1..Len(res),
           NEW status \in {"OK", "FAIL"}
    PROVE  /\ Called(res, r, status) \in Seq(Results)
           /\ Len(Called(res, r, status)) = Len(res)
           /\ \A q \in 1..Len(res) : q # r =>
                 Called(res, r, status)[q] = res[q]
           /\ Called(res, r, status)[r].shape = res[r].shape
           /\ Called(res, r, status)[r].calls = res[r].calls + 1
           /\ Called(res, r, status)[r].status = status
           /\ status = "OK" =>
                 /\ Called(res, r, status)[r].src_len = res[r].src_len
                 /\ Called(res, r, status)[r].dest_len = res[r].dest_len
<1>. DEFINE new == [res[r] EXCEPT
                      !.status = status, !.calls = @ + 1,
                      !.src_len = IF status = "OK" THEN @ ELSE 0,
                      !.dest_len = IF status = "OK" THEN @ ELSE 0]
<1>1. res[r] \in Results
  OBVIOUS
<1>2. /\ new.shape = res[r].shape /\ new.calls = res[r].calls + 1
      /\ new.status = status
      /\ new.src_len = IF status = "OK" THEN res[r].src_len ELSE 0
      /\ new.dest_len = IF status = "OK" THEN res[r].dest_len ELSE 0
  BY <1>1 DEF Results
<1>3. new \in Results
  <2>. DEFINE a == IF status = "OK" THEN res[r].src_len ELSE 0
              b == IF status = "OK" THEN res[r].dest_len ELSE 0
              c == res[r].calls + 1
  <2>1. a \in Nat /\ b \in Int /\ c \in Nat
    BY <1>1 DEF Results
  <2>2. new = [res[r] EXCEPT !.status = status, !.calls = c,
                             !.src_len = a, !.dest_len = b]
    OBVIOUS
  <2>. HIDE DEF a, b, c
  <2>. QED  BY <1>1, <2>1, <2>2 DEF Results
<1>4. Called(res, r, status) = [res EXCEPT ![r] = new]
  BY <1>1 DEF Called, Results
<1>. HIDE DEF new
<1>. QED  BY <1>2, <1>3, <1>4

LEMMA FreedOnly ==
    ASSUME NEW o \in Seq(Objects), NEW r \in 1..Len(o)
    PROVE  /\ Freed(o, r) \in Seq(Objects)
           /\ Len(Freed(o, r)) = Len(o)
           /\ \A q \in 1..Len(o) : q # r => Freed(o, r)[q] = o[q]
           /\ Freed(o, r)[r].live = FALSE
           /\ Freed(o, r)[r].in_len = o[r].in_len
           /\ Freed(o, r)[r].out_len = o[r].out_len
<1>1. o[r] \in Objects
  OBVIOUS
<1>2. [o[r] EXCEPT !.live = FALSE] \in Objects
  BY <1>1 DEF Objects
<1>3. /\ [o[r] EXCEPT !.live = FALSE].live = FALSE
      /\ [o[r] EXCEPT !.live = FALSE].in_len = o[r].in_len
      /\ [o[r] EXCEPT !.live = FALSE].out_len = o[r].out_len
  BY <1>1 DEF Objects
<1>. QED  BY <1>2, <1>3 DEF Freed

\* When everything has been answered, there are no tickets, jobs and answers.
LEMMA NothingLeft ==
    ASSUME TypeInv, SlotInv, SeqInv, sess.seq_in = NextSeq
    PROVE  /\ Tickets = {} /\ hw = {}
           /\ \A k \in Slots : ~Answered(cur[k])
<1>1. sess.seq_in \in Nat /\ NextSeq \in Nat
  BY DEF TypeInv, TypeSess, Sessions, NextSeq
<1>2. \A t \in Tickets : At(t) \in Nat
  BY TicketType DEF TypeInv, TypeStream, At
<1>3. Tickets = {}
  BY <1>1, <1>2 DEF SeqInv
<1>4. hw = {}
  <2>1. SUFFICES ASSUME NEW a \in hw  PROVE FALSE
    OBVIOUS
  <2>2. a.slot \in Slots /\ a.r \in Nat /\ a.c \in Nat
    BY DEF TypeInv, TypeDev, Jobs
  <2>3. [slot |-> a.slot, r |-> a.r, c |-> a.c]
          \in [slot : Slots, r : Nat, c : Nat]
    BY <2>2
  <2>4. [slot |-> a.slot, r |-> a.r, c |-> a.c] \in Tickets
    BY <2>3 DEF Tickets
  <2>. QED  BY <2>4, <1>3
<1>5. \A k \in Slots : ~Answered(cur[k])
  BY <1>3, AnsweredTicket DEF TypeInv
<1>. QED  BY <1>3, <1>4, <1>5

-----------------------------------------------------------------------------
(* The consumer takes requests, does them in software and ends.            *)

LEMMA TakeKeeps ==
    ASSUME AsyncAssumption, Inv, CTake
    PROVE  Inv'
<1>. USE DEF appVars, reqVars, inVars, outVars, streamVars, devVars
<1>1. TypeInv /\ RunInv /\ pcC = "loop"
  BY DEF Inv, CTake
<1>2. /\ UNCHANGED <<load, app, async_ctrl_init, obj, results, dst, sess,
                     instance, n, jIn, pcP, direct, outVars, streamVars,
                     devVars>>
      /\ queue # << >> /\ req' = Head(queue) /\ queue' = Tail(queue)
      /\ pcC' = IF instance THEN "dir" ELSE "soft"
  BY DEF CTake
<1>3. queue \in Seq(Nat)
  BY <1>1 DEF TypeInv, TypeApp
<1>4. /\ queue' \in Seq(Nat) /\ Len(queue) \in Nat /\ Len(queue) >= 1
      /\ Len(queue') = Len(queue) - 1
      /\ \A i \in 1..Len(queue') : queue'[i] = queue[i + 1]
      /\ req' = queue[1]
  BY <1>2, <1>3
<1>5. Len(results) \in Nat /\ Taken \in Nat /\ Taken < Len(results)
      /\ (\A r \in 1..Taken : r \in Known)
  BY <1>1, <1>4, TakenKnown DEF RunInv, TypeInv, Taken
<1>6. Taken' = Taken + 1 /\ req' = Taken'
  BY <1>1, <1>2, <1>4, <1>5 DEF RunInv, QueueInv, Taken
<1>7. Taken' \in Known /\ Known' = Known
  BY <1>2, <1>5, <1>6 DEF Known
<1>8. pcC' \in {"dir", "soft"}
  BY <1>2
<1>9. /\ ~Working /\ Working' /\ NextUnit' = 0 /\ NextUnit = 0
      /\ NextSeq' = sess.seq /\ NextSeq = sess.seq
  BY <1>1, <1>2, <1>8 DEF Working, NextUnit, NextSeq
<1>10. Tickets' = Tickets
  BY <1>2, TicketsKept
<1>11. /\ \A t \in Tickets : At(t)' = At(t) /\ sreq'[t.slot] = sreq[t.slot]
       /\ NextSeq' = NextSeq /\ sess' = sess
  BY <1>2, <1>9 DEF At
<1>12. /\ \A r : Units(r)' = Units(r)
       /\ \A r : Finished(r)' = Finished(r)
       /\ obj' = obj /\ results' = results /\ dst' = dst
  BY <1>2 DEF Units, Shape, Finished
<1>13. TypeInv'
  BY <1>1, <1>2, <1>4, <1>8
  DEF TypeInv, TypeApp, TypeSess, TypeIn, TypeOut, TypeStream, TypeDev, Known
<1>14. SlotInv'
  BY <1>1, <1>2, <1>8 DEF RunInv, SlotInv, InFlight, Answered, Sane
<1>15. SeqInv'
  BY <1>1, <1>2, <1>10, <1>11, SeqKept DEF RunInv, SeqInv, Answered
<1>16. CountInv'
  BY <1>1, <1>2, <1>8 DEF RunInv, CountInv
<1>17. StageInv'
  BY <1>1, <1>2, <1>8 DEF RunInv, StageInv
<1>18. QueueInv'
  <2>1. \A i \in 1..Len(queue') : queue'[i] = Taken' + i
    <3>1. \A i \in 1..Len(queue) : queue[i] = Taken + i
      BY <1>1 DEF RunInv, QueueInv
    <3>. QED  BY <3>1, <1>4, <1>5, <1>6
  <2>. QED  BY <1>5, <1>6, <1>8, <2>1 DEF QueueInv
<1>19. LengthInv'
  <2>1. SUFFICES ASSUME NEW r \in Known
                 PROVE
        /\ results[r].calls \in {0, 1}
        /\ obj[r].live <=> results[r].calls = 0
        /\ results[r].calls = 0 =>
              /\ results[r].src_len = Units(r)
              /\ obj[r].in_len = obj[r].out_len
              /\ obj[r].in_len <= Units(r)
              /\ dst[r] = [i \in 1..(Units(r) + 1) |->
                             IF i <= obj[r].in_len THEN i ELSE 0]
        /\ r > Taken' \/ r = Taken' =>
              results[r].calls = 0 /\ obj[r].in_len = 0
    BY <1>7, <1>9, <1>12 DEF LengthInv
  <2>2. r > Taken' \/ r = Taken' => r > Taken
    BY <1>5, <1>6 DEF Known
  <2>. QED  BY <1>1, <2>2 DEF RunInv, LengthInv
<1>20. TicketInv'
  <2>1. \A t \in Tickets : t.r \in 1..Taken' /\ t.r # Taken'
    BY <1>1, <1>5, <1>6 DEF RunInv, ChainInv, TicketInv
  <2>. QED
    BY <1>1, <1>10, <1>11, <1>12, <2>1 DEF RunInv, ChainInv, TicketInv
<1>21. OrderInv' /\ HeadInv'
  BY <1>1, <1>10, <1>11, <1>12 DEF RunInv, ChainInv, OrderInv, HeadInv
<1>22. TailInv'
  <2>1. \A t \in Tickets : At(t) + 1 = NextSeq =>
          t.r = Taken /\ t.c = Units(t.r)
    BY <1>1, <1>9 DEF RunInv, ChainInv, TailInv
  <2>. QED
    BY <1>5, <1>6, <1>9, <1>10, <1>11, <1>12, <2>1 DEF TailInv
<1>23. IdleInv'
  <2>1. SUFFICES ASSUME sess.seq_in = NextSeq
                 PROVE  /\ \A r \in 1..Taken : Finished(r)
                        /\ obj[Taken'].in_len = 0
                        /\ results[Taken'].calls = 0
                        /\ Units(Taken') # 0
    BY <1>5, <1>6, <1>9, <1>11, <1>12 DEF IdleInv, Finished
  <2>2. \A r \in 1..(Taken - 1) : Finished(r)
    BY <2>1, <1>1 DEF RunInv, ChainInv, IdleInv
  <2>3. Taken > 0 => Finished(Taken)
    BY <2>1, <1>1, <1>9 DEF RunInv, ChainInv, IdleInv
  <2>4. \A r \in 1..Taken : r \in 1..(Taken - 1) \/ (r = Taken /\ Taken > 0)
    BY <1>5
  <2>5. obj[Taken'].in_len = 0 /\ results[Taken'].calls = 0
    <3>1. Taken' > Taken
      BY <1>5, <1>6
    <3>. QED  BY <1>1, <1>7, <3>1 DEF RunInv, LengthInv
  <2>6. Units(Taken') # 0
    BY <1>1, <1>7, UnitsPositive DEF TypeInv
  <2>. QED  BY <2>2, <2>3, <2>4, <2>5, <2>6
<1>24. DoneInv'
  BY <1>1, <1>2, <1>5, <1>6, <1>12 DEF RunInv, ChainInv, DoneInv
<1>25. CalledBackOnce' /\ CallbackTrue' /\ CalledInOrder'
  BY <1>2, PropertiesKept DEF Inv
<1>. QED
  BY <1>8, <1>13, <1>14, <1>15, <1>16, <1>17, <1>18, <1>19, <1>20, <1>21,
     <1>22, <1>23, <1>24, <1>25
  DEF Inv, RunInv, ChainInv

\* A request that is done in software while there is no instance: everything
\* before it has been called back.
LEMMA SoftKeeps ==
    ASSUME AsyncAssumption, Inv, ~dropped, CSoft
    PROVE  Inv'
<1>. USE DEF appVars, reqVars, inVars, outVars, streamVars, devVars
<1>1. TypeInv /\ RunInv /\ pcC = "soft" /\ ~instance /\ pcP = "none"
  BY DEF Inv, CSoft, RunInv, StageInv
<1>2. /\ UNCHANGED <<load, app, queue, async_ctrl_init, inVars, pcP, direct,
                     outVars, streamVars, devVars>>
      /\ obj' = Freed(obj, req) /\ sess' = FreshSess /\ pcC' = "grab"
  BY DEF CSoft
<1>. DEFINE u == Len(Shape(req).kinds)
            long == [results EXCEPT ![req].dest_len = u]
<1>3. \/ /\ dst' = [dst EXCEPT ![req] =
                       [i \in DOMAIN @ |-> IF i <= u THEN i ELSE 0]]
         /\ results' = Called(long, req, "OK")
      \/ dst' = dst /\ results' = Called(results, req, "FAIL")
  BY DEF CSoft
<1>4. /\ req = Taken /\ Taken \in Known /\ Taken \in Nat
      /\ \A r \in 1..Taken : r \in Known
  BY <1>1, TakenKnown DEF RunInv, TypeInv, Working
<1>5. /\ results[req] \in Results /\ obj[req] \in Objects
      /\ u \in Nat /\ u >= 1 /\ u = Units(req)
  BY <1>1, <1>4, UnitsPositive DEF TypeInv, Units
<1>6. /\ results \in Seq(Results) /\ obj \in Seq(Objects)
      /\ dst \in Seq(Seq(Int))
      /\ Len(obj) = Len(results) /\ Len(dst) = Len(results)
      /\ req \in 1..Len(results) /\ Len(results) \in Nat
  BY <1>1, <1>4 DEF TypeInv, TypeApp, Known
<1>7. /\ results[req].calls = 0 /\ results[req].src_len = u
      /\ dst[req] = [i \in 1..(u + 1) |-> IF i <= obj[req].in_len THEN i ELSE 0]
      /\ obj[req].in_len = 0
  <2>1. NextUnit = 0 /\ Working
    BY <1>1 DEF NextUnit, Working
  <2>. QED  BY <2>1, <1>1, <1>4, <1>5 DEF RunInv, LengthInv
<1>8. /\ obj' \in Seq(Objects) /\ Len(obj') = Len(obj)
      /\ \A r \in Known : r # req => obj'[r] = obj[r]
      /\ obj'[req].live = FALSE
  <2>1. obj \in Seq(Objects) /\ req \in 1..Len(obj)
    BY <1>6
  <2>2. /\ Freed(obj, req) \in Seq(Objects)
        /\ Len(Freed(obj, req)) = Len(obj)
        /\ \A q \in 1..Len(obj) : q # req => Freed(obj, req)[q] = obj[q]
        /\ Freed(obj, req)[req].live = FALSE
    BY <2>1, FreedOnly, Zenon
  <2>. QED  BY <1>2, <1>6, <2>2 DEF Known
<1>9. /\ long \in Seq(Results) /\ Len(long) = Len(results)
      /\ \A r \in Known : r # req => long[r] = results[r]
      /\ long[req].shape = results[req].shape
      /\ long[req].calls = results[req].calls
      /\ long[req].src_len = results[req].src_len
      /\ long[req].dest_len = u
  <2>. DEFINE new == [results[req] EXCEPT !.dest_len = u]
  <2>1. /\ new \in Results /\ new.shape = results[req].shape
        /\ new.calls = results[req].calls /\ new.dest_len = u
        /\ new.src_len = results[req].src_len
    BY <1>5 DEF Results
  <2>2. long = [results EXCEPT ![req] = new]
    OBVIOUS
  <2>. HIDE DEF new, u, long
  <2>. QED  BY <2>1, <2>2, <1>6 DEF Known
<1>. HIDE DEF long
<1>10. /\ results' \in Seq(Results) /\ Len(results') = Len(results)
       /\ \A r \in Known : r # req => results'[r] = results[r]
       /\ results'[req].shape = results[req].shape
       /\ results'[req].calls = 1
       /\ results'[req].status = "OK" =>
            /\ results'[req].src_len = u /\ results'[req].dest_len = u
            /\ dst' = [dst EXCEPT ![req] =
                        [i \in DOMAIN @ |-> IF i <= u THEN i ELSE 0]]
  <2>1. CASE results' = Called(long, req, "OK")
             /\ dst' = [dst EXCEPT ![req] =
                        [i \in DOMAIN @ |-> IF i <= u THEN i ELSE 0]]
    <3>1. /\ results' \in Seq(Results) /\ Len(results') = Len(long)
          /\ \A q \in 1..Len(long) : q # req => results'[q] = long[q]
          /\ results'[req].shape = long[req].shape
          /\ results'[req].calls = long[req].calls + 1
          /\ results'[req].src_len = long[req].src_len
          /\ results'[req].dest_len = long[req].dest_len
      <4>1. long \in Seq(Results) /\ req \in 1..Len(long)
        BY <1>6, <1>9
      <4>2. results' = Called(long, req, "OK")
        BY <2>1
      <4>. HIDE DEF u
      <4>3. "OK" \in {"OK", "FAIL"}
        OBVIOUS
      <4>4. /\ Called(long, req, "OK") \in Seq(Results)
            /\ Len(Called(long, req, "OK")) = Len(long)
            /\ \A q \in 1..Len(long) : q # req =>
                  Called(long, req, "OK")[q] = long[q]
            /\ Called(long, req, "OK")[req].shape = long[req].shape
            /\ Called(long, req, "OK")[req].calls = long[req].calls + 1
            /\ Called(long, req, "OK")[req].src_len = long[req].src_len
            /\ Called(long, req, "OK")[req].dest_len = long[req].dest_len
        BY <4>1, <4>3, CalledOnly
      <4>. QED  BY <4>2, <4>4, Zenon
    <3>. QED  BY <2>1, <3>1, <1>7, <1>9 DEF Known
  <2>2. CASE results' = Called(results, req, "FAIL")
    <3>1. /\ results' \in Seq(Results) /\ Len(results') = Len(results)
          /\ \A q \in 1..Len(results) : q # req => results'[q] = results[q]
          /\ results'[req].shape = results[req].shape
          /\ results'[req].calls = results[req].calls + 1
          /\ results'[req].status = "FAIL"
      <4>1. results \in Seq(Results) /\ req \in 1..Len(results)
        BY <1>6
      <4>2. "FAIL" \in {"OK", "FAIL"}
        OBVIOUS
      <4>3. /\ Called(results, req, "FAIL") \in Seq(Results)
            /\ Len(Called(results, req, "FAIL")) = Len(results)
            /\ \A q \in 1..Len(results) : q # req =>
                  Called(results, req, "FAIL")[q] = results[q]
            /\ Called(results, req, "FAIL")[req].shape = results[req].shape
            /\ Called(results, req, "FAIL")[req].calls =
                  results[req].calls + 1
            /\ Called(results, req, "FAIL")[req].status = "FAIL"
        <5>1. \A res \in Seq(Results) : \A r \in 1..Len(res) :
           /\ Called(res, r, "FAIL") \in Seq(Results)
           /\ Len(Called(res, r, "FAIL")) = Len(res)
           /\ Called(res, r, "FAIL")[r].shape = res[r].shape
           /\ Called(res, r, "FAIL")[r].calls = res[r].calls + 1
           /\ Called(res, r, "FAIL")[r].status = "FAIL"
          BY <4>2, CalledOnly, ZenonT(40)
        <5>2. \A res \in Seq(Results) : \A r \in 1..Len(res) :
           \A q \in 1..Len(res) : q # r =>
                 Called(res, r, "FAIL")[q] = res[q]
          <6>1. SUFFICES ASSUME NEW res \in Seq(Results),
                                NEW r \in 1..Len(res)
                         PROVE  \A q \in 1..Len(res) : q # r =>
                                   Called(res, r, "FAIL")[q] = res[q]
            OBVIOUS
          <6>2. /\ \A q \in 1..Len(res) : q # r =>
                      Called(res, r, "FAIL")[q] = res[q]
                /\ Len(Called(res, r, "FAIL")) = Len(res)
            BY <6>1, <4>2, CalledOnly
          <6>. QED  BY <6>2
        <5>. QED  BY <4>1, <5>1, <5>2, Zenon
      <4>. QED  BY <2>2, <4>3, Zenon
    <3>. QED  BY <3>1, <1>7 DEF Known
  <2>. QED  BY <2>1, <2>2, <1>3
<1>11. /\ dst' \in Seq(Seq(Int)) /\ Len(dst') = Len(dst)
       /\ \A r \in Known : r # req => dst'[r] = dst[r]
       /\ results'[req].status = "OK" =>
            dst'[req] = [i \in 1..(u + 1) |-> IF i <= u THEN i ELSE 0]
  <2>. DEFINE out == [i \in 1..(u + 1) |-> IF i <= u THEN i ELSE 0]
  <2>1. DOMAIN dst[req] = 1..(u + 1)
    BY <1>7
  <2>2. [i \in DOMAIN dst[req] |-> IF i <= u THEN i ELSE 0] = out
    BY <2>1
  <2>3. out \in Seq(Int)
    BY <1>5
  <2>4. dst' = [dst EXCEPT ![req] = out] \/ dst' = dst
    BY <1>3, <2>2
  <2>5. results'[req].status = "OK" => dst' = [dst EXCEPT ![req] = out]
    BY <1>10, <2>2
  <2>. HIDE DEF out
  <2>6. [dst EXCEPT ![req] = out] \in Seq(Seq(Int))
        /\ Len([dst EXCEPT ![req] = out]) = Len(dst)
        /\ (\A r \in Known : r # req => [dst EXCEPT ![req] = out][r] = dst[r])
        /\ [dst EXCEPT ![req] = out][req] = out
    BY <1>6, <2>3 DEF Known
  <2>7. dst' \in Seq(Seq(Int)) /\ Len(dst') = Len(dst)
        /\ \A r \in Known : r # req => dst'[r] = dst[r]
    BY <1>6, <2>4, <2>6
  <2>8. results'[req].status = "OK" => dst'[req] = out
    BY <2>5, <2>6
  <2>. QED  BY <2>7, <2>8 DEF out
<1>. HIDE DEF u
<1>12. /\ Known' = Known /\ Taken' = Taken /\ req' = req
       /\ \A r \in Known : Shape(r)' = Shape(r) /\ Units(r)' = Units(r)
  BY <1>2, <1>4, <1>10 DEF Known, Taken, Shape, Units
<1>13. /\ sess.seq = 0 /\ sess.seq_in = 0 /\ NextSeq = 0
       /\ sess'.seq = 0 /\ sess'.seq_in = 0 /\ NextSeq' = 0 /\ ~Working'
       /\ sess' \in Sessions
  BY <1>1, <1>2
  DEF RunInv, CountInv, NextSeq, Working, FreshSess, Sessions
<1>14. /\ Tickets = {} /\ hw = {} /\ (\A k \in Slots : ~Answered(cur[k]))
       /\ Tickets' = {}
  <2>1. Tickets = {} /\ hw = {} /\ (\A k \in Slots : ~Answered(cur[k]))
    BY <1>1, <1>13, NothingLeft DEF RunInv
  <2>. QED  BY <1>2, <2>1, TicketsKept
<1>15. \A r \in 1..(Taken - 1) : results[r].calls = 1
  BY <1>1, <1>13 DEF RunInv, ChainInv, IdleInv, Finished
<1>16. TypeInv'
  <2>1. TypeApp'
    <3>1. \A r \in Known' : results'[r].shape \in load'.shapes
      BY <1>1, <1>2, <1>10, <1>12 DEF TypeInv, TypeApp
    <3>. QED
      BY <1>1, <1>2, <1>6, <1>8, <1>10, <1>11, <3>1 DEF TypeInv, TypeApp
  <2>2. TypeSess'
    BY <1>13 DEF TypeSess
  <2>. QED
    BY <2>1, <2>2, <1>1, <1>2
    DEF TypeInv, TypeIn, TypeOut, TypeStream, TypeDev
<1>17. SlotInv'
  BY <1>2, <1>14 DEF SlotInv, Answered
<1>18. SeqInv'
  BY <1>1, <1>2, <1>13, <1>14 DEF SeqInv
<1>19. CountInv'
  BY <1>1, <1>2, <1>13 DEF CountInv, FreshSess
<1>20. StageInv'
  BY <1>1, <1>2 DEF RunInv, StageInv
<1>21. QueueInv'
  BY <1>1, <1>2, <1>12, <1>13 DEF RunInv, QueueInv
<1>22. LengthInv'
  <2>1. SUFFICES ASSUME NEW r \in Known
                 PROVE
        /\ results'[r].calls \in {0, 1}
        /\ obj'[r].live <=> results'[r].calls = 0
        /\ results'[r].calls = 0 =>
              /\ results'[r].src_len = Units(r)
              /\ obj'[r].in_len = obj'[r].out_len
              /\ obj'[r].in_len <= Units(r)
              /\ dst'[r] = [i \in 1..(Units(r) + 1) |->
                             IF i <= obj'[r].in_len THEN i ELSE 0]
        /\ r > Taken => results'[r].calls = 0 /\ obj'[r].in_len = 0
    BY <1>12, <1>13 DEF LengthInv
  <2>2. CASE r = req
    BY <2>2, <1>4, <1>8, <1>10
  <2>3. CASE r # req
    <3>1. results'[r] = results[r] /\ obj'[r] = obj[r] /\ dst'[r] = dst[r]
      BY <2>3, <1>8, <1>10, <1>11
    <3>. QED  BY <3>1, <1>1 DEF RunInv, LengthInv
  <2>. QED  BY <2>2, <2>3
<1>23. ChainInv'
  <2>1. \A r \in 1..Taken : results'[r].calls = 1
    <3>1. SUFFICES ASSUME NEW r \in 1..Taken  PROVE results'[r].calls = 1
      OBVIOUS
    <3>2. r = req \/ (r \in 1..(Taken - 1) /\ r # req /\ r \in Known)
      BY <1>4
    <3>. QED  BY <3>2, <1>10, <1>15
  <2>2. IdleInv'
    BY <1>4, <1>12, <1>13, <2>1 DEF IdleInv, Finished
  <2>3. DoneInv'
    BY <1>1, <1>2 DEF DoneInv
  <2>. QED
    BY <2>2, <2>3, <1>14
    DEF ChainInv, TicketInv, OrderInv, HeadInv, TailInv
<1>24. CalledBackOnce' /\ CallbackTrue' /\ CalledInOrder'
  <2>1. DOMAIN results = Known /\ DOMAIN results' = Known
    BY <1>6, <1>10 DEF Known
  <2>2. CalledBackOnce'
    <3>1. \A r \in Known : results'[r].calls \in {0, 1}
      BY <1>22, <1>12 DEF LengthInv
    <3>2. \A r \in Known : results'[r].calls <= 1
      BY <3>1
    <3>. QED  BY <2>1, <3>2 DEF CalledBackOnce
  <2>3. CallbackTrue'
    <3>1. SUFFICES ASSUME NEW r \in Known, results'[r].calls > 0,
                          results'[r].status = "OK"
                   PROVE  /\ results'[r].src_len = Units(r)
                          /\ results'[r].dest_len = Units(r)
                          /\ dst'[r] = [i \in 1..(Units(r) + 1) |->
                                          IF i <= Units(r) THEN i ELSE 0]
      BY <2>1, <1>12 DEF CallbackTrue, Units
    <3>2. CASE r = req
      BY <3>1, <3>2, <1>5, <1>10, <1>11
    <3>3. CASE r # req
      <4>1. results'[r] = results[r] /\ dst'[r] = dst[r]
        BY <3>3, <1>10, <1>11
      <4>. QED  BY <4>1, <3>1, <2>1 DEF CallbackTrue, Inv, Units
    <3>. QED  BY <3>2, <3>3
  <2>4. CalledInOrder'
    <3>1. SUFFICES ASSUME NEW r \in Known, NEW q \in Known, r < q,
                          results'[q].calls > 0
                   PROVE  results'[r].calls > 0
      BY <2>1 DEF CalledInOrder
    <3>2. CASE q = req
      <4>1. r \in 1..(Taken - 1) /\ r # req
        BY <3>1, <3>2, <1>4 DEF Known
      <4>. QED  BY <4>1, <1>10, <1>15
    <3>3. CASE q # req
      <4>1. results[q].calls > 0
        BY <3>1, <3>3, <1>10
      <4>2. results[r].calls > 0
        BY <3>1, <4>1, <2>1 DEF CalledInOrder, Inv
      <4>. QED  BY <4>2, <1>10
    <3>. QED  BY <3>2, <3>3
  <2>. QED  BY <2>2, <2>3, <2>4
<1>. QED
  BY <1>1, <1>2, <1>16, <1>17, <1>18, <1>19, <1>20, <1>21, <1>22, <1>23, <1>24
  DEF Inv, RunInv

\* The polling thread has ended, so every unit has been answered: the counters
\* may start anew.
LEMMA SwitchKeeps ==
    ASSUME AsyncAssumption, Inv, CSwitch
    PROVE  Inv'
<1>. USE DEF appVars, reqVars, inVars, outVars, streamVars, devVars
<1>1. TypeInv /\ RunInv /\ pcC = "switch" /\ pcP = "ended" /\ instance
  BY DEF Inv, CSwitch, RunInv, StageInv
<1>2. /\ UNCHANGED <<load, app, queue, async_ctrl_init, obj, results, dst,
                     inVars, streamVars, devVars>>
      /\ sess' = FreshSess /\ direct' = Shape(req).op /\ pcP' = "test"
      /\ pcC' = "start"
  BY DEF CSwitch
<1>3. Taken \in Known /\ req = Taken
  BY <1>1, TakenKnown DEF RunInv, TypeInv, Working
<1>4. direct' \in {"comp", "decomp"}
  BY <1>1, <1>2, <1>3, UnitsPositive DEF TypeInv, Shapes
<1>5. sess.seq_in = NextSeq
  BY <1>1 DEF RunInv, CountInv, NextSeq
<1>6. /\ Tickets = {} /\ hw = {} /\ (\A k \in Slots : ~Answered(cur[k]))
      /\ Tickets' = {}
  <2>1. Tickets = {} /\ hw = {} /\ (\A k \in Slots : ~Answered(cur[k]))
    BY <1>1, <1>5, NothingLeft DEF RunInv
  <2>. QED  BY <1>2, <2>1, TicketsKept
<1>7. /\ sess'.seq = 0 /\ sess'.seq_in = 0 /\ NextSeq' = 0
      /\ sess' \in Sessions /\ Working /\ Working'
      /\ NextUnit = 0 /\ NextUnit' = 0
  BY <1>1, <1>2 DEF NextSeq, Working, NextUnit, FreshSess, Sessions
<1>8. /\ Known' = Known /\ Taken' = Taken /\ req' = req
      /\ \A r : Shape(r)' = Shape(r) /\ Units(r)' = Units(r)
      /\ \A r : Finished(r)' = Finished(r)
  BY <1>1, <1>2 DEF Known, Taken, Shape, Units, Finished
<1>9. TypeInv'
  BY <1>1, <1>2, <1>4, <1>7, <1>8
  DEF TypeInv, TypeApp, TypeSess, TypeIn, TypeOut, TypeStream, TypeDev
<1>10. SlotInv'
  BY <1>2, <1>6 DEF SlotInv, Answered
<1>11. SeqInv'
  BY <1>2, <1>6, <1>7 DEF SeqInv
<1>12. CountInv'
  BY <1>2, <1>7 DEF CountInv, FreshSess
<1>13. StageInv'
  BY <1>1, <1>2, <1>8 DEF StageInv
<1>14. QueueInv'
  BY <1>1, <1>2, <1>7, <1>8 DEF RunInv, QueueInv
<1>15. LengthInv'
  BY <1>1, <1>2, <1>7, <1>8 DEF RunInv, LengthInv
<1>16. ChainInv'
  <2>1. IdleInv'
    BY <1>1, <1>2, <1>5, <1>7, <1>8 DEF RunInv, ChainInv, IdleInv
  <2>. QED
    BY <2>1, <1>2, <1>6
    DEF ChainInv, TicketInv, OrderInv, HeadInv, TailInv, DoneInv
<1>17. CalledBackOnce' /\ CallbackTrue' /\ CalledInOrder'
  BY <1>2, PropertiesKept DEF Inv
<1>. QED
  BY <1>2, <1>9, <1>10, <1>11, <1>12, <1>13, <1>14, <1>15, <1>16, <1>17
  DEF Inv, RunInv

LEMMA ClearKeeps ==
    ASSUME Inv, CClear
    PROVE  Inv'
<1>. USE DEF appVars, reqVars, inVars, outVars, streamVars, devVars
<1>1. TypeInv /\ app # "run" /\ pcP \in {"none", "ended"}
  BY DEF Inv, CClear, RunInv, StageInv
<1>2. /\ UNCHANGED <<load, app, async_ctrl_init, results, dst, sess, n, jIn,
                     pcP, direct, outVars, streamVars, devVars>>
      /\ queue' = << >> /\ instance' = FALSE /\ pcC' = "ended"
  BY DEF CClear
<1>3. obj' \in Seq(Objects) /\ Len(obj') = Len(obj)
  <2>1. obj \in Seq(Objects) /\ Len(obj) \in Nat
    BY <1>1 DEF TypeInv, TypeApp
  <2>2. obj' = [r \in 1..Len(obj) |->
                 IF \E i \in 1..Len(queue) : queue[i] = r
                 THEN [obj[r] EXCEPT !.live = FALSE] ELSE obj[r]]
    BY <2>1 DEF CClear
  <2>3. \A x \in Objects : [x EXCEPT !.live = FALSE] \in Objects
    BY DEF Objects
  <2>4. \A r \in 1..Len(obj) : obj[r] \in Objects
    BY <2>1
  <2>5. \A r \in 1..Len(obj) : obj'[r] \in Objects
    <3>1. SUFFICES ASSUME NEW r \in 1..Len(obj)
                   PROVE  obj'[r] \in Objects
      OBVIOUS
    <3>2. obj'[r] = [obj[r] EXCEPT !.live = FALSE] \/ obj'[r] = obj[r]
      BY <2>2, Zenon
    <3>. QED  BY <3>2, <2>3, <2>4, Zenon
  <2>6. obj' \in [1..Len(obj) -> Objects]
    BY <2>2, <2>5, Zenon
  <2>. QED  BY <2>1, <2>6, FunctionIsSeq, Zenon
<1>4. TypeInv'
  <2>1. TypeApp'
    <3>1. queue' \in Seq(Nat)
      BY <1>2
    <3>2. async_ctrl_init' = (app' = "run")
      BY <1>1, <1>2 DEF TypeInv, TypeApp
    <3>3. Len(obj') = Len(results') /\ Known' = Known
      BY <1>1, <1>2, <1>3 DEF TypeInv, TypeApp, Known
    <3>. QED
      BY <1>1, <1>2, <1>3, <3>1, <3>2, <3>3 DEF TypeInv, TypeApp
  <2>. QED
    BY <2>1, <1>1, <1>2
    DEF TypeInv, TypeSess, TypeIn, TypeOut, TypeStream, TypeDev
<1>5. CalledBackOnce' /\ CallbackTrue' /\ CalledInOrder'
  BY <1>2, PropertiesKept DEF Inv
<1>. QED  BY <1>1, <1>2, <1>4, <1>5 DEF Inv

-----------------------------------------------------------------------------
(* The submissions.                                                        *)

\* What is asked of the loads says of the request under way.
LEMMA OffloadedHeader ==
    ASSUME Offloaded, TypeInv, QueueInv, StageInv, ~sess.force_sw,
           pcC = "check"
    PROVE  CheckHeader = "OK"
<1>1. Taken \in Known /\ req = Taken
  BY TakenKnown DEF TypeInv, Working
<1>2. /\ load \in Loads /\ Shape(req) \in load.shapes
      /\ Shape(req).op = "decomp"
  BY <1>1 DEF TypeInv, TypeApp, Shape, StageInv
<1>3. /\ Len(Shape(req).kinds) <= Shape(req).room
      /\ \A i \in 1..Len(Shape(req).kinds) :
            Shape(req).kinds[i] \in {"ok", "sum"}
  BY <1>2 DEF Offloaded
<1>4. /\ n \in Nat /\ Len(Shape(req).kinds) \in Nat /\ Shape(req).room \in Nat
      /\ n < Len(Shape(req).kinds)
  <2>1. Shape(req) \in Shapes /\ Units(req) \in Nat
    BY <1>1, UnitsPositive DEF TypeInv
  <2>. QED
    BY <2>1, <1>1 DEF Shapes, Units, TypeInv, TypeIn, QueueInv
<1>5. n + 1 \in 1..Len(Shape(req).kinds) /\ ~(n >= Shape(req).room)
  BY <1>3, <1>4
<1>6. Shape(req).kinds[n + 1] \in {"ok", "sum"}
  BY <1>3, <1>5
<1>. QED  BY <1>5, <1>6 DEF CheckHeader

LEMMA InCheckKeeps ==
    ASSUME Offloaded, Inv, InCheck
    PROVE  Inv'
<1>. USE DEF appVars, reqVars, inVars, outVars, streamVars, devVars
<1>1. TypeInv /\ RunInv /\ pcC # "ended"
  BY DEF Inv, RunInv, StageInv, TypeInv, TypeDev, InCheck
<1>2. /\ UNCHANGED <<load, app, async_ctrl_init, queue, obj, results, dst, sess,
                     inVars, pcP, direct, outVars, streamVars, devVars>>
      /\ pcC = "check" /\ pcC' = "buf"
  <2>1. pcC = "check" /\ heartbeat = TRUE
    BY <1>1 DEF InCheck, TypeInv, TypeDev
  <2>2. CheckHeader = "OK"
    BY <1>1, <2>1, OffloadedHeader DEF RunInv, CountInv
  <2>3. pcC' = "buf" /\ sess' = sess
    BY <2>1, <2>2 DEF InCheck
  <2>. QED  BY <2>1, <2>3 DEF InCheck
<1>3. Tickets' = Tickets /\ Taken' = Taken
  BY <1>2, TicketsKept DEF Taken
<1>4. /\ \A t \in Tickets : At(t)' = At(t) /\ sreq'[t.slot] = sreq[t.slot]
      /\ NextSeq' = NextSeq /\ Working' = Working /\ NextUnit' = NextUnit
      /\ sess'.seq_in = sess.seq_in
  BY <1>1, <1>2 DEF At, NextSeq, Working, NextUnit
<1>5. TypeInv'
  BY <1>1, <1>2
  DEF TypeInv, TypeApp, TypeSess, TypeIn, TypeOut, TypeStream, TypeDev,
      Known, Sessions
<1>6. SlotInv'
  BY <1>1, <1>2 DEF RunInv, SlotInv, Claimed, InFlight, Answered, Sane
<1>7. SeqInv'
  BY <1>1, <1>2, <1>3, <1>4, SeqKept DEF RunInv, SeqInv, Answered
<1>8. CountInv'
  BY <1>1, <1>2 DEF RunInv, CountInv, TypeInv, TypeSess, Sessions
<1>9. StageInv'
  BY <1>1, <1>2 DEF RunInv, StageInv, Shape, TypeInv, TypeOut
<1>10. QueueInv'
  BY <1>1, <1>2, <1>3, <1>4 DEF RunInv, QueueInv, Units, Shape, Working
<1>11. LengthInv' /\ ChainInv'
  BY <1>1, <1>2, <1>3, <1>4, ChainKept DEF RunInv
<1>12. CalledBackOnce' /\ CallbackTrue' /\ CalledInOrder'
  BY <1>2, PropertiesKept DEF Inv
<1>. QED
  BY <1>1, <1>2, <1>5, <1>6, <1>7, <1>8, <1>9, <1>10, <1>11, <1>12
  DEF Inv, RunInv

\* What the four steps of a buffer do to its cursors.
LEMMA CursorSteps ==
    ASSUME NEW c \in Cursors
    PROVE  /\ Unused(c) =>
                 /\ ~InFlight(c) /\ ~Answered(c)
                 /\ [c EXCEPT !.src1 = @ + 1] \in Cursors
                 /\ Claimed([c EXCEPT !.src1 = @ + 1])
           /\ Claimed(c) =>
                 /\ ~InFlight(c) /\ ~Answered(c)
                 /\ [c EXCEPT !.src2 = @ + 1] \in Cursors
                 /\ InFlight([c EXCEPT !.src2 = @ + 1])
           /\ InFlight(c) =>
                 /\ ~Answered(c)
                 /\ [c EXCEPT !.sink1 = @ + 1] \in Cursors
                 /\ Answered([c EXCEPT !.sink1 = @ + 1])
           /\ Answered(c) =>
                 /\ ~InFlight(c)
                 /\ [c EXCEPT !.sink2 = @ + 1] \in Cursors
                 /\ Unused([c EXCEPT !.sink2 = @ + 1])
<1>1. /\ c.src1 \in Int /\ c.src2 \in Int /\ c.sink1 \in Int /\ c.sink2 \in Int
  BY DEF Cursors
<1>2. /\ [c EXCEPT !.src1 = @ + 1] \in Cursors
      /\ [c EXCEPT !.src2 = @ + 1] \in Cursors
      /\ [c EXCEPT !.sink1 = @ + 1] \in Cursors
      /\ [c EXCEPT !.sink2 = @ + 1] \in Cursors
  BY <1>1 DEF Cursors
<1>. DEFINE a1 == [c EXCEPT !.src1 = @ + 1]
            a2 == [c EXCEPT !.src2 = @ + 1]
            a3 == [c EXCEPT !.sink1 = @ + 1]
            a4 == [c EXCEPT !.sink2 = @ + 1]
<1>3. /\ a1.src1 = c.src1 + 1 /\ a1.src2 = c.src2
      /\ a1.sink1 = c.sink1 /\ a1.sink2 = c.sink2
      /\ a2.src1 = c.src1 /\ a2.src2 = c.src2 + 1
      /\ a2.sink1 = c.sink1 /\ a2.sink2 = c.sink2
  BY DEF Cursors
<1>4. /\ a3.src1 = c.src1 /\ a3.src2 = c.src2
      /\ a3.sink1 = c.sink1 + 1 /\ a3.sink2 = c.sink2
      /\ a4.src1 = c.src1 /\ a4.src2 = c.src2
      /\ a4.sink1 = c.sink1 /\ a4.sink2 = c.sink2 + 1
  BY DEF Cursors
<1>. HIDE DEF a1, a2, a3, a4
<1>5. Unused(c) => ~InFlight(c) /\ ~Answered(c) /\ Claimed(a1)
  BY <1>1, <1>3 DEF Unused, InFlight, Answered, Claimed
<1>6. Claimed(c) => ~InFlight(c) /\ ~Answered(c) /\ InFlight(a2)
  BY <1>1, <1>3 DEF InFlight, Answered, Claimed
<1>7. InFlight(c) => ~Answered(c) /\ Answered(a3)
  BY <1>1, <1>4 DEF InFlight, Answered
<1>8. Answered(c) => ~InFlight(c) /\ Unused(a4)
  BY <1>1, <1>4 DEF Unused, InFlight, Answered
<1>. QED  BY <1>2, <1>5, <1>6, <1>7, <1>8 DEF a1, a2, a3, a4

\* A slot k moves on, and the others stay.
LEMMA SlotMoves ==
    ASSUME TypeStream, NEW k \in Slots, NEW c \in Cursors,
           cur' = [cur EXCEPT ![k] = c]
    PROVE  /\ cur[k] \in Cursors /\ cur'[k] = c
           /\ cur' \in [Slots -> Cursors]
           /\ \A m \in Slots : m # k => cur'[m] = cur[m]
BY DEF TypeStream

\* A slot that was and is not answered leaves the tickets as they are.
LEMMA TicketsStay ==
    ASSUME hw' = hw, job' = job, NEW k \in Slots,
           ~Answered(cur[k]), ~Answered(cur'[k]),
           \A m \in Slots : m # k => cur'[m] = cur[m]
    PROVE  Tickets' = Tickets
<1>1. \A m \in Slots : Answered(cur'[m]) <=> Answered(cur[m])
  OBVIOUS
<1>. QED  BY <1>1 DEF Tickets

LEMMA InGetBufferKeeps ==
    ASSUME Inv, InGetBuffer
    PROVE  Inv'
<1>. USE DEF appVars, reqVars, inVars, outVars, streamVars, devVars
<1>1. TypeInv /\ RunInv /\ pcC # "ended"
  BY DEF Inv, RunInv, StageInv, TypeInv, TypeDev, InGetBuffer
<1>2. /\ UNCHANGED <<load, app, async_ctrl_init, queue, obj, results, dst, sess,
                     instance, req, n, pcP, direct, outVars, sseq, sreq, job,
                     devVars>>
      /\ pcC = "buf" /\ pcC' = "setup" /\ jIn' \in Slots
      /\ cur' \in [Slots -> Cursors] /\ Unused(cur[jIn'])
      /\ Claimed(cur'[jIn'])
      /\ ~InFlight(cur[jIn']) /\ ~InFlight(cur'[jIn'])
      /\ ~Answered(cur[jIn']) /\ ~Answered(cur'[jIn'])
      /\ \A m \in Slots : m # jIn' => cur'[m] = cur[m]
  <2>1. PICK k \in Slots : /\ FirstUnused(k, jIn) /\ jIn' = k
                           /\ cur' = [cur EXCEPT ![k].src1 = @ + 1]
    BY DEF InGetBuffer
  <2>2. cur[k] \in Cursors /\ Unused(cur[k])
    BY <1>1, <2>1 DEF TypeInv, TypeStream, FirstUnused
  <2>. DEFINE c == [cur[k] EXCEPT !.src1 = @ + 1]
  <2>3. c \in Cursors /\ Claimed(c) /\ ~InFlight(cur[k]) /\ ~Answered(cur[k])
    BY <2>2, CursorSteps
  <2>4. cur' = [cur EXCEPT ![k] = c]
    BY <2>1
  <2>. HIDE DEF c
  <2>5. ~InFlight(c) /\ ~Answered(c)
    BY <2>3, CursorSteps
  <2>6. /\ cur'[k] = c /\ cur' \in [Slots -> Cursors]
        /\ \A m \in Slots : m # k => cur'[m] = cur[m]
    BY <1>1, <2>3, <2>4, SlotMoves DEF TypeInv
  <2>. QED  BY <2>1, <2>2, <2>3, <2>5, <2>6 DEF InGetBuffer
<1>3. Tickets' = Tickets /\ Taken' = Taken
  <2>1. Tickets' = Tickets
    BY <1>2, TicketsStay
  <2>. QED  BY <1>2, <2>1 DEF Taken
<1>4. /\ \A t \in Tickets : At(t)' = At(t) /\ sreq'[t.slot] = sreq[t.slot]
      /\ NextSeq' = NextSeq /\ Working' = Working /\ NextUnit' = NextUnit
      /\ sess'.seq_in = sess.seq_in
  BY <1>1, <1>2 DEF At, NextSeq, Working, NextUnit
<1>5. TypeInv'
  BY <1>1, <1>2
  DEF TypeInv, TypeApp, TypeSess, TypeIn, TypeOut, TypeStream, TypeDev,
      Known, Sessions
<1>6. SlotInv'
  <2>1. \A a \in hw : a.slot \in Slots /\ InFlight(cur[a.slot]) /\ Sane(a)
    BY <1>1 DEF RunInv, SlotInv, TypeInv, TypeDev, Jobs
  <2>2. \A a \in hw : cur'[a.slot] = cur[a.slot]
    BY <1>2, <2>1
  <2>3. \A k \in Slots : Answered(cur'[k]) => Answered(cur[k])
    BY <1>2
  <2>4. \A k \in Slots : Answered(cur'[k]) => /\ job'[k] \in Jobs
                                              /\ job'[k].st # "pending"
                                              /\ Sane(job[k])'
    BY <1>1, <1>2, <2>3 DEF RunInv, SlotInv, Sane
  <2>5. \A a \in hw' : InFlight(cur'[a.slot]) /\ Sane(a)'
    BY <1>2, <2>1, <2>2 DEF Sane
  <2>6. \A a, b \in hw' : a.slot = b.slot => a = b
    BY <1>1, <1>2 DEF RunInv, SlotInv
  <2>7. pcC' = "setup" /\ Claimed(cur'[jIn'])
    BY <1>2
  <2>. QED
    BY <2>4, <2>5, <2>6, <2>7 DEF SlotInv, InFlight, Answered, Claimed
<1>7. SeqInv'
  <2>1. pcP = "answer" => jOut \in Slots /\ jOut # jIn'
    BY <1>1, <1>2 DEF RunInv, SeqInv, TypeInv, TypeOut
  <2>2. pcP' = "answer" => /\ Answered(cur'[jOut'])
                           /\ sseq'[jOut'] = sess'.seq_in
                           /\ reqOut' = sreq'[jOut']
    BY <1>1, <1>2, <2>1 DEF RunInv, SeqInv
  <2>. QED
    BY <1>1, <1>3, <1>4, <2>2, SeqKept DEF RunInv, SeqInv, Answered
<1>8. CountInv'
  BY <1>1, <1>2 DEF RunInv, CountInv, TypeInv, TypeSess, Sessions
<1>9. StageInv'
  BY <1>1, <1>2 DEF RunInv, StageInv, Shape, TypeInv, TypeOut
<1>10. QueueInv'
  BY <1>1, <1>2, <1>3, <1>4 DEF RunInv, QueueInv, Units, Shape, Working
<1>11. LengthInv' /\ ChainInv'
  BY <1>1, <1>2, <1>3, <1>4, ChainKept DEF RunInv
<1>12. CalledBackOnce' /\ CallbackTrue' /\ CalledInOrder'
  BY <1>2, PropertiesKept DEF Inv
<1>. QED
  BY <1>1, <1>2, <1>5, <1>6, <1>7, <1>8, <1>9, <1>10, <1>11, <1>12
  DEF Inv, RunInv

LEMMA InSetupKeeps ==
    ASSUME Inv, InSetup
    PROVE  Inv'
<1>. USE DEF appVars, reqVars, inVars, outVars, streamVars, devVars
<1>1. TypeInv /\ RunInv /\ pcC # "ended"
  BY DEF Inv, RunInv, StageInv, TypeInv, TypeDev, InSetup
<1>2. /\ UNCHANGED <<load, app, async_ctrl_init, queue, obj, results, dst, sess,
                     inVars, pcP, direct, outVars, job, devVars>>
      /\ pcC = "setup" /\ pcC' = "send" /\ jIn \in Slots
      /\ cur' \in [Slots -> Cursors] /\ sseq' \in [Slots -> Nat]
      /\ DOMAIN sreq' = Slots
      /\ InFlight(cur'[jIn]) /\ sseq'[jIn] = sess.seq /\ sreq'[jIn] = req
      /\ ~InFlight(cur[jIn])
      /\ ~Answered(cur[jIn]) /\ ~Answered(cur'[jIn])
      /\ \A m \in Slots : m # jIn =>
            cur'[m] = cur[m] /\ sseq'[m] = sseq[m] /\ sreq'[m] = sreq[m]
  <2>1. /\ pcC = "setup" /\ jIn \in Slots
        /\ cur' = [cur EXCEPT ![jIn].src2 = @ + 1]
        /\ sseq' = [sseq EXCEPT ![jIn] = sess.seq]
        /\ sreq' = [sreq EXCEPT ![jIn] = req]
    BY <1>1 DEF InSetup, TypeInv, TypeIn
  <2>2. cur[jIn] \in Cursors /\ Claimed(cur[jIn])
    BY <1>1, <2>1 DEF TypeInv, TypeStream, RunInv, SlotInv
  <2>. DEFINE c == [cur[jIn] EXCEPT !.src2 = @ + 1]
  <2>3. c \in Cursors /\ InFlight(c) /\ ~InFlight(cur[jIn])
        /\ ~Answered(cur[jIn])
    BY <2>2, CursorSteps
  <2>4. cur' = [cur EXCEPT ![jIn] = c]
    BY <2>1
  <2>. HIDE DEF c
  <2>5. ~Answered(c)
    BY <2>3, CursorSteps
  <2>6. /\ cur'[jIn] = c /\ cur' \in [Slots -> Cursors]
        /\ \A m \in Slots : m # jIn => cur'[m] = cur[m]
    BY <1>1, <2>1, <2>3, <2>4, SlotMoves DEF TypeInv
  <2>7. /\ sess.seq \in Nat /\ sseq \in [Slots -> Nat] /\ DOMAIN sreq = Slots
    BY <1>1 DEF TypeInv, TypeSess, Sessions, TypeStream
  <2>8. /\ sseq' \in [Slots -> Nat] /\ sseq'[jIn] = sess.seq
        /\ \A m \in Slots : m # jIn => sseq'[m] = sseq[m]
    BY <2>1, <2>7
  <2>9. /\ DOMAIN sreq' = Slots /\ sreq'[jIn] = req
        /\ \A m \in Slots : m # jIn => sreq'[m] = sreq[m]
    BY <2>1, <2>7
  <2>. QED
    BY <2>1, <2>3, <2>5, <2>6, <2>8, <2>9 DEF InSetup
<1>3. Tickets' = Tickets /\ Taken' = Taken
  <2>1. Tickets' = Tickets
    BY <1>2, TicketsStay
  <2>. QED  BY <1>2, <2>1 DEF Taken
<1>4. /\ \A t \in Tickets : At(t)' = At(t) /\ sreq'[t.slot] = sreq[t.slot]
      /\ NextSeq' = NextSeq /\ Working' = Working /\ NextUnit' = NextUnit
      /\ sess'.seq_in = sess.seq_in
  <2>1. \A t \in Tickets : t.slot \in Slots /\ t.slot # jIn
    BY <1>1, <1>2, NoTicket, TicketType DEF RunInv, TypeInv
  <2>. QED  BY <1>2, <2>1 DEF At, NextSeq, Working, NextUnit
<1>5. TypeInv'
  BY <1>1, <1>2
  DEF TypeInv, TypeApp, TypeSess, TypeIn, TypeOut, TypeStream, TypeDev,
      Known, Sessions
<1>6. SlotInv'
  <2>1. \A a \in hw : a.slot \in Slots /\ InFlight(cur[a.slot]) /\ Sane(a)
    BY <1>1 DEF RunInv, SlotInv, TypeInv, TypeDev, Jobs
  <2>2. \A a \in hw : cur'[a.slot] = cur[a.slot] /\ a.slot # jIn
    BY <1>2, <2>1
  <2>3. \A k \in Slots : Answered(cur'[k]) => Answered(cur[k])
    BY <1>2
  <2>4. \A k \in Slots : Answered(cur'[k]) => /\ job'[k] \in Jobs
                                              /\ job'[k].st # "pending"
                                              /\ Sane(job[k])'
    BY <1>1, <1>2, <2>3 DEF RunInv, SlotInv, Sane
  <2>5. \A a \in hw' : InFlight(cur'[a.slot]) /\ Sane(a)'
    BY <1>2, <2>1, <2>2 DEF Sane
  <2>6. \A a, b \in hw' : a.slot = b.slot => a = b
    BY <1>1, <1>2 DEF RunInv, SlotInv
  <2>. QED
    BY <1>2, <2>2, <2>4, <2>5, <2>6 DEF SlotInv, InFlight, Answered, Claimed
<1>7. SeqInv'
  <2>1. pcP = "answer" => jOut \in Slots /\ jOut # jIn
    BY <1>1, <1>2 DEF RunInv, SeqInv, TypeInv, TypeOut
  <2>2. pcP' = "answer" => /\ Answered(cur'[jOut'])
                           /\ sseq'[jOut'] = sess'.seq_in
                           /\ reqOut' = sreq'[jOut']
    BY <1>1, <1>2, <2>1 DEF RunInv, SeqInv
  <2>. QED
    BY <1>1, <1>3, <1>4, <2>2, SeqKept DEF RunInv, SeqInv, Answered
<1>8. CountInv'
  BY <1>1, <1>2 DEF RunInv, CountInv, TypeInv, TypeSess, Sessions
<1>9. StageInv'
  BY <1>1, <1>2 DEF RunInv, StageInv, Shape, TypeInv, TypeOut
<1>10. QueueInv'
  BY <1>1, <1>2, <1>3, <1>4 DEF RunInv, QueueInv, Units, Shape, Working
<1>11. LengthInv' /\ ChainInv'
  BY <1>1, <1>2, <1>3, <1>4, ChainKept DEF RunInv
<1>12. CalledBackOnce' /\ CallbackTrue' /\ CalledInOrder'
  BY <1>2, PropertiesKept DEF Inv
<1>. QED
  BY <1>1, <1>2, <1>5, <1>6, <1>7, <1>8, <1>9, <1>10, <1>11, <1>12
  DEF Inv, RunInv

\* What the device is given is the next unit of the request under way.
LEMMA InSendKeeps ==
    ASSUME AsyncAssumption, Offloaded, Inv, InSend
    PROVE  Inv'
<1>. USE DEF appVars, reqVars, inVars, outVars, streamVars, devVars
<1>1. TypeInv /\ RunInv /\ pcC = "send"
  BY DEF Inv, InSend
<1>. DEFINE a == [slot |-> jIn, op |-> Shape(req).op, r |-> req, c |-> n + 1,
                  st |-> "pending"]
            x == [slot |-> jIn, r |-> req, c |-> n + 1]
<1>2. ~Fault("retry") /\ ~Fault("submit")
  BY <1>1 DEF TypeInv, TypeApp, Offloaded, Fault
<1>3. /\ UNCHANGED <<load, app, async_ctrl_init, queue, obj, results, dst, sess,
                     instance, req, n, jIn, pcP, direct, outVars, streamVars,
                     heartbeat, dropped>>
      /\ pcC' = "adv" /\ hw' = hw \cup {a}
  BY <1>1, <1>2 DEF InSend
<1>4. /\ Taken \in Known /\ Taken \in Nat /\ Taken >= 1 /\ req = Taken
      /\ \A r \in 1..Taken : r \in Known
  BY <1>1, TakenKnown DEF RunInv, TypeInv, Working, QueueInv
<1>5. /\ Units(Taken) \in Nat /\ n \in Nat /\ n < Units(Taken)
      /\ Shape(req) \in Shapes
  BY <1>1, <1>4, UnitsPositive DEF RunInv, QueueInv, TypeInv, TypeIn
<1>6. /\ jIn \in Slots /\ InFlight(cur[jIn]) /\ sseq[jIn] = sess.seq
      /\ sreq[jIn] = req
  BY <1>1 DEF RunInv, SlotInv, TypeInv, TypeIn
<1>7. a \in Jobs /\ a.slot = jIn /\ a.r = req /\ a.c = n + 1 /\ a.op = direct
      /\ a.st = "pending"
  <2>1. Shape(req).op = direct /\ Shape(req).op \in {"comp", "decomp"}
    BY <1>1, <1>5 DEF RunInv, StageInv, Shapes
  <2>2. req \in Nat /\ n + 1 \in Nat
    BY <1>4, <1>5
  <2>. QED  BY <1>6, <2>1, <2>2 DEF Jobs
<1>8. /\ x \in [slot : Slots, r : Nat, c : Nat]
      /\ x.slot = jIn /\ x.r = Taken /\ x.c = n + 1
  BY <1>4, <1>5, <1>6
<1>. HIDE DEF a, x
<1>9. Tickets' = Tickets \cup {x}
  <2>1. SUFFICES ASSUME NEW t \in [slot : Slots, r : Nat, c : Nat]
                 PROVE  t \in Tickets' <=> t \in Tickets \/ t = x
    BY <1>8 DEF Tickets
  <2>2. t \in Tickets' <=>
           \/ \E b \in hw \cup {a} :
                b.slot = t.slot /\ b.r = t.r /\ b.c = t.c
           \/ Answered(cur[t.slot]) /\ job[t.slot].r = t.r
                                    /\ job[t.slot].c = t.c
    BY <1>3, <2>1 DEF Tickets, Answered
  <2>3. t \in Tickets <=>
           \/ \E b \in hw : b.slot = t.slot /\ b.r = t.r /\ b.c = t.c
           \/ Answered(cur[t.slot]) /\ job[t.slot].r = t.r
                                    /\ job[t.slot].c = t.c
    BY <2>1 DEF Tickets
  <2>4. t = x <=> a.slot = t.slot /\ a.r = t.r /\ a.c = t.c
    BY <1>4, <1>7, <1>8
  <2>. QED  BY <2>2, <2>3, <2>4
<1>10. \A t \in Tickets : t.slot \in Slots /\ t.slot # jIn
                          /\ At(t) \in Nat /\ t # x
  BY <1>1, <1>8, NoTicket, TicketType DEF RunInv, TypeInv, TypeStream, At
<1>11. /\ NextSeq = sess.seq /\ NextSeq' = sess.seq + 1
       /\ sess.seq \in Nat /\ sess.seq_in \in Nat /\ sess' = sess
       /\ Working /\ Working' /\ NextUnit = n /\ NextUnit' = n + 1
  BY <1>1, <1>3
  DEF NextSeq, Working, NextUnit, TypeInv, TypeSess, Sessions
<1>12. /\ \A t : At(t)' = At(t)
       /\ At(x) = NextSeq
       /\ Known' = Known /\ Taken' = Taken
       /\ \A r : Units(r)' = Units(r) /\ Finished(r)' = Finished(r)
       /\ obj' = obj /\ results' = results /\ dst' = dst /\ sreq' = sreq
  BY <1>3, <1>6, <1>8, <1>11
  DEF At, Known, Taken, Units, Shape, Finished
\* What is known of the request under way.
<1>13. /\ obj[Taken].in_len <= n /\ obj[Taken].in_len \in Nat
       /\ results[Taken].calls = 0
  <2>1. obj[Taken].in_len \in Nat
    BY <1>1, <1>4, UnitsPositive DEF TypeInv, Objects
  <2>2. CASE sess.seq_in = NextSeq
    BY <2>1, <2>2, <1>1, <1>5, <1>11 DEF RunInv, ChainInv, IdleInv
  <2>3. CASE n = 0
    <3>1. LengthInv /\ Working /\ NextUnit = 0
      BY <2>3, <1>1, <1>11 DEF RunInv
    <3>2. results[Taken].calls = 0 /\ obj[Taken].in_len = 0
      BY <3>1, <1>4 DEF LengthInv
    <3>. QED  BY <3>2, <2>3
  <2>4. CASE sess.seq_in # NextSeq /\ n > 0
    <3>1. sess.seq_in < NextSeq /\ NextSeq - 1 \in Nat
          /\ sess.seq_in <= NextSeq - 1 /\ NextSeq - 1 < NextSeq
      BY <2>4, <1>1, <1>11 DEF RunInv, SeqInv
    <3>2. PICK t \in Tickets : At(t) = NextSeq - 1
      BY <3>1, <1>1 DEF RunInv, SeqInv
    <3>3. At(t) + 1 = NextSeq
      BY <3>2, <1>11
    <3>4. t.r = Taken /\ t.c = n
      BY <3>3, <2>4, <1>1, <1>11 DEF RunInv, ChainInv, TailInv
    <3>5. obj[Taken].in_len < n /\ results[Taken].calls = 0
      BY <3>2, <3>4, <1>1 DEF RunInv, ChainInv, TicketInv
    <3>. QED  BY <3>5, <2>1, <1>5
  <2>. QED  BY <2>2, <2>3, <2>4, <1>5
<1>14. TypeInv'
  <2>1. hw' \subseteq Jobs
    BY <1>1, <1>3, <1>7 DEF TypeInv, TypeDev
  <2>2. TypeDev'
    BY <1>1, <1>3, <2>1 DEF TypeInv, TypeDev
  <2>. QED
    BY <2>2, <1>1, <1>3
    DEF TypeInv, TypeApp, TypeSess, TypeIn, TypeOut, TypeStream, Known
<1>15. SlotInv'
  <2>1. \A b \in hw : InFlight(cur[b.slot]) /\ Sane(b) /\ b.slot # jIn
    BY <1>1 DEF RunInv, SlotInv
  <2>2. \A b \in hw \cup {a} : Sane(b)'
    BY <2>1, <1>3, <1>7 DEF Sane
  <2>3. \A b \in hw' : InFlight(cur[b.slot]) /\ Sane(b)'
    BY <2>1, <2>2, <1>3, <1>6, <1>7
  <2>4. \A b, d \in hw' : b.slot = d.slot => b = d
    BY <2>1, <1>1, <1>3, <1>7 DEF RunInv, SlotInv
  <2>5. \A k \in Slots : Answered(cur[k]) => /\ job[k] \in Jobs
                                             /\ job[k].st # "pending"
                                             /\ Sane(job[k])'
    BY <1>1, <1>3 DEF RunInv, SlotInv, Sane
  <2>6. pcC' = "adv" /\ cur' = cur /\ job' = job /\ load' = load
    BY <1>3
  <2>. QED
    BY <2>3, <2>4, <2>5, <2>6 DEF SlotInv, InFlight, Answered, Sane
<1>16. SeqInv'
  <2>1. sess'.seq_in <= NextSeq'
    BY <1>1, <1>11 DEF RunInv, SeqInv
  <2>2. \A t \in Tickets' : sess'.seq_in <= At(t)' /\ At(t)' < NextSeq'
    <3>1. \A t \in Tickets : sess.seq_in <= At(t) /\ At(t) < NextSeq
      BY <1>1 DEF RunInv, SeqInv
    <3>2. sess.seq_in <= NextSeq
      BY <1>1 DEF RunInv, SeqInv
    <3>. QED  BY <3>1, <3>2, <1>9, <1>10, <1>11, <1>12
  <2>3. \A t, u \in Tickets' : At(t)' = At(u)' => t = u
    <3>1. \A t, u \in Tickets : At(t) = At(u) => t = u
      BY <1>1 DEF RunInv, SeqInv
    <3>2. \A t \in Tickets : At(t) # At(x)
      BY <1>1, <1>10, <1>11, <1>12 DEF RunInv, SeqInv
    <3>. QED  BY <3>1, <3>2, <1>9, <1>12
  <2>4. \A i \in Nat : (sess'.seq_in <= i /\ i < NextSeq') =>
                          \E t \in Tickets' : At(t)' = i
    <3>1. SUFFICES ASSUME NEW i \in Nat, sess.seq_in <= i, i < sess.seq + 1
                   PROVE  \E t \in Tickets' : At(t) = i
      BY <1>11, <1>12
    <3>2. CASE i = sess.seq
      BY <3>2, <1>9, <1>11, <1>12
    <3>3. CASE i < NextSeq
      BY <3>1, <3>3, <1>1, <1>9 DEF RunInv, SeqInv
    <3>. QED  BY <3>1, <3>2, <3>3, <1>11
  <2>5. pcP' = "answer" => /\ Answered(cur'[jOut'])
                           /\ sseq'[jOut'] = sess'.seq_in
                           /\ reqOut' = sreq'[jOut']
    BY <1>1, <1>3 DEF RunInv, SeqInv
  <2>. QED  BY <2>1, <2>2, <2>3, <2>4, <2>5 DEF SeqInv, Answered
<1>17. CountInv' /\ StageInv'
  BY <1>1, <1>3 DEF RunInv, CountInv, StageInv, Shape
<1>18. QueueInv'
  BY <1>1, <1>3, <1>11, <1>12 DEF RunInv, QueueInv
<1>19. LengthInv'
  <2>1. NextUnit' # 0
    BY <1>5, <1>11
  <2>. QED  BY <2>1, <1>1, <1>12 DEF RunInv, LengthInv
<1>20. TicketInv'
  <2>1. \A t \in Tickets : t.r = Taken => t.c <= n
    BY <1>1, <1>11 DEF RunInv, ChainInv, TicketInv
  <2>2. \A t \in Tickets : t.r = Taken => t.c <= n + 1
    BY <2>1, <1>5, TicketType
  <2>3. \A t \in Tickets :
          /\ t.r \in 1..Taken
          /\ obj[t.r].in_len < t.c /\ t.c <= Units(t.r)
          /\ sreq[t.slot] = t.r
          /\ results[t.r].calls = 0
    BY <1>1 DEF RunInv, ChainInv, TicketInv
  <2>4. /\ x.r \in 1..Taken
        /\ obj[x.r].in_len < x.c /\ x.c <= Units(x.r)
        /\ sreq[x.slot] = x.r
        /\ results[x.r].calls = 0
        /\ x.c <= n + 1
    BY <1>4, <1>5, <1>6, <1>8, <1>13
  <2>. QED  BY <2>2, <2>3, <2>4, <1>9, <1>11, <1>12 DEF TicketInv
<1>21. OrderInv'
  <2>1. \A t \in Tickets : At(t) < At(x)
    BY <1>1, <1>12 DEF RunInv, SeqInv
  <2>2. /\ At(x) \in Nat /\ \A t \in Tickets : At(t) \in Nat
    BY <1>10, <1>11, <1>12
  <2>3. \A t, u \in Tickets' : t.r = u.r /\ At(t) < At(u) => t.c < u.c
    <3>1. SUFFICES ASSUME NEW t \in Tickets', NEW u \in Tickets',
                          t.r = u.r, At(t) < At(u)
                   PROVE  t.c < u.c
      OBVIOUS
    <3>2. CASE t \in Tickets /\ u \in Tickets
      BY <3>1, <3>2, <1>1 DEF RunInv, ChainInv, OrderInv
    <3>3. CASE t \in Tickets /\ u = x
      <4>1. t.c <= n
        BY <3>1, <3>3, <1>1, <1>8, <1>11 DEF RunInv, ChainInv, TicketInv
      <4>. QED  BY <4>1, <3>3, <1>5, <1>8, TicketType
    <3>4. CASE t = x
      <4>1. u = x \/ (u \in Tickets /\ At(u) < At(x))
        BY <1>9, <2>1
      <4>. QED  BY <4>1, <3>1, <3>4, <2>2
    <3>. QED  BY <3>2, <3>3, <3>4, <1>9
  <2>4. \A t, u \in Tickets' : At(u) = At(t) + 1 =>
          \/ u.r = t.r /\ u.c = t.c + 1
          \/ u.r = t.r + 1 /\ t.c = Units(t.r) /\ u.c = 1
    <3>1. SUFFICES ASSUME NEW t \in Tickets', NEW u \in Tickets',
                          At(u) = At(t) + 1
                   PROVE  \/ u.r = t.r /\ u.c = t.c + 1
                          \/ u.r = t.r + 1 /\ t.c = Units(t.r) /\ u.c = 1
      OBVIOUS
    <3>2. CASE t \in Tickets /\ u \in Tickets
      BY <3>1, <3>2, <1>1 DEF RunInv, ChainInv, OrderInv
    <3>3. CASE t \in Tickets /\ u = x
      <4>1. At(t) + 1 = NextSeq
        BY <3>1, <3>3, <1>12
      <4>2. IF n > 0 THEN t.r = Taken /\ t.c = n
            ELSE t.r = Taken - 1 /\ t.c = Units(t.r)
        BY <4>1, <3>3, <1>1, <1>11 DEF RunInv, ChainInv, TailInv
      <4>. QED  BY <4>2, <3>3, <1>4, <1>5, <1>8
    <3>4. CASE t = x
      <4>1. u = x \/ (u \in Tickets /\ At(u) < At(x))
        BY <1>9, <2>1
      <4>. QED  BY <4>1, <3>1, <3>4, <2>2
    <3>. QED  BY <3>2, <3>3, <3>4, <1>9
  <2>. QED  BY <2>3, <2>4, <1>12 DEF OrderInv
<1>22. HeadInv'
  <2>1. \A t \in Tickets : At(t) = sess.seq_in =>
           /\ t.c = obj[t.r].in_len + 1
           /\ \A r \in 1..(t.r - 1) : Finished(r)
    BY <1>1 DEF RunInv, ChainInv, HeadInv
  <2>2. At(x) = sess.seq_in => /\ x.c = obj[x.r].in_len + 1
                               /\ \A r \in 1..(x.r - 1) : Finished(r)
    BY <1>1, <1>8, <1>11, <1>12 DEF RunInv, ChainInv, IdleInv
  <2>. QED  BY <2>1, <2>2, <1>9, <1>11, <1>12 DEF HeadInv
<1>23. TailInv'
  <2>1. \A t \in Tickets' : At(t) + 1 = NextSeq' => t = x
    <3>1. \A t \in Tickets : At(t) < NextSeq /\ At(t) \in Nat
      BY <1>1, <1>10 DEF RunInv, SeqInv
    <3>. QED  BY <3>1, <1>9, <1>11
  <2>2. \A t \in Tickets' : At(t)' = At(t)
    BY <1>12
  <2>3. NextUnit' > 0 /\ Working'
    BY <1>5, <1>11
  <2>. QED  BY <2>1, <2>2, <2>3, <1>8, <1>11, <1>12 DEF TailInv
<1>24. IdleInv'
  <2>1. sess'.seq_in # NextSeq'
    BY <1>1, <1>11 DEF RunInv, SeqInv
  <2>. QED  BY <2>1 DEF IdleInv
<1>25. DoneInv'
  BY <1>1, <1>3, <1>12 DEF RunInv, ChainInv, DoneInv
<1>26. CalledBackOnce' /\ CallbackTrue' /\ CalledInOrder'
  BY <1>3, PropertiesKept DEF Inv
<1>. QED
  BY <1>3, <1>14, <1>15, <1>16, <1>17, <1>18, <1>19, <1>20, <1>21, <1>22,
     <1>23, <1>24, <1>25, <1>26
  DEF Inv, RunInv, ChainInv

\* The tail of the loops: after the last unit the consumer is ready for the
\* next request.
LEMMA InAdvanceKeeps ==
    ASSUME AsyncAssumption, Inv, InAdvance
    PROVE  Inv'
<1>. USE DEF appVars, reqVars, inVars, outVars, streamVars, devVars
<1>1. TypeInv /\ RunInv /\ pcC = "adv"
  BY DEF Inv, InAdvance
<1>2. UNCHANGED <<load, app, async_ctrl_init, queue, obj, results, dst,
                  instance, req, jIn, pcP, direct, outVars, streamVars,
                  devVars>>
  BY DEF InAdvance
<1>3. /\ Taken \in Known /\ Taken \in Nat /\ Taken >= 1 /\ req = Taken
      /\ \A r \in 1..Taken : r \in Known
  BY <1>1, TakenKnown DEF RunInv, TypeInv, Working, QueueInv
<1>4. /\ Units(Taken) \in Nat /\ n \in Nat /\ n < Units(Taken)
  BY <1>1, <1>3, UnitsPositive DEF RunInv, QueueInv, TypeInv, TypeIn
<1>5. /\ n' = n + 1
      /\ pcC' = IF n + 1 = Units(Taken) THEN "loop"
                ELSE IF Shape(req).op = "comp" THEN "buf" ELSE "check"
  BY <1>1, <1>3 DEF InAdvance, RunInv, CountInv, Units
<1>6. /\ sess \in Sessions /\ sess.stop_submitting = FALSE
      /\ sess.force_sw = FALSE
  BY <1>1 DEF TypeInv, TypeSess, RunInv, CountInv, Sessions
<1>7. /\ sess' \in Sessions
      /\ sess'.seq = sess.seq + 1 /\ sess'.seq_in = sess.seq_in
      /\ sess'.submitted = sess.submitted + 1
      /\ sess'.processed = sess.processed
      /\ sess'.last_submitted = sess.last_submitted
      /\ sess'.stat = sess.stat
      /\ sess'.stop_submitting = FALSE /\ sess'.force_sw = FALSE
  <2>. DEFINE s == [sess EXCEPT !.seq = @ + 1, !.submitted = @ + 1]
  <2>1. /\ s.seq = sess.seq + 1 /\ s.seq_in = sess.seq_in
        /\ s.submitted = sess.submitted + 1
        /\ s.processed = sess.processed
        /\ s.last_submitted = sess.last_submitted
        /\ s.stat = sess.stat
        /\ s.stop_submitting = sess.stop_submitting
        /\ s.force_sw = sess.force_sw
    BY <1>6 DEF Sessions
  <2>2. s \in Sessions
    <3>. DEFINE a == sess.seq + 1
                b == sess.submitted + 1
    <3>1. a \in Nat /\ b \in Nat
      BY <1>6 DEF Sessions
    <3>2. s = [sess EXCEPT !.seq = a, !.submitted = b]
      OBVIOUS
    <3>. HIDE DEF a, b, s
    <3>. QED  BY <1>6, <3>1, <3>2 DEF Sessions
  <2>. DEFINE done == n' = Len(Shape(req).kinds) \/ sess.stop_submitting
  <2>3. sess' = s \/ sess' = [s EXCEPT !.force_sw = @ /\ ~done]
    <3>1. IF Shape(req).op = "comp"
          THEN sess' = s /\ pcC' = IF done THEN "loop" ELSE "buf"
          ELSE /\ sess' = [s EXCEPT !.force_sw = @ /\ ~done]
               /\ pcC' = IF done THEN "loop" ELSE "check"
      BY Zenon DEF InAdvance
    <3>. HIDE DEF s, done
    <3>. QED  BY <3>1, Zenon
  <2>. HIDE DEF s, done
  <2>4. s.force_sw = FALSE
    BY <2>1, <1>6
  <2>5. [s EXCEPT !.force_sw = @ /\ ~done] = [s EXCEPT !.force_sw = FALSE]
    BY <2>4, Zenon
  <2>6. [s EXCEPT !.force_sw = FALSE] = s
    BY <2>2, <2>4 DEF Sessions
  <2>7. sess' = s
    BY <2>3, <2>5, <2>6, Zenon
  <2>. QED  BY <1>6, <2>1, <2>2, <2>7
<1>8. /\ NextSeq = sess.seq + 1 /\ NextUnit = n + 1 /\ Working
      /\ sess.seq \in Nat
  BY <1>1, <1>6 DEF NextSeq, NextUnit, Working, Sessions
<1>9. NextSeq' = NextSeq
  BY <1>5, <1>7, <1>8 DEF NextSeq
<1>10. Tickets' = Tickets
  BY <1>2, TicketsKept
<1>11. /\ \A t : At(t)' = At(t)
       /\ Known' = Known /\ Taken' = Taken
       /\ \A r : Units(r)' = Units(r) /\ Finished(r)' = Finished(r)
       /\ obj' = obj /\ results' = results /\ dst' = dst /\ sreq' = sreq
  BY <1>2 DEF At, Known, Taken, Units, Shape, Finished
<1>12. TypeInv'
  BY <1>1, <1>2, <1>4, <1>5, <1>7
  DEF TypeInv, TypeApp, TypeSess, TypeIn, TypeOut, TypeStream, TypeDev, Known
<1>13. SlotInv'
  BY <1>1, <1>2, <1>5 DEF RunInv, SlotInv, InFlight, Answered, Sane
<1>14. SeqInv'
  BY <1>1, <1>2, <1>7, <1>9, <1>10, <1>11, SeqKept
  DEF RunInv, SeqInv, Answered
<1>15. CountInv'
  <2>1. CountInv
    BY <1>1 DEF RunInv
  <2>2. ~sess.last_submitted /\ pcP # "ended" /\ pcP # "none"
    BY <2>1, <1>1 DEF CountInv, RunInv, StageInv
  <2>. QED  BY <2>1, <2>2, <1>2, <1>7 DEF CountInv
<1>16. StageInv'
  <2>1. StageInv /\ req' = req /\ \A r : Shape(r)' = Shape(r)
    BY <1>1, <1>2 DEF RunInv, Shape
  <2>. QED
    BY <2>1, <1>1, <1>2, <1>5 DEF StageInv, TypeInv, TypeOut
<1>17. CASE n + 1 # Units(Taken)
  <2>1. pcC' \in {"buf", "check"}
    BY <1>5, <1>17
  <2>2. Working' /\ NextUnit' = NextUnit
    BY <2>1, <1>5, <1>8 DEF Working, NextUnit
  <2>3. QueueInv'
    BY <2>1, <1>1, <1>2, <1>3, <1>4, <1>5, <1>8, <1>11, <1>17, <2>2
    DEF RunInv, QueueInv
  <2>4. LengthInv' /\ ChainInv'
    BY <2>2, <1>1, <1>2, <1>7, <1>8, <1>9, <1>10, <1>11, ChainKept
    DEF RunInv
  <2>5. CalledBackOnce' /\ CallbackTrue' /\ CalledInOrder'
    BY <1>2, PropertiesKept DEF Inv
  <2>. QED
    BY <2>1, <2>3, <2>4, <2>5, <1>12, <1>13, <1>14, <1>15, <1>16
    DEF Inv, RunInv
<1>18. CASE n + 1 = Units(Taken)
  <2>1. pcC' = "loop"
    BY <1>5, <1>18
  <2>2. ~Working' /\ NextUnit = Units(Taken) /\ NextUnit > 0
    BY <2>1, <1>4, <1>8, <1>18 DEF Working
  <2>3. QueueInv'
    BY <2>1, <2>2, <1>1, <1>2, <1>11 DEF RunInv, QueueInv
  <2>4. LengthInv'
    BY <2>2, <1>1, <1>11 DEF RunInv, LengthInv
  <2>5. TicketInv'
    BY <2>2, <1>1, <1>10, <1>11 DEF RunInv, ChainInv, TicketInv
  <2>6. OrderInv' /\ HeadInv'
    BY <1>1, <1>7, <1>10, <1>11 DEF RunInv, ChainInv, OrderInv, HeadInv
  <2>7. TailInv'
    BY <2>2, <1>1, <1>8, <1>9, <1>10, <1>11 DEF RunInv, ChainInv, TailInv
  <2>8. IdleInv'
    BY <2>2, <1>1, <1>7, <1>8, <1>9, <1>11 DEF RunInv, ChainInv, IdleInv
  <2>9. DoneInv'
    BY <1>1, <1>2, <1>11 DEF RunInv, ChainInv, DoneInv
  <2>10. CalledBackOnce' /\ CallbackTrue' /\ CalledInOrder'
    BY <1>2, PropertiesKept DEF Inv
  <2>. QED
    BY <2>1, <2>3, <2>4, <2>5, <2>6, <2>7, <2>8, <2>9, <2>10,
       <1>12, <1>13, <1>14, <1>15, <1>16
    DEF Inv, RunInv, ChainInv
<1>. QED  BY <1>17, <1>18

-----------------------------------------------------------------------------
(* The polling thread and the device.                                      *)

\* The polling thread runs before the consumer has ended.
LEMMA Polling ==
    ASSUME Inv, pcP \notin {"none", "ended"}
    PROVE  TypeInv /\ RunInv /\ pcC # "ended"
BY DEF Inv

LEMMA OutTestKeeps ==
    ASSUME Inv, OutTest
    PROVE  Inv'
<1>. USE DEF appVars, reqVars, inVars, outVars, streamVars, devVars
<1>1. TypeInv /\ RunInv /\ pcC # "ended"
  BY Polling DEF OutTest
<1>2. /\ UNCHANGED <<load, app, async_ctrl_init, queue, obj, results, dst, sess,
                     pcC, inVars, direct, outVars, streamVars, devVars>>
      /\ pcP = "test" /\ pcP' \in {"poll", "ended"}
      /\ pcP' = "ended" => /\ sess.last_submitted
                           /\ ~(sess.processed < sess.submitted)
  BY DEF OutTest
<1>3. Tickets' = Tickets /\ Taken' = Taken
  BY <1>2, TicketsKept DEF Taken
<1>4. /\ \A t \in Tickets : At(t)' = At(t) /\ sreq'[t.slot] = sreq[t.slot]
      /\ NextSeq' = NextSeq /\ Working' = Working /\ NextUnit' = NextUnit
      /\ sess'.seq_in = sess.seq_in
  BY <1>1, <1>2 DEF At, NextSeq, Working, NextUnit
<1>5. TypeInv'
  BY <1>1, <1>2
  DEF TypeInv, TypeApp, TypeSess, TypeIn, TypeOut, TypeStream, TypeDev,
      Known, Sessions
<1>6. SlotInv'
  BY <1>1, <1>2 DEF RunInv, SlotInv, Claimed, InFlight, Answered, Sane
<1>7. SeqInv'
  BY <1>1, <1>2, <1>3, <1>4, SeqKept DEF RunInv, SeqInv, Answered
<1>8. CountInv'
  <2>1. CountInv /\ sess \in Sessions
    BY <1>1 DEF RunInv, TypeInv, TypeSess
  <2>2. /\ sess.submitted = sess.seq /\ sess.processed = sess.seq_in
        /\ sess.processed \in Nat /\ sess.submitted \in Nat
        /\ sess.seq_in <= NextSeq
    BY <2>1, <1>1, <1>2 DEF CountInv, Sessions, RunInv, SeqInv
  <2>3. sess.last_submitted => NextSeq = sess.seq
    BY <2>1 DEF CountInv, NextSeq
  <2>4. pcP' = "ended" => sess.last_submitted /\ sess.seq_in = sess.seq
    BY <2>2, <2>3, <1>2
  <2>. QED  BY <2>1, <2>4, <1>2 DEF CountInv
<1>9. StageInv'
  BY <1>1, <1>2 DEF RunInv, StageInv, Shape, TypeInv, TypeOut
<1>10. QueueInv'
  BY <1>1, <1>2, <1>3, <1>4 DEF RunInv, QueueInv, Units, Shape, Working
<1>11. LengthInv' /\ ChainInv'
  BY <1>1, <1>2, <1>3, <1>4, ChainKept DEF RunInv
<1>12. CalledBackOnce' /\ CallbackTrue' /\ CalledInOrder'
  BY <1>2, PropertiesKept DEF Inv
<1>. QED
  BY <1>1, <1>2, <1>5, <1>6, <1>7, <1>8, <1>9, <1>10, <1>11, <1>12
  DEF Inv, RunInv

LEMMA OutPolledKeeps ==
    ASSUME Inv, OutPolled
    PROVE  Inv'
<1>. USE DEF appVars, reqVars, inVars, outVars, streamVars, devVars
<1>1. TypeInv /\ RunInv /\ pcC # "ended"
  BY Polling DEF OutPolled
<1>2. /\ UNCHANGED <<load, app, async_ctrl_init, queue, obj, results, dst, sess,
                     pcC, inVars, direct, reqOut,
                     req_prv, pOut, streamVars, devVars>>
      /\ pcP = "poll" /\ pcP' = "scan"
  BY DEF OutPolled
<1>3. Tickets' = Tickets /\ Taken' = Taken
  BY <1>2, TicketsKept DEF Taken
<1>4. /\ \A t \in Tickets : At(t)' = At(t) /\ sreq'[t.slot] = sreq[t.slot]
      /\ NextSeq' = NextSeq /\ Working' = Working /\ NextUnit' = NextUnit
      /\ sess'.seq_in = sess.seq_in
  BY <1>1, <1>2 DEF At, NextSeq, Working, NextUnit
<1>5. TypeInv'
  BY <1>1, <1>2
  DEF TypeInv, TypeApp, TypeSess, TypeIn, TypeOut, TypeStream, TypeDev,
      Known, Sessions
<1>6. SlotInv'
  BY <1>1, <1>2 DEF RunInv, SlotInv, Claimed, InFlight, Answered, Sane
<1>7. SeqInv'
  BY <1>1, <1>2, <1>3, <1>4, SeqKept DEF RunInv, SeqInv, Answered
<1>8. CountInv'
  BY <1>1, <1>2 DEF RunInv, CountInv, TypeInv, TypeSess, Sessions
<1>9. StageInv'
  BY <1>1, <1>2 DEF RunInv, StageInv, Shape, TypeInv, TypeOut
<1>10. QueueInv'
  BY <1>1, <1>2, <1>3, <1>4 DEF RunInv, QueueInv, Units, Shape, Working
<1>11. LengthInv' /\ ChainInv'
  BY <1>1, <1>2, <1>3, <1>4, ChainKept DEF RunInv
<1>12. CalledBackOnce' /\ CallbackTrue' /\ CalledInOrder'
  BY <1>2, PropertiesKept DEF Inv
<1>. QED
  BY <1>1, <1>2, <1>5, <1>6, <1>7, <1>8, <1>9, <1>10, <1>11, <1>12
  DEF Inv, RunInv

LEMMA OutScanKeeps ==
    ASSUME Inv, OutScan
    PROVE  Inv'
<1>. USE DEF appVars, reqVars, inVars, outVars, streamVars, devVars
<1>1. TypeInv /\ RunInv /\ pcC # "ended"
  BY Polling DEF OutScan
<1>2. /\ UNCHANGED <<load, app, async_ctrl_init, queue, obj, results, dst, sess,
                     pcC, inVars, direct, req_prv,
                     pOut, streamVars, devVars>>
      /\ pcP = "scan"
      /\ \/ pcP' = "test"
         \/ /\ pcP' = "answer" /\ jOut' \in Slots
            /\ Answered(cur[jOut']) /\ sseq[jOut'] = sess.seq_in
            /\ reqOut' = sreq[jOut']
  <2>1. ~Failing
    BY <1>1 DEF RunInv, CountInv, Failing
  <2>. QED  BY <2>1 DEF OutScan, Ready
<1>3. Tickets' = Tickets /\ Taken' = Taken
  BY <1>2, TicketsKept DEF Taken
<1>4. /\ \A t \in Tickets : At(t)' = At(t) /\ sreq'[t.slot] = sreq[t.slot]
      /\ NextSeq' = NextSeq /\ Working' = Working /\ NextUnit' = NextUnit
      /\ sess'.seq_in = sess.seq_in
  BY <1>1, <1>2 DEF At, NextSeq, Working, NextUnit
<1>5. TypeInv'
  BY <1>1, <1>2
  DEF TypeInv, TypeApp, TypeSess, TypeIn, TypeOut, TypeStream, TypeDev,
      Known, Sessions
<1>6. SlotInv'
  BY <1>1, <1>2 DEF RunInv, SlotInv, Claimed, InFlight, Answered, Sane
<1>7. SeqInv'
  BY <1>1, <1>2, <1>3, <1>4, SeqKept DEF RunInv, SeqInv, Answered
<1>8. CountInv'
  BY <1>1, <1>2 DEF RunInv, CountInv, TypeInv, TypeSess, Sessions
<1>9. StageInv'
  BY <1>1, <1>2 DEF RunInv, StageInv, Shape, TypeInv, TypeOut
<1>10. QueueInv'
  BY <1>1, <1>2, <1>3, <1>4 DEF RunInv, QueueInv, Units, Shape, Working
<1>11. LengthInv' /\ ChainInv'
  BY <1>1, <1>2, <1>3, <1>4, ChainKept DEF RunInv
<1>12. CalledBackOnce' /\ CallbackTrue' /\ CalledInOrder'
  BY <1>2, PropertiesKept DEF Inv
<1>. QED
  BY <1>1, <1>2, <1>5, <1>6, <1>7, <1>8, <1>9, <1>10, <1>11, <1>12
  DEF Inv, RunInv

LEMMA OutCallbackKeeps ==
    ASSUME Inv, OutCallback
    PROVE  Inv'
<1>. USE DEF appVars, reqVars, inVars, outVars, streamVars, devVars
<1>1. TypeInv /\ RunInv /\ pcC # "ended"
  BY Polling DEF OutCallback
<1>2. /\ UNCHANGED <<load, app, async_ctrl_init, queue, obj, results, dst, sess,
                     pcC, inVars, pcP, direct, outVars, sseq, sreq, heartbeat,
                     dropped>>
      /\ pcP = "poll"
      /\ \E a \in hw :
            /\ a \in Jobs /\ a.slot \in Slots /\ a.st # "pending"
            /\ InFlight(cur[a.slot]) /\ ~Answered(cur[a.slot])
            /\ Sane(a) /\ (pcC = "send" => a.slot # jIn)
            /\ hw' = hw \ {a} /\ DOMAIN job' = Slots /\ job'[a.slot] = a
            /\ cur' \in [Slots -> Cursors] /\ Answered(cur'[a.slot])
            /\ \A m \in Slots : m # a.slot =>
                  job'[m] = job[m] /\ cur'[m] = cur[m]
  <2>1. PICK a \in hw : /\ a.st # "pending" /\ hw' = hw \ {a}
                     /\ job' = [job EXCEPT ![a.slot] = a]
                     /\ cur' = IF InFlight(cur[a.slot])
                               THEN [cur EXCEPT ![a.slot].sink1 = @ + 1]
                               ELSE cur
    BY DEF OutCallback
  <2>2. /\ a \in Jobs /\ a.slot \in Slots /\ InFlight(cur[a.slot]) /\ Sane(a)
        /\ pcC = "send" => a.slot # jIn
    BY <1>1 DEF TypeInv, TypeDev, Jobs, RunInv, SlotInv
  <2>3. cur[a.slot] \in Cursors /\ DOMAIN job = Slots
    BY <1>1, <2>2 DEF TypeInv, TypeStream
  <2>. DEFINE c == [cur[a.slot] EXCEPT !.sink1 = @ + 1]
  <2>4. c \in Cursors /\ Answered(c) /\ ~Answered(cur[a.slot])
    BY <2>2, <2>3, CursorSteps
  <2>5. cur' = [cur EXCEPT ![a.slot] = c]
    BY <2>1, <2>2
  <2>. HIDE DEF c
  <2>6. /\ cur'[a.slot] = c /\ cur' \in [Slots -> Cursors]
        /\ \A m \in Slots : m # a.slot => cur'[m] = cur[m]
    BY <1>1, <2>2, <2>4, <2>5, SlotMoves DEF TypeInv
  <2>7. /\ DOMAIN job' = Slots /\ job'[a.slot] = a
        /\ \A m \in Slots : m # a.slot => job'[m] = job[m]
    BY <2>1, <2>2, <2>3
  <2>8. \A m \in Slots : m # a.slot => job'[m] = job[m] /\ cur'[m] = cur[m]
    BY <2>6, <2>7
  <2>9. Answered(cur'[a.slot])
    BY <2>4, <2>6
  <2>10. UNCHANGED <<load, app, async_ctrl_init, queue, obj, results, dst, sess,
                     pcC, inVars, pcP, direct, outVars, sseq, sreq, heartbeat,
                     dropped>> /\ pcP = "poll"
    BY DEF OutCallback
  <2>11. cur' \in [Slots -> Cursors] /\ DOMAIN job' = Slots /\ job'[a.slot] = a
    BY <2>6, <2>7
  <2>. QED
    BY <2>1, <2>2, <2>4, <2>8, <2>9, <2>10, <2>11, Zenon
<1>3. Tickets' = Tickets /\ Taken' = Taken
  <2>1. PICK a \in hw :
          /\ a.slot \in Slots /\ ~Answered(cur[a.slot]) /\ hw' = hw \ {a}
          /\ job'[a.slot] = a /\ Answered(cur'[a.slot])
          /\ \A m \in Slots : m # a.slot =>
                job'[m] = job[m] /\ cur'[m] = cur[m]
    BY <1>2, Zenon
  <2>2. \A b \in hw : b.slot = a.slot => b = a
    BY <1>1, <2>1 DEF RunInv, SlotInv
  <2>3. SUFFICES ASSUME NEW t \in [slot : Slots, r : Nat, c : Nat]
                 PROVE  t \in Tickets' <=> t \in Tickets
    BY <1>2 DEF Tickets, Taken
  <2>4. t \in Tickets <=>
           \/ \E b \in hw : b.slot = t.slot /\ b.r = t.r /\ b.c = t.c
           \/ Answered(cur[t.slot]) /\ job[t.slot].r = t.r
                                    /\ job[t.slot].c = t.c
    BY <2>3 DEF Tickets
  <2>5. t \in Tickets' <=>
           \/ \E b \in hw \ {a} : b.slot = t.slot /\ b.r = t.r /\ b.c = t.c
           \/ Answered(cur'[t.slot]) /\ job'[t.slot].r = t.r
                                     /\ job'[t.slot].c = t.c
    BY <2>1, <2>3 DEF Tickets, Answered
  <2>6. t.slot \in Slots
    BY <2>3
  <2>7. CASE t.slot = a.slot
    BY <2>1, <2>2, <2>4, <2>5, <2>7
  <2>8. CASE t.slot # a.slot
    BY <2>1, <2>4, <2>5, <2>6, <2>8
  <2>. QED  BY <2>7, <2>8
<1>4. /\ \A t \in Tickets : At(t)' = At(t) /\ sreq'[t.slot] = sreq[t.slot]
      /\ NextSeq' = NextSeq /\ Working' = Working /\ NextUnit' = NextUnit
      /\ sess'.seq_in = sess.seq_in
  BY <1>1, <1>2 DEF At, NextSeq, Working, NextUnit
<1>5. TypeInv'
  <2>1. hw' \subseteq hw /\ cur' \in [Slots -> Cursors] /\ DOMAIN job' = Slots
    BY <1>2
  <2>2. TypeDev' /\ TypeStream'
    BY <1>1, <1>2, <2>1 DEF TypeInv, TypeDev, TypeStream
  <2>. QED
    BY <2>2, <1>1, <1>2
    DEF TypeInv, TypeApp, TypeSess, TypeIn, TypeOut, Known
<1>6. SlotInv'
  <2>1. PICK a \in hw :
            /\ a \in Jobs /\ a.slot \in Slots /\ a.st # "pending"
            /\ InFlight(cur[a.slot]) /\ ~Answered(cur[a.slot])
            /\ Sane(a) /\ (pcC = "send" => a.slot # jIn)
            /\ hw' = hw \ {a} /\ job'[a.slot] = a
            /\ \A m \in Slots : m # a.slot =>
                  job'[m] = job[m] /\ cur'[m] = cur[m]
    BY <1>2, Zenon
  <2>2. \A b \in hw' : b \in hw /\ b # a /\ b.slot # a.slot /\ b.slot \in Slots
    BY <1>1, <2>1 DEF RunInv, SlotInv, TypeInv, TypeDev, Jobs
  <2>3. \A b \in hw' : InFlight(cur'[b.slot]) /\ Sane(b)'
                      /\ (pcC = "send" => b.slot # jIn)
    BY <1>1, <1>2, <2>1, <2>2 DEF RunInv, SlotInv, Sane
  <2>4. \A b, d \in hw' : b.slot = d.slot => b = d
    BY <1>1, <2>2 DEF RunInv, SlotInv
  <2>5. \A k \in Slots : Answered(cur'[k]) => /\ job'[k] \in Jobs
                                              /\ job'[k].st # "pending"
                                              /\ Sane(job[k])'
    <3>1. SUFFICES ASSUME NEW k \in Slots, Answered(cur'[k])
                   PROVE  /\ job'[k] \in Jobs /\ job'[k].st # "pending"
                          /\ Sane(job[k])'
      OBVIOUS
    <3>2. CASE k = a.slot
      BY <3>2, <1>2, <2>1 DEF Sane
    <3>3. CASE k # a.slot
      BY <3>1, <3>3, <1>1, <1>2, <2>1 DEF RunInv, SlotInv, Sane
    <3>. QED  BY <3>2, <3>3
  <2>6. pcC \in {"setup", "send"} => jIn \in Slots
    BY <1>1 DEF TypeInv, TypeIn
  <2>7. pcC = "setup" => Claimed(cur'[jIn])
    <3>1. pcC = "setup" => Claimed(cur[jIn]) /\ cur[jIn] \in Cursors
      BY <1>1, <2>6 DEF RunInv, SlotInv, TypeInv, TypeStream
    <3>2. pcC = "setup" => jIn # a.slot
      BY <2>1, <3>1, CursorSteps
    <3>. QED  BY <2>1, <2>6, <3>1, <3>2
  <2>8. pcC = "send" => InFlight(cur'[jIn])
    BY <1>1, <2>1, <2>6 DEF RunInv, SlotInv
  <2>9. pcC = "send" => sseq[jIn] = sess.seq /\ sreq[jIn] = req
    BY <1>1 DEF RunInv, SlotInv
  <2>. QED
    BY <1>2, <2>3, <2>4, <2>5, <2>7, <2>8, <2>9
    DEF SlotInv, InFlight, Answered, Claimed
<1>7. SeqInv'
  BY <1>1, <1>2, <1>3, <1>4, SeqKept DEF RunInv, SeqInv, Answered
<1>8. CountInv'
  BY <1>1, <1>2 DEF RunInv, CountInv, TypeInv, TypeSess, Sessions
<1>9. StageInv'
  BY <1>1, <1>2 DEF RunInv, StageInv, Shape, TypeInv, TypeOut
<1>10. QueueInv'
  BY <1>1, <1>2, <1>3, <1>4 DEF RunInv, QueueInv, Units, Shape, Working
<1>11. LengthInv' /\ ChainInv'
  BY <1>1, <1>2, <1>3, <1>4, ChainKept DEF RunInv
<1>12. CalledBackOnce' /\ CallbackTrue' /\ CalledInOrder'
  BY <1>2, PropertiesKept DEF Inv
<1>. QED
  BY <1>1, <1>2, <1>5, <1>6, <1>7, <1>8, <1>9, <1>10, <1>11, <1>12
  DEF Inv, RunInv

LEMMA HwCompleteKeeps ==
    ASSUME AsyncAssumption, Offloaded, Inv, HwComplete
    PROVE  Inv'
<1>. USE DEF appVars, reqVars, inVars, outVars, streamVars, devVars
<1>1. TypeInv
  BY DEF Inv
<1>2. PICK a \in hw, st \in {"ok", "bad", "err"} :
        /\ a.st = "pending" /\ st \in HwOutcomes(a)
        /\ hw' = (hw \ {a}) \cup {[a EXCEPT !.st = st]}
  BY DEF HwComplete
<1>3. UNCHANGED <<load, app, queue, async_ctrl_init, obj, results, dst, sess,
                  pcC, inVars, pcP, direct, outVars, streamVars, heartbeat,
                  dropped>>
  BY DEF HwComplete
<1>. DEFINE b == [a EXCEPT !.st = st]
<1>4. /\ a \in Jobs /\ b \in Jobs /\ b.slot = a.slot /\ b.op = a.op
      /\ b.r = a.r /\ b.c = a.c /\ b.st = st
  BY <1>1 DEF TypeInv, TypeDev, Jobs
<1>5. hw' = (hw \ {a}) \cup {b}
  BY <1>2
<1>. HIDE DEF b
<1>6. TypeInv'
  <2>1. TypeDev'
    BY <1>1, <1>3, <1>4, <1>5 DEF TypeInv, TypeDev
  <2>2. TypeApp'
    BY <1>1, <1>3 DEF TypeInv, TypeApp, Known
  <2>. QED
    BY <2>1, <2>2, <1>1, <1>3
    DEF TypeInv, TypeSess, TypeIn, TypeOut, TypeStream
<1>7. CASE pcC = "ended"
  <2>1. app' # "run"
    BY <1>3, <1>7 DEF Inv
  <2>. QED  BY <2>1, <1>3, <1>6, <1>7, EndKept
<1>8. CASE pcC # "ended"
  <2>1. RunInv
    BY <1>8 DEF Inv
  <2>2. /\ Sane(a) /\ InFlight(cur[a.slot]) /\ (pcC = "send" => a.slot # jIn)
        /\ \A d \in hw : d.slot = a.slot => d = a
    BY <2>1 DEF RunInv, SlotInv
  <2>3. b.op = direct /\ (st = "err" /\ direct = "decomp" => ~load.sw_backup)
    <3>1. a.op = direct
      BY <2>2 DEF Sane
    <3>2. SUFFICES ASSUME st = "err", direct = "decomp"
                   PROVE  ~load.sw_backup
      BY <3>1, <1>4
    <3>3. Fault("decomp_job")
      BY <3>1, <3>2, <1>2 DEF HwOutcomes
    <3>4. load \in Loads
      BY <1>1 DEF TypeInv, TypeApp
    <3>. QED  BY <3>3, <3>4 DEF Offloaded, Fault
  <2>4. Tickets' = Tickets
    <3>1. \A t \in [slot : Slots, r : Nat, c : Nat] :
            (\E d \in hw' : d.slot = t.slot /\ d.r = t.r /\ d.c = t.c)
            <=> (\E d \in hw : d.slot = t.slot /\ d.r = t.r /\ d.c = t.c)
      BY <1>4, <1>5
    <3>2. cur' = cur /\ job' = job
      BY <1>3
    <3>. QED  BY <3>1, <3>2 DEF Tickets, Answered
  <2>5. SlotInv'
    <3>1. \A d \in hw' : /\ InFlight(cur[d.slot])
                         /\ pcC = "send" => d.slot # jIn
                         /\ d.op = direct
                         /\ d.st = "err" /\ direct = "decomp" =>
                               ~load.sw_backup
      BY <1>4, <1>5, <2>1, <2>2, <2>3 DEF RunInv, SlotInv, Sane
    <3>2. \A d, e \in hw' : d.slot = e.slot => d = e
      BY <1>4, <1>5, <2>1, <2>2 DEF RunInv, SlotInv
    <3>. QED
      BY <1>3, <2>1, <3>1, <3>2
      DEF RunInv, SlotInv, InFlight, Answered, Claimed, Sane
  <2>6. /\ \A t \in Tickets : At(t)' = At(t) /\ sreq'[t.slot] = sreq[t.slot]
        /\ NextSeq' = NextSeq /\ Working' = Working /\ NextUnit' = NextUnit
        /\ sess' = sess /\ Taken' = Taken
    BY <1>3 DEF At, NextSeq, Working, NextUnit, Taken
  <2>7. SeqInv'
    BY <1>3, <2>1, <2>4, <2>6, SeqKept DEF RunInv, SeqInv, Answered
  <2>8. CountInv' /\ StageInv' /\ QueueInv'
    BY <1>3, <2>1, <2>6
    DEF RunInv, CountInv, StageInv, QueueInv, Shape, Units, Working
  <2>9. LengthInv' /\ ChainInv'
    BY <1>3, <2>1, <2>4, <2>6, ChainKept DEF RunInv
  <2>10. CalledBackOnce' /\ CallbackTrue' /\ CalledInOrder'
    BY <1>3, PropertiesKept DEF Inv
  <2>. QED
    BY <1>3, <1>6, <1>8, <2>5, <2>7, <2>8, <2>9, <2>10 DEF Inv, RunInv
<1>. QED  BY <1>7, <1>8

\* What both directions do with an answer: the unit is delivered, the buffer
\* is free and seq_in moves on.
Delivered ==
    /\ UNCHANGED <<load, app, async_ctrl_init, queue, pcC, inVars, direct,
                   jOut, reqOut, req_prv, sseq, sreq, job, hw, heartbeat>>
    /\ pcP = "answer" /\ pcP' = "done"
    /\ Deliver(reqOut, job[jOut].c)
    /\ cur' = [cur EXCEPT ![jOut].sink2 = @ + 1]
    /\ sess' = [sess EXCEPT !.seq_in = @ + 1,
                            !.processed = IF direct = "comp" THEN @ + 1 ELSE @]
    /\ pOut' = sess.processed

LEMMA CompAnswerDelivers ==
    ASSUME OutCompAnswer, ~dropped, ~dropped'
    PROVE  Delivered
<1>. USE DEF appVars, reqVars, inVars, outVars, streamVars, devVars
<1>1. pcP' # "done" => dropped'
  BY DEF OutCompAnswer, Respond
<1>2. pcP' = "done"
  BY <1>1
<1>3. Deliver(reqOut, job[jOut].c) /\ Respond(sess)
  BY <1>2 DEF OutCompAnswer
<1>4. /\ UNCHANGED <<load, app, async_ctrl_init, queue, pcC, inVars, direct,
                     jOut, reqOut, req_prv, sseq, sreq, job, hw, heartbeat>>
      /\ pcP = "answer"
  BY DEF OutCompAnswer
<1>. QED  BY <1>2, <1>3, <1>4 DEF Delivered, Respond

LEMMA DecompAnswerDelivers ==
    ASSUME Offloaded, TypeInv, SlotInv, SeqInv,
           OutDecompAnswer, ~dropped, ~dropped'
    PROVE  Delivered
<1>. USE DEF appVars, reqVars, inVars, outVars, streamVars, devVars
<1>1. /\ UNCHANGED <<load, app, async_ctrl_init, queue, pcC, inVars, direct,
                     jOut, reqOut, req_prv, sseq, sreq, job, hw, heartbeat>>
      /\ pcP = "answer" /\ direct = "decomp"
  BY DEF OutDecompAnswer
<1>2. jOut \in Slots /\ Sane(job[jOut])
  BY <1>1 DEF TypeInv, TypeOut, SeqInv, SlotInv
<1>3. pcP' # "done" => dropped'
  BY DEF OutDecompAnswer, Respond
<1>4. pcP' = "done"
  BY <1>3
<1>. DEFINE a == job[jOut]
            c == obj[reqOut].in_len + 1
            sw == /\ load.sw_backup /\ c <= Len(Shape(reqOut).kinds)
                  /\ Shape(reqOut).kinds[c] = "ok"
<1>5. \/ /\ a.st = "ok"
         /\ Deliver(reqOut, a.c)
         /\ pcP' = "done" /\ Respond(ZlibEnds(sess))
      \/ /\ a.st = "bad" /\ pcP' = "bad"
      \/ /\ a.st = "err" /\ sw
      \/ /\ a.st = "err" /\ pcP' = "failed"
  BY DEF OutDecompAnswer
<1>6. ~(a.st = "err" /\ sw)
  BY <1>1, <1>2 DEF Sane
<1>7. Deliver(reqOut, a.c) /\ Respond(ZlibEnds(sess))
  BY <1>4, <1>5, <1>6
<1>8. ZlibEnds(sess) = sess
  <2>1. ~load.zlib /\ sess \in Sessions
    BY DEF TypeInv, TypeApp, TypeSess, Offloaded
  <2>2. sess.last_submitted \in BOOLEAN
    BY <2>1 DEF Sessions
  <2>3. (sess.last_submitted \/ load.zlib) = sess.last_submitted
    BY <2>1, <2>2
  <2>4. ZlibEnds(sess) = [sess EXCEPT !.last_submitted = sess.last_submitted]
    BY <2>3, Zenon DEF ZlibEnds
  <2>. QED  BY <2>1, <2>4 DEF Sessions
<1>9. Respond(sess)
  BY <1>7, <1>8
<1>. QED  BY <1>1, <1>4, <1>7, <1>9 DEF Delivered, Respond

\* A unit that is delivered is the next one of the first request that has not
\* been called back.
LEMMA DeliveredKeeps ==
    ASSUME AsyncAssumption, Inv, ~dropped, Delivered
    PROVE  Inv'
<1>. USE DEF appVars, reqVars, inVars, outVars, streamVars, devVars
<1>1. TypeInv /\ RunInv /\ pcC # "ended" /\ pcP = "answer"
  BY Polling DEF Delivered
<1>2. /\ UNCHANGED <<load, app, async_ctrl_init, queue, pcC, inVars, direct,
                     jOut, reqOut, req_prv, sseq, sreq, job, hw, heartbeat>>
      /\ pcP' = "done" /\ pOut' = sess.processed
  BY DEF Delivered
<1>3. Taken \in Nat /\ (\A r \in 1..Taken : r \in Known)
      /\ (Working => Taken \in Known /\ Taken >= 1)
      /\ (Taken > 0 => Taken \in Known)
  BY <1>1, TakenKnown DEF RunInv, TypeInv, QueueInv
<1>4. /\ jOut \in Slots /\ Answered(cur[jOut]) /\ sseq[jOut] = sess.seq_in
      /\ reqOut = sreq[jOut]
  BY <1>1 DEF TypeInv, TypeOut, RunInv, SeqInv
<1>. DEFINE y == [slot |-> jOut, r |-> job[jOut].r, c |-> job[jOut].c]
<1>5. y \in Tickets /\ y.slot = jOut /\ y.c = job[jOut].c
  BY <1>1, <1>4, AnsweredTicket DEF TypeInv, RunInv
<1>. HIDE DEF y
<1>6. At(y) = sess.seq_in /\ y.r \in Nat /\ y.c \in Nat
  BY <1>4, <1>5, TicketType DEF At
<1>7. /\ y.r = reqOut /\ reqOut \in 1..Taken /\ reqOut \in Known
      /\ obj[reqOut].in_len < y.c /\ y.c <= Units(reqOut)
      /\ results[reqOut].calls = 0
      /\ Working /\ reqOut = Taken => y.c <= NextUnit
  BY <1>1, <1>3, <1>4, <1>5 DEF RunInv, ChainInv, TicketInv
<1>8. /\ y.c = obj[reqOut].in_len + 1
      /\ \A r \in 1..(reqOut - 1) : results[r].calls = 1
  BY <1>1, <1>5, <1>6, <1>7 DEF RunInv, ChainInv, HeadInv, Finished
<1>9. /\ results[reqOut] \in Results /\ obj[reqOut] \in Objects
      /\ Units(reqOut) \in Nat
      /\ obj[reqOut].in_len \in Nat /\ obj[reqOut].out_len = obj[reqOut].in_len
      /\ dst[reqOut] = [i \in 1..(Units(reqOut) + 1) |->
                          IF i <= obj[reqOut].in_len THEN i ELSE 0]
      /\ results[reqOut].src_len = Units(reqOut) /\ obj[reqOut].live
  <2>1. results[reqOut] \in Results /\ obj[reqOut] \in Objects
        /\ Units(reqOut) \in Nat
    BY <1>1, <1>7, UnitsPositive DEF TypeInv
  <2>2. obj[reqOut].in_len \in Nat
    BY <2>1 DEF Objects
  <2>. QED  BY <2>1, <2>2, <1>1, <1>7 DEF RunInv, LengthInv
<1>. DEFINE l == obj[reqOut].in_len
            u == Units(reqOut)
<1>10. /\ results \in Seq(Results) /\ obj \in Seq(Objects)
       /\ dst \in Seq(Seq(Int)) /\ Len(results) \in Nat
       /\ Len(obj) = Len(results) /\ Len(dst) = Len(results)
       /\ reqOut \in 1..Len(results)
  BY <1>1, <1>7 DEF TypeInv, TypeApp, Known
\* The request's record, lengths and output after the delivery.
<1>11. /\ obj' \in Seq(Objects) /\ Len(obj') = Len(obj)
       /\ \A r \in Known : r # reqOut => obj'[r] = obj[r]
       /\ obj'[reqOut].in_len = l + 1 /\ obj'[reqOut].out_len = l + 1
       /\ obj'[reqOut].live
  <2>1. obj' = [obj EXCEPT ![reqOut].in_len = @ + 1, ![reqOut].out_len = @ + 1]
    BY DEF Delivered, Deliver
  <2>. DEFINE new == [obj[reqOut] EXCEPT !.in_len = @ + 1, !.out_len = @ + 1]
  <2>2. /\ new.in_len = obj[reqOut].in_len + 1
        /\ new.out_len = obj[reqOut].out_len + 1
        /\ new.live = obj[reqOut].live
    BY <1>9 DEF Objects
  <2>3. new \in Objects
    <3>. DEFINE p == obj[reqOut].in_len + 1
                q == obj[reqOut].out_len + 1
    <3>1. p \in Nat /\ q \in Nat
      BY <1>9
    <3>2. new = [obj[reqOut] EXCEPT !.in_len = p, !.out_len = q]
      OBVIOUS
    <3>. HIDE DEF p, q, new
    <3>. QED  BY <1>9, <3>1, <3>2 DEF Objects
  <2>4. obj' = [obj EXCEPT ![reqOut] = new]
    BY <2>1, <1>10
  <2>. HIDE DEF new
  <2>5. /\ obj' \in Seq(Objects) /\ Len(obj') = Len(obj)
        /\ \A r \in Known : r # reqOut => obj'[r] = obj[r]
        /\ obj'[reqOut] = new
    BY <2>3, <2>4, <1>10 DEF Known
  <2>6. new.in_len = l + 1 /\ new.out_len = l + 1 /\ new.live
    <3>1. obj[reqOut].out_len = obj[reqOut].in_len /\ obj[reqOut].live
      BY <1>9
    <3>2. new.live
      BY <2>2, <3>1, Zenon
    <3>. QED  BY <2>2, <3>1, <3>2
  <2>. QED  BY <2>5, <2>6
<1>12. /\ results' \in Seq(Results) /\ Len(results') = Len(results)
       /\ \A r \in Known : r # reqOut => results'[r] = results[r]
       /\ results'[reqOut].shape = results[reqOut].shape
       /\ results'[reqOut].calls = 0
       /\ results'[reqOut].src_len = u
  <2>. DEFINE d == IF direct = "decomp" THEN results[reqOut].dest_len - 1
                   ELSE results[reqOut].dest_len
              new == [results[reqOut] EXCEPT !.dest_len = d]
  <2>1. d \in Int
    BY <1>9 DEF Results
  <2>2. results' = [results EXCEPT ![reqOut] = new]
    BY <1>10 DEF Delivered, Deliver
  <2>. HIDE DEF d
  <2>3. /\ new \in Results /\ new.shape = results[reqOut].shape
        /\ new.calls = results[reqOut].calls
        /\ new.src_len = results[reqOut].src_len
    BY <2>1, <1>9 DEF Results
  <2>. HIDE DEF new
  <2>. QED  BY <2>2, <2>3, <1>7, <1>9, <1>10 DEF Known
<1>13. /\ dst' \in Seq(Seq(Int)) /\ Len(dst') = Len(dst)
       /\ \A r \in Known : r # reqOut => dst'[r] = dst[r]
       /\ dst'[reqOut] = [i \in 1..(u + 1) |-> IF i <= l + 1 THEN i ELSE 0]
  <2>. DEFINE out == [i \in 1..(u + 1) |-> IF i <= l + 1 THEN i ELSE 0]
  <2>1. dst' = [dst EXCEPT ![reqOut] = [@ EXCEPT ![l + 1] = l + 1]]
    BY <1>5, <1>8, <1>9 DEF Delivered, Deliver, Write
  <2>2. [dst[reqOut] EXCEPT ![l + 1] = l + 1] = out
    <3>1. dst[reqOut] = [i \in 1..(u + 1) |-> IF i <= l THEN i ELSE 0]
          /\ l \in Nat /\ u \in Nat
      BY <1>9
    <3>. HIDE DEF l, u
    <3>2. \A i \in 1..(u + 1) :
             (IF i = l + 1 THEN l + 1 ELSE IF i <= l THEN i ELSE 0)
               = IF i <= l + 1 THEN i ELSE 0
      BY <3>1
    <3>3. [dst[reqOut] EXCEPT ![l + 1] = l + 1] =
            [i \in 1..(u + 1) |->
               IF i = l + 1 THEN l + 1 ELSE IF i <= l THEN i ELSE 0]
      BY <3>1
    <3>. QED  BY <3>2, <3>3
  <2>3. out \in Seq(Int)
    BY <1>9
  <2>4. dst' = [dst EXCEPT ![reqOut] = out]
    BY <2>1, <2>2, <1>10
  <2>. HIDE DEF out
  <2>5. dst' \in Seq(Seq(Int)) /\ Len(dst') = Len(dst)
        /\ (\A r \in Known : r # reqOut => dst'[r] = dst[r])
        /\ dst'[reqOut] = out
    BY <2>3, <2>4, <1>10 DEF Known
  <2>. QED  BY <2>5 DEF out
<1>. HIDE DEF l, u
<1>14. l \in Nat /\ u \in Nat /\ l + 1 <= u /\ y.c = l + 1
       /\ u = Units(reqOut) /\ l = obj[reqOut].in_len
  BY <1>7, <1>8, <1>9 DEF l, u
<1>15. /\ Known' = Known /\ Taken' = Taken
       /\ \A r \in Known : Shape(r)' = Shape(r) /\ Units(r)' = Units(r)
       /\ \A r \in Known : results'[r].calls = results[r].calls
       /\ \A t : At(t)' = At(t)
  BY <1>2, <1>7, <1>12 DEF Known, Taken, Shape, Units, At
<1>16. /\ sess' \in Sessions
       /\ sess'.seq = sess.seq /\ sess'.seq_in = sess.seq_in + 1
       /\ sess'.submitted = sess.submitted
       /\ sess'.processed = IF direct = "comp" THEN sess.processed + 1
                            ELSE sess.processed
       /\ sess'.last_submitted = sess.last_submitted
       /\ sess'.stat = sess.stat
       /\ sess'.stop_submitting = sess.stop_submitting
       /\ sess'.force_sw = sess.force_sw
  <2>. DEFINE p == IF direct = "comp" THEN sess.processed + 1
                   ELSE sess.processed
              q == sess.seq_in + 1
  <2>1. sess \in Sessions
    BY <1>1 DEF TypeInv, TypeSess
  <2>2. p \in Nat /\ q \in Nat
    BY <2>1 DEF Sessions
  <2>3. sess' = [sess EXCEPT !.seq_in = q, !.processed = p]
    BY DEF Delivered
  <2>. HIDE DEF p, q
  <2>4. /\ sess' \in Sessions /\ sess'.seq = sess.seq /\ sess'.seq_in = q
        /\ sess'.submitted = sess.submitted /\ sess'.processed = p
        /\ sess'.last_submitted = sess.last_submitted
        /\ sess'.stat = sess.stat
        /\ sess'.stop_submitting = sess.stop_submitting
        /\ sess'.force_sw = sess.force_sw
    BY <2>1, <2>2, <2>3 DEF Sessions
  <2>. QED  BY <2>4 DEF p, q
<1>17. /\ cur' \in [Slots -> Cursors] /\ Unused(cur'[jOut])
       /\ ~Answered(cur'[jOut]) /\ ~InFlight(cur[jOut])
       /\ \A m \in Slots : m # jOut => cur'[m] = cur[m]
  <2>1. cur[jOut] \in Cursors
    BY <1>1, <1>4 DEF TypeInv, TypeStream
  <2>. DEFINE c == [cur[jOut] EXCEPT !.sink2 = @ + 1]
  <2>2. c \in Cursors /\ Unused(c) /\ ~InFlight(cur[jOut])
    BY <2>1, <1>4, CursorSteps
  <2>3. cur' = [cur EXCEPT ![jOut] = c]
    BY DEF Delivered
  <2>. HIDE DEF c
  <2>4. ~Answered(c)
    BY <2>2, CursorSteps
  <2>5. /\ cur'[jOut] = c /\ cur' \in [Slots -> Cursors]
        /\ \A m \in Slots : m # jOut => cur'[m] = cur[m]
    BY <1>1, <1>4, <2>2, <2>3, SlotMoves DEF TypeInv
  <2>. QED  BY <2>2, <2>4, <2>5
<1>18. \A a \in hw : a.slot \in Slots /\ a.slot # jOut
  BY <1>1, <1>17 DEF TypeInv, TypeDev, Jobs, RunInv, SlotInv
<1>19. Tickets' = Tickets \ {y}
  <2>1. SUFFICES ASSUME NEW t \in [slot : Slots, r : Nat, c : Nat]
                 PROVE  t \in Tickets' <=> t \in Tickets /\ t # y
    BY DEF Tickets
  <2>2. t.slot \in Slots /\ hw' = hw /\ job' = job
    BY <1>2, <2>1
  <2>3. t \in Tickets' <=>
           \/ \E b \in hw : b.slot = t.slot /\ b.r = t.r /\ b.c = t.c
           \/ Answered(cur'[t.slot]) /\ job[t.slot].r = t.r
                                     /\ job[t.slot].c = t.c
    BY <2>1, <2>2 DEF Tickets, Answered
  <2>4. t \in Tickets <=>
           \/ \E b \in hw : b.slot = t.slot /\ b.r = t.r /\ b.c = t.c
           \/ Answered(cur[t.slot]) /\ job[t.slot].r = t.r
                                    /\ job[t.slot].c = t.c
    BY <2>1 DEF Tickets
  <2>5. CASE t.slot # jOut
    BY <2>2, <2>3, <2>4, <2>5, <1>5, <1>17
  <2>6. CASE t.slot = jOut
    <3>1. t \notin Tickets'
      BY <2>3, <2>6, <1>17, <1>18
    <3>2. t \in Tickets => At(t) = At(y)
      BY <2>6, <1>5 DEF At
    <3>3. t \in Tickets => t = y
      BY <3>2, <1>1, <1>5 DEF RunInv, SeqInv
    <3>. QED  BY <3>1, <3>3
  <2>. QED  BY <2>5, <2>6
<1>20. /\ NextSeq' = NextSeq /\ Working' = Working /\ NextUnit' = NextUnit
       /\ NextSeq \in Nat /\ sess.seq_in \in Nat
  <2>1. sess.seq \in Nat /\ sess.seq_in \in Nat
    BY <1>1 DEF TypeInv, TypeSess, Sessions
  <2>. QED  BY <2>1, <1>2, <1>16 DEF NextSeq, Working, NextUnit
\* The other tickets come later.
<1>21. \A t \in Tickets' :
         /\ t \in Tickets /\ t # y /\ At(t) \in Nat /\ At(t) > sess.seq_in
         /\ t.r \in Known /\ t.r \in 1..Taken /\ t.c \in Nat
  <2>1. SUFFICES ASSUME NEW t \in Tickets, t # y
                 PROVE  /\ At(t) \in Nat /\ At(t) > sess.seq_in
                        /\ t.r \in Known /\ t.r \in 1..Taken /\ t.c \in Nat
    BY <1>19
  <2>2. At(t) \in Nat /\ t.c \in Nat
    BY <1>1, TicketType DEF TypeInv, TypeStream, At
  <2>3. At(t) >= sess.seq_in /\ At(t) # At(y)
    BY <2>1, <1>1, <1>5, <1>6 DEF RunInv, SeqInv
  <2>4. t.r \in 1..Taken
    BY <1>1 DEF RunInv, ChainInv, TicketInv
  <2>. QED  BY <2>2, <2>3, <2>4, <1>3, <1>6, <1>20
<1>22. /\ \A r \in 1..(reqOut - 1) : Finished(r)'
       /\ l + 1 = u => Finished(reqOut)'
       /\ results'[reqOut].calls = 0
  <2>1. \A r \in 1..(reqOut - 1) : r \in Known
    BY <1>3, <1>7
  <2>2. \A r \in 1..(reqOut - 1) : results'[r].calls = 1
    BY <2>1, <1>8, <1>15
  <2>3. \A r \in 1..(reqOut - 1) : Finished(r)'
    BY <2>2 DEF Finished
  <2>4. results'[reqOut].calls = 0
    BY <1>12
  <2>5. ASSUME l + 1 = u
        PROVE  Finished(reqOut)'
    <3>1. reqOut' = reqOut /\ pcP' = "done"
      BY <1>2
    <3>2. obj'[reqOut].in_len = Units(reqOut)'
      <4>1. Units(reqOut)' = u
        BY <3>1, <1>7, <1>14, <1>15
      <4>. QED  BY <2>5, <4>1, <1>11
    <3>. QED  BY <3>1, <3>2 DEF Finished
  <2>. QED  BY <2>3, <2>4, <2>5
<1>23. TypeInv'
  <2>1. TypeApp'
    <3>1. \A r \in Known' : results'[r].shape \in load'.shapes
      BY <1>1, <1>2, <1>12, <1>15 DEF TypeInv, TypeApp
    <3>. QED
      BY <1>1, <1>2, <1>10, <1>11, <1>12, <1>13, <3>1 DEF TypeInv, TypeApp
  <2>2. TypeSess' /\ TypeStream'
    BY <1>1, <1>2, <1>16, <1>17 DEF TypeSess, TypeInv, TypeStream
  <2>. QED
    BY <2>1, <2>2, <1>1, <1>2 DEF TypeInv, TypeIn, TypeOut, TypeDev
<1>24. SlotInv'
  <2>1. \A a \in hw : /\ InFlight(cur'[a.slot]) /\ Sane(a)
                      /\ pcC = "send" => a.slot # jIn
    BY <1>1, <1>17, <1>18 DEF RunInv, SlotInv
  <2>2. pcC \in {"setup", "send"} => jIn \in Slots /\ jIn # jOut
    <3>1. pcC \in {"setup", "send"} => jIn \in Slots
      BY <1>1 DEF TypeInv, TypeIn
    <3>2. pcC = "send" => jIn # jOut
      BY <1>1, <1>17 DEF RunInv, SlotInv
    <3>3. cur[jOut] \in Cursors
      BY <1>1, <1>4 DEF TypeInv, TypeStream
    <3>4. pcC = "setup" => jIn # jOut
      BY <1>1, <1>4, <3>3, CursorSteps DEF RunInv, SlotInv
    <3>. QED  BY <3>1, <3>2, <3>4
  <2>3. /\ pcC = "setup" => Claimed(cur'[jIn])
        /\ pcC = "send" => InFlight(cur'[jIn]) /\ sseq[jIn] = sess.seq
                           /\ sreq[jIn] = req
    BY <1>1, <1>17, <2>2 DEF RunInv, SlotInv
  <2>4. \A k \in Slots : Answered(cur'[k]) => /\ job[k] \in Jobs
                                              /\ job[k].st # "pending"
                                              /\ Sane(job[k])
    BY <1>1, <1>17 DEF RunInv, SlotInv
  <2>5. \A a, b \in hw : a.slot = b.slot => a = b
    BY <1>1 DEF RunInv, SlotInv
  <2>. QED
    BY <2>1, <2>3, <2>4, <2>5, <1>2, <1>16
    DEF SlotInv, InFlight, Answered, Claimed, Sane
<1>25. SeqInv'
  <2>1. sess'.seq_in <= NextSeq'
    <3>1. At(y) < NextSeq
      BY <1>1, <1>5 DEF RunInv, SeqInv
    <3>. QED  BY <3>1, <1>6, <1>16, <1>20
  <2>2. \A t \in Tickets' : sess'.seq_in <= At(t)' /\ At(t)' < NextSeq'
    BY <1>1, <1>15, <1>16, <1>20, <1>21 DEF RunInv, SeqInv
  <2>3. \A t, u1 \in Tickets' : At(t)' = At(u1)' => t = u1
    BY <1>1, <1>15, <1>19 DEF RunInv, SeqInv
  <2>4. \A i \in Nat : (sess'.seq_in <= i /\ i < NextSeq') =>
                          \E t \in Tickets' : At(t)' = i
    <3>1. SUFFICES ASSUME NEW i \in Nat, sess.seq_in + 1 <= i, i < NextSeq
                   PROVE  \E t \in Tickets' : At(t) = i
      BY <1>15, <1>16, <1>20
    <3>2. PICK t \in Tickets : At(t) = i
      BY <3>1, <1>1, <1>20 DEF RunInv, SeqInv
    <3>3. t # y
      BY <3>1, <3>2, <1>6, <1>20
    <3>. QED  BY <3>2, <3>3, <1>19
  <2>. QED  BY <2>1, <2>2, <2>3, <2>4, <1>2 DEF SeqInv
<1>26. CountInv'
  <2>1. CountInv /\ sess.processed \in Nat
    BY <1>1 DEF RunInv, TypeInv, TypeSess, Sessions
  <2>2. sess.processed = sess.seq_in
    BY <2>1, <1>1 DEF CountInv
  <2>3. direct \in {"comp", "decomp"}
    BY <1>1 DEF TypeInv, TypeOut
  <2>. QED  BY <2>1, <2>2, <2>3, <1>1, <1>2, <1>16 DEF CountInv
<1>27. StageInv'
  <2>1. Working => req \in Known /\ Shape(req)' = Shape(req)
    BY <1>1, <1>3, <1>15, <1>2 DEF RunInv, QueueInv, Shape
  <2>. QED
    BY <2>1, <1>1, <1>2 DEF RunInv, StageInv, Working
<1>28. QueueInv'
  <2>1. Working => Units(Taken)' = Units(Taken)
    BY <1>3, <1>15 DEF Units, Shape
  <2>. QED
    BY <2>1, <1>1, <1>2, <1>15, <1>20 DEF RunInv, QueueInv, Working
<1>29. LengthInv'
  <2>1. SUFFICES ASSUME NEW r \in Known
                 PROVE
        /\ results'[r].calls \in {0, 1}
        /\ obj'[r].live <=> results'[r].calls = 0
        /\ results'[r].calls = 0 =>
              /\ results'[r].src_len = Units(r)
              /\ obj'[r].in_len = obj'[r].out_len
              /\ obj'[r].in_len <= Units(r)
              /\ dst'[r] = [i \in 1..(Units(r) + 1) |->
                             IF i <= obj'[r].in_len THEN i ELSE 0]
        /\ r > Taken \/ (Working /\ r = Taken /\ NextUnit = 0) =>
              results'[r].calls = 0 /\ obj'[r].in_len = 0
    BY <1>15, <1>20 DEF LengthInv
  <2>2. CASE r = reqOut
    <3>1. ~(r > Taken \/ (Working /\ r = Taken /\ NextUnit = 0))
      BY <2>2, <1>3, <1>7, <1>14
    <3>2. dst'[r] = [i \in 1..(Units(r) + 1) |->
                             IF i <= obj'[r].in_len THEN i ELSE 0]
      BY <2>2, <1>11, <1>13, <1>14
    <3>. QED  BY <2>2, <3>1, <3>2, <1>11, <1>12, <1>14
  <2>3. CASE r # reqOut
    <3>1. results'[r] = results[r] /\ obj'[r] = obj[r] /\ dst'[r] = dst[r]
      BY <2>3, <1>11, <1>12, <1>13
    <3>. QED  BY <3>1, <1>1 DEF RunInv, LengthInv
  <2>. QED  BY <2>2, <2>3
<1>30. TicketInv'
  <2>1. SUFFICES ASSUME NEW t \in Tickets'
                 PROVE  /\ t.r \in 1..Taken
                        /\ obj'[t.r].in_len < t.c /\ t.c <= Units(t.r)
                        /\ sreq[t.slot] = t.r
                        /\ results[t.r].calls = 0
                        /\ Working /\ t.r = Taken => t.c <= NextUnit
    BY <1>2, <1>15, <1>20, <1>21 DEF TicketInv
  <2>2. /\ obj[t.r].in_len < t.c /\ t.c <= Units(t.r)
        /\ sreq[t.slot] = t.r
        /\ results[t.r].calls = 0
        /\ Working /\ t.r = Taken => t.c <= NextUnit
    BY <1>1, <1>21 DEF RunInv, ChainInv, TicketInv
  <2>3. CASE t.r = reqOut
    <3>1. At(y) < At(t)
      BY <1>6, <1>21
    <3>2. y.c < t.c
      BY <2>3, <3>1, <1>1, <1>5, <1>7, <1>21 DEF RunInv, ChainInv, OrderInv
    <3>. QED  BY <2>2, <2>3, <3>2, <1>11, <1>14, <1>21
  <2>4. CASE t.r # reqOut
    BY <2>2, <2>4, <1>11, <1>21
  <2>. QED  BY <2>3, <2>4
<1>31. OrderInv'
  BY <1>1, <1>15, <1>21 DEF RunInv, ChainInv, OrderInv
<1>32. HeadInv'
  <2>1. SUFFICES ASSUME NEW t \in Tickets', At(t) = sess.seq_in + 1
                 PROVE  /\ t.c = obj'[t.r].in_len + 1
                        /\ \A r \in 1..(t.r - 1) : Finished(r)'
    BY <1>15, <1>16 DEF HeadInv
  <2>2. \/ t.r = y.r /\ t.c = y.c + 1
        \/ t.r = y.r + 1 /\ y.c = Units(y.r) /\ t.c = 1
    BY <2>1, <1>1, <1>5, <1>6, <1>21 DEF RunInv, ChainInv, OrderInv
  <2>3. CASE t.r = y.r /\ t.c = y.c + 1
    BY <2>3, <1>7, <1>11, <1>14, <1>22
  <2>4. CASE t.r = y.r + 1 /\ y.c = Units(y.r) /\ t.c = 1
    <3>1. t.r # reqOut
      BY <2>4, <1>6, <1>7
    <3>2. obj'[t.r].in_len = obj[t.r].in_len
      BY <3>1, <1>11, <1>21
    <3>3. obj[t.r].in_len \in Nat
      BY <1>1, <1>21, UnitsPositive DEF TypeInv, Objects
    <3>4. obj[t.r].in_len < t.c
      BY <1>1, <1>21 DEF RunInv, ChainInv, TicketInv
    <3>5. l + 1 = u
      BY <2>4, <1>7, <1>14
    <3>6. \A r \in 1..(t.r - 1) : r \in 1..(reqOut - 1) \/ r = reqOut
      BY <2>4, <1>6, <1>7
    <3>7. t.c = obj'[t.r].in_len + 1
      BY <2>4, <3>2, <3>3, <3>4
    <3>8. \A r \in 1..(t.r - 1) : Finished(r)'
      BY <3>5, <3>6, <1>2, <1>22
    <3>. QED  BY <3>7, <3>8
  <2>. QED  BY <2>2, <2>3, <2>4
<1>33. TailInv'
  BY <1>1, <1>15, <1>20, <1>21 DEF RunInv, ChainInv, TailInv
<1>34. IdleInv'
  <2>1. SUFFICES ASSUME sess.seq_in + 1 = NextSeq
        PROVE  /\ \A r \in 1..(Taken - 1) : Finished(r)'
               /\ IF Working
                  THEN /\ obj'[Taken].in_len = NextUnit
                       /\ NextUnit < Units(Taken) => results'[Taken].calls = 0
                       /\ NextUnit = Units(Taken) => Finished(Taken)'
                  ELSE Taken > 0 => Finished(Taken)'
    <3>1. Working => Units(Taken)' = Units(Taken)
      BY <1>3, <1>15 DEF Units, Shape
    <3>. QED  BY <3>1, <1>15, <1>16, <1>20 DEF IdleInv, Finished
  <2>2. At(y) + 1 = NextSeq
    BY <2>1, <1>6
  <2>3. IF Working /\ NextUnit > 0
        THEN y.r = Taken /\ y.c = NextUnit
        ELSE /\ y.r = IF Working THEN Taken - 1 ELSE Taken
             /\ y.c = Units(y.r)
    BY <2>2, <1>1, <1>5 DEF RunInv, ChainInv, TailInv
  <2>4. CASE Working /\ NextUnit > 0
    <3>1. reqOut = Taken /\ l + 1 = NextUnit
      BY <2>3, <2>4, <1>7, <1>14
    <3>2. obj'[Taken].in_len = NextUnit /\ results'[Taken].calls = 0
      BY <3>1, <1>11, <1>22
    <3>3. \A r \in 1..(Taken - 1) : Finished(r)'
      BY <3>1, <1>22
    <3>4. NextUnit = Units(Taken) => Finished(Taken)'
      BY <3>1, <1>2, <1>14, <1>15, <1>22
    <3>. QED  BY <2>4, <3>2, <3>3, <3>4
  <2>5. CASE Working /\ ~(NextUnit > 0)
    <3>1. reqOut = Taken - 1 /\ l + 1 = u
      BY <2>3, <2>5, <1>7, <1>14
    <3>2. \A r \in 1..(Taken - 1) : r \in 1..(reqOut - 1) \/ r = reqOut
      BY <3>1, <1>3, <1>7
    <3>3. Taken # reqOut /\ Taken \in Known
      BY <3>1, <2>5, <1>3
    <3>4. NextUnit = 0
      <4>1. NextUnit \in Nat
        BY <1>1 DEF NextUnit, TypeInv, TypeIn
      <4>. QED  BY <4>1, <2>5
    <3>5. results[Taken].calls = 0 /\ obj[Taken].in_len = 0
      <4>1. LengthInv
        BY <1>1 DEF RunInv
      <4>. QED  BY <4>1, <3>3, <3>4, <2>5 DEF LengthInv
    <3>6. Units(Taken) # 0
      BY <3>3, <1>1, UnitsPositive DEF TypeInv
    <3>7. \A r \in 1..(Taken - 1) : Finished(r)'
      BY <3>1, <3>2, <1>2, <1>22
    <3>8. obj'[Taken].in_len = NextUnit /\ results'[Taken].calls = 0
      BY <3>3, <3>4, <3>5, <1>11, <1>12
    <3>. QED  BY <2>5, <3>4, <3>6, <3>7, <3>8
  <2>6. CASE ~Working
    <3>1. reqOut = Taken /\ l + 1 = u
      BY <2>3, <2>6, <1>7, <1>14
    <3>2. Finished(Taken)'
      BY <3>1, <1>2, <1>15, <1>22
    <3>. QED  BY <2>6, <3>1, <3>2, <1>22
  <2>. QED  BY <2>4, <2>5, <2>6
<1>35. DoneInv'
  <2>1. \A r \in 1..(reqOut - 1) : r \in Known
    BY <1>3, <1>7
  <2>. QED  BY <2>1, <1>2, <1>7, <1>8, <1>15 DEF DoneInv
<1>36. CalledBackOnce' /\ CallbackTrue' /\ CalledInOrder'
  <2>1. DOMAIN results = Known /\ DOMAIN results' = Known
    BY <1>10, <1>12 DEF Known
  <2>2. CalledBackOnce' /\ CalledInOrder'
    BY <2>1, <1>2, <1>15 DEF CalledBackOnce, CalledInOrder, Inv
  <2>3. CallbackTrue'
    <3>1. SUFFICES ASSUME NEW r \in Known, results'[r].calls > 0,
                          results'[r].status = "OK"
                   PROVE  /\ results'[r].src_len = Units(r)
                          /\ results'[r].dest_len = Units(r)
                          /\ dst'[r] = [i \in 1..(Units(r) + 1) |->
                                          IF i <= Units(r) THEN i ELSE 0]
      BY <2>1, <1>15 DEF CallbackTrue, Units
    <3>2. r # reqOut
      BY <3>1, <1>12
    <3>3. results'[r] = results[r] /\ dst'[r] = dst[r]
      BY <3>2, <1>12, <1>13
    <3>. QED  BY <3>1, <3>3, <2>1 DEF CallbackTrue, Inv, Units
  <2>. QED  BY <2>2, <2>3
<1>. QED
  BY <1>1, <1>2, <1>23, <1>24, <1>25, <1>26, <1>27, <1>28, <1>29, <1>30, <1>31,
     <1>32, <1>33, <1>34, <1>35, <1>36
  DEF Inv, RunInv, ChainInv

\* The polling thread counts the answer and, when the request is complete,
\* calls the application back.
LEMMA OutDoneKeeps ==
    ASSUME AsyncAssumption, Inv, ~dropped, OutDone
    PROVE  Inv'
<1>. USE DEF appVars, reqVars, inVars, outVars, streamVars, devVars
<1>1. TypeInv /\ RunInv /\ pcC # "ended" /\ pcP = "done" /\ pcP' = "test"
  BY Polling DEF OutDone
<1>2. UNCHANGED <<load, app, async_ctrl_init, queue, dst, pcC, inVars, direct,
                  jOut, reqOut, pOut, streamVars, devVars>>
  BY DEF OutDone
<1>3. Taken \in Nat /\ (\A r \in 1..Taken : r \in Known)
      /\ (Working => Taken \in Known /\ Taken >= 1)
      /\ (Taken > 0 => Taken \in Known)
  BY <1>1, TakenKnown DEF RunInv, TypeInv, QueueInv
<1>4. /\ reqOut \in 1..Taken /\ reqOut \in Known /\ reqOut \in Nat
      /\ results[reqOut].calls = 0
      /\ \A r \in 1..(reqOut - 1) : results[r].calls = 1
  BY <1>1, <1>3 DEF RunInv, ChainInv, DoneInv
<1>. DEFINE u == Units(reqOut)
            full == obj[reqOut].in_len = u
            long == [results EXCEPT ![reqOut].dest_len = obj[reqOut].out_len]
<1>5. /\ results[reqOut] \in Results /\ obj[reqOut] \in Objects
      /\ u \in Nat /\ u >= 1
  BY <1>1, <1>4, UnitsPositive DEF TypeInv
<1>6. /\ results[reqOut].src_len = u
      /\ obj[reqOut].out_len = obj[reqOut].in_len
      /\ obj[reqOut].in_len \in Nat
      /\ dst[reqOut] = [i \in 1..(u + 1) |->
                          IF i <= obj[reqOut].in_len THEN i ELSE 0]
  <2>1. obj[reqOut].in_len \in Nat
    BY <1>5 DEF Objects
  <2>. QED  BY <2>1, <1>1, <1>4 DEF RunInv, LengthInv
<1>7. \/ /\ full
         /\ results' = Called(long, reqOut, "OK") /\ obj' = Freed(obj, reqOut)
      \/ ~full /\ results' = results /\ obj' = obj
  BY <1>6 DEF OutDone
<1>8. /\ results \in Seq(Results) /\ obj \in Seq(Objects)
      /\ dst \in Seq(Seq(Int)) /\ Len(results) \in Nat
      /\ Len(obj) = Len(results) /\ Len(dst) = Len(results)
      /\ reqOut \in 1..Len(results)
  BY <1>1, <1>4 DEF TypeInv, TypeApp, Known
<1>9. /\ long \in Seq(Results) /\ Len(long) = Len(results)
      /\ \A r \in Known : r # reqOut => long[r] = results[r]
      /\ long[reqOut].shape = results[reqOut].shape
      /\ long[reqOut].calls = results[reqOut].calls
      /\ long[reqOut].src_len = results[reqOut].src_len
      /\ long[reqOut].dest_len = obj[reqOut].out_len
  <2>. DEFINE d == obj[reqOut].out_len
              new == [results[reqOut] EXCEPT !.dest_len = d]
  <2>1. d \in Nat
    BY <1>6
  <2>2. long = [results EXCEPT ![reqOut] = new]
    OBVIOUS
  <2>. HIDE DEF d, long
  <2>3. /\ new \in Results /\ new.shape = results[reqOut].shape
        /\ new.calls = results[reqOut].calls /\ new.dest_len = d
        /\ new.src_len = results[reqOut].src_len
    BY <2>1, <1>5 DEF Results
  <2>. HIDE DEF new, u, full
  <2>4. /\ long \in Seq(Results) /\ Len(long) = Len(results)
        /\ \A r \in Known : r # reqOut => long[r] = results[r]
        /\ long[reqOut].shape = results[reqOut].shape
        /\ long[reqOut].calls = results[reqOut].calls
        /\ long[reqOut].src_len = results[reqOut].src_len
        /\ long[reqOut].dest_len = d
    BY <2>2, <2>3, <1>8 DEF Known
  <2>. QED  BY <2>4 DEF d
<1>. HIDE DEF long, u, full
\* Only the request the answer belongs to changes, and only if it is complete.
<1>10. /\ results' \in Seq(Results) /\ Len(results') = Len(results)
       /\ \A r \in Known : r # reqOut => results'[r] = results[r]
       /\ results'[reqOut].shape = results[reqOut].shape
       /\ results'[reqOut].src_len = u
       /\ full => results'[reqOut].calls = 1
       /\ full => results'[reqOut].dest_len = obj[reqOut].out_len
       /\ ~full => results'[reqOut] = results[reqOut]
  <2>1. CASE full /\ results' = Called(long, reqOut, "OK")
    <3>1. long \in Seq(Results) /\ reqOut \in 1..Len(long)
      BY <1>8, <1>9
    <3>2. "OK" \in {"OK", "FAIL"}
      OBVIOUS
    <3>3. /\ Called(long, reqOut, "OK") \in Seq(Results)
          /\ Len(Called(long, reqOut, "OK")) = Len(long)
          /\ \A q \in 1..Len(long) : q # reqOut =>
                Called(long, reqOut, "OK")[q] = long[q]
          /\ Called(long, reqOut, "OK")[reqOut].shape = long[reqOut].shape
          /\ Called(long, reqOut, "OK")[reqOut].calls = long[reqOut].calls + 1
          /\ Called(long, reqOut, "OK")[reqOut].src_len = long[reqOut].src_len
          /\ Called(long, reqOut, "OK")[reqOut].dest_len =
                long[reqOut].dest_len
      BY <3>1, <3>2, CalledOnly
    <3>4. /\ results' \in Seq(Results) /\ Len(results') = Len(long)
          /\ \A q \in 1..Len(long) : q # reqOut => results'[q] = long[q]
          /\ results'[reqOut].shape = long[reqOut].shape
          /\ results'[reqOut].calls = long[reqOut].calls + 1
          /\ results'[reqOut].src_len = long[reqOut].src_len
          /\ results'[reqOut].dest_len = long[reqOut].dest_len
      BY <2>1, <3>3, Zenon
    <3>. QED  BY <2>1, <3>4, <1>4, <1>6, <1>9 DEF Known
  <2>2. CASE ~full /\ results' = results
    BY <2>2, <1>6, <1>8
  <2>. QED  BY <2>1, <2>2, <1>7
<1>11. /\ obj' \in Seq(Objects) /\ Len(obj') = Len(obj)
       /\ \A r \in Known : r # reqOut => obj'[r] = obj[r]
       /\ obj'[reqOut].in_len = obj[reqOut].in_len
       /\ full => obj'[reqOut].live = FALSE
       /\ ~full => obj'[reqOut] = obj[reqOut]
  <2>1. CASE full /\ obj' = Freed(obj, reqOut)
    <3>1. obj \in Seq(Objects) /\ reqOut \in 1..Len(obj)
      BY <1>8
    <3>2. /\ Freed(obj, reqOut) \in Seq(Objects)
          /\ Len(Freed(obj, reqOut)) = Len(obj)
          /\ \A q \in 1..Len(obj) : q # reqOut =>
                Freed(obj, reqOut)[q] = obj[q]
          /\ Freed(obj, reqOut)[reqOut].live = FALSE
          /\ Freed(obj, reqOut)[reqOut].in_len = obj[reqOut].in_len
      BY <3>1, FreedOnly, Zenon
    <3>3. \A q \in Known : q \in 1..Len(obj)
      BY <1>8 DEF Known
    <3>. QED  BY <2>1, <3>2, <3>3, Zenon
  <2>2. CASE ~full /\ obj' = obj
    BY <2>2, <1>8
  <2>. QED  BY <2>1, <2>2, <1>7
<1>12. /\ Known' = Known /\ Taken' = Taken /\ Tickets' = Tickets
       /\ \A r \in Known : Shape(r)' = Shape(r) /\ Units(r)' = Units(r)
       /\ \A r \in Known : obj'[r].in_len = obj[r].in_len
       /\ \A t : At(t)' = At(t)
  BY <1>2, <1>4, <1>10, <1>11, TicketsKept DEF Known, Taken, Shape, Units, At
<1>13. /\ sess' \in Sessions
       /\ sess'.seq = sess.seq /\ sess'.seq_in = sess.seq_in
       /\ sess'.submitted = sess.submitted
       /\ sess'.processed = sess.seq_in
       /\ sess'.last_submitted = sess.last_submitted
       /\ sess'.stat = sess.stat
       /\ sess'.stop_submitting = sess.stop_submitting
       /\ sess'.force_sw = sess.force_sw
  <2>. DEFINE p == IF direct = "comp" THEN sess.processed ELSE pOut + 1
  <2>1. sess \in Sessions /\ direct \in {"comp", "decomp"}
    BY <1>1 DEF TypeInv, TypeSess, TypeOut
  <2>2. sess.seq_in \in Nat
    BY <2>1 DEF Sessions
  <2>3. p = sess.seq_in
    BY <2>1, <1>1 DEF RunInv, CountInv
  <2>4. sess' = [sess EXCEPT !.processed = p]
    BY DEF OutDone, Counted
  <2>. HIDE DEF p
  <2>. QED  BY <2>1, <2>2, <2>3, <2>4 DEF Sessions
<1>14. NextSeq' = NextSeq /\ Working' = Working /\ NextUnit' = NextUnit
  BY <1>2, <1>13 DEF NextSeq, Working, NextUnit
<1>15. /\ \A r \in Known : Finished(r)' <=> Finished(r)
       /\ full => Finished(reqOut)
  <2>1. SUFFICES ASSUME NEW r \in Known
                 PROVE  results'[r].calls = 1 <=>
                          \/ results[r].calls = 1
                          \/ r = reqOut /\ obj[r].in_len = Units(r)
    BY <1>1 DEF Finished, full, u
  <2>2. CASE r = reqOut
    BY <2>2, <1>4, <1>10 DEF full, u
  <2>3. CASE r # reqOut
    BY <2>3, <1>10
  <2>. QED  BY <2>2, <2>3
<1>16. TypeInv'
  <2>1. TypeApp'
    <3>1. \A r \in Known' : results'[r].shape \in load'.shapes
      BY <1>1, <1>2, <1>10, <1>12 DEF TypeInv, TypeApp
    <3>. QED
      BY <1>1, <1>2, <1>8, <1>10, <1>11, <3>1 DEF TypeInv, TypeApp
  <2>2. TypeSess'
    BY <1>13 DEF TypeSess
  <2>. QED
    BY <2>1, <2>2, <1>1, <1>2
    DEF TypeInv, TypeIn, TypeOut, TypeStream, TypeDev
<1>17. SlotInv'
  BY <1>1, <1>2, <1>13
  DEF RunInv, SlotInv, Claimed, InFlight, Answered, Sane
<1>18. SeqInv'
  BY <1>1, <1>12, <1>13, <1>14, SeqKept DEF RunInv, SeqInv
<1>19. CountInv'
  BY <1>1, <1>2, <1>13 DEF RunInv, CountInv
<1>20. StageInv'
  <2>1. Working => req \in Known /\ Shape(req)' = Shape(req)
    BY <1>1, <1>3, <1>12, <1>2 DEF RunInv, QueueInv, Shape
  <2>. QED  BY <2>1, <1>1, <1>2 DEF RunInv, StageInv, Working
<1>21. QueueInv'
  <2>1. Working => Units(Taken)' = Units(Taken)
    BY <1>3, <1>12 DEF Units, Shape
  <2>. QED
    BY <2>1, <1>1, <1>2, <1>12, <1>14 DEF RunInv, QueueInv, Working
<1>22. LengthInv'
  <2>1. SUFFICES ASSUME NEW r \in Known
                 PROVE
        /\ results'[r].calls \in {0, 1}
        /\ obj'[r].live <=> results'[r].calls = 0
        /\ results'[r].calls = 0 =>
              /\ results'[r].src_len = Units(r)
              /\ obj'[r].in_len = obj'[r].out_len
              /\ obj'[r].in_len <= Units(r)
              /\ dst[r] = [i \in 1..(Units(r) + 1) |->
                             IF i <= obj'[r].in_len THEN i ELSE 0]
        /\ r > Taken \/ (Working /\ r = Taken /\ NextUnit = 0) =>
              results'[r].calls = 0 /\ obj'[r].in_len = 0
    BY <1>2, <1>12, <1>14 DEF LengthInv
  <2>2. CASE r = reqOut /\ full
    <3>1. ~(r > Taken)
      BY <2>2, <1>3, <1>4
    <3>2. ASSUME Working, r = Taken, NextUnit = 0  PROVE FALSE
      <4>1. LengthInv
        BY <1>1 DEF RunInv
      <4>2. obj[r].in_len = 0
        BY <4>1, <3>2 DEF LengthInv
      <4>. QED  BY <4>2, <2>2, <1>5 DEF full
    <3>. QED  BY <2>2, <3>1, <3>2, <1>10, <1>11
  <2>3. CASE ~(r = reqOut /\ full)
    <3>1. results'[r] = results[r] /\ obj'[r] = obj[r]
      BY <2>3, <1>10, <1>11
    <3>. QED  BY <3>1, <1>1 DEF RunInv, LengthInv
  <2>. QED  BY <2>2, <2>3
<1>23. \A t \in Tickets :
         /\ t.r \in Known
         /\ \A r \in 1..(t.r - 1) : r \in Known
  <2>1. \A t \in Tickets : t.r \in 1..Taken
    BY <1>1 DEF RunInv, ChainInv, TicketInv
  <2>. QED  BY <2>1, <1>3
<1>24. TicketInv'
  <2>1. SUFFICES ASSUME NEW t \in Tickets
                 PROVE  results'[t.r].calls = 0
    BY <1>1, <1>2, <1>12, <1>14, <1>23 DEF RunInv, ChainInv, TicketInv
  <2>2. /\ obj[t.r].in_len < t.c /\ t.c <= Units(t.r)
        /\ results[t.r].calls = 0 /\ t.c \in Nat
    BY <1>1, TicketType DEF RunInv, ChainInv, TicketInv
  <2>3. CASE t.r = reqOut
    <3>1. ~full
      BY <2>2, <2>3, <1>5 DEF full, u
    <3>. QED  BY <2>2, <2>3, <3>1, <1>10
  <2>4. CASE t.r # reqOut
    BY <2>2, <2>4, <1>10, <1>23
  <2>. QED  BY <2>3, <2>4
<1>25. OrderInv'
  BY <1>1, <1>12, <1>23 DEF RunInv, ChainInv, OrderInv
<1>26. HeadInv'
  BY <1>1, <1>12, <1>13, <1>15, <1>23 DEF RunInv, ChainInv, HeadInv
<1>27. TailInv'
  BY <1>1, <1>12, <1>14, <1>23 DEF RunInv, ChainInv, TailInv
<1>28. IdleInv'
  <2>1. SUFFICES ASSUME sess.seq_in = NextSeq
        PROVE  /\ \A r \in 1..(Taken - 1) : Finished(r)'
               /\ IF Working
                  THEN /\ obj'[Taken].in_len = NextUnit
                       /\ NextUnit < Units(Taken) => results'[Taken].calls = 0
                       /\ NextUnit = Units(Taken) => Finished(Taken)'
                  ELSE Taken > 0 => Finished(Taken)'
    <3>1. Working => Units(Taken)' = Units(Taken)
      BY <1>3, <1>12 DEF Units, Shape
    <3>. QED  BY <3>1, <1>12, <1>13, <1>14 DEF IdleInv, Finished
  <2>2. /\ \A r \in 1..(Taken - 1) : Finished(r)
        /\ IF Working
           THEN /\ obj[Taken].in_len = NextUnit
                /\ NextUnit < Units(Taken) => results[Taken].calls = 0
                /\ NextUnit = Units(Taken) => Finished(Taken)
           ELSE Taken > 0 => Finished(Taken)
    BY <2>1, <1>1 DEF RunInv, ChainInv, IdleInv
  <2>3. Taken \in Known => (Finished(Taken)' <=> Finished(Taken))
    BY <1>12, <1>15
  <2>4. \A r \in 1..(Taken - 1) : Finished(r)'
    <3>1. \A r \in 1..(Taken - 1) : r \in Known
      BY <1>3
    <3>. QED  BY <3>1, <2>2, <1>15
  <2>5. CASE Working
    <3>1. Taken \in Known /\ obj'[Taken].in_len = NextUnit
      BY <2>2, <2>5, <1>3, <1>12
    <3>2. ASSUME NextUnit < Units(Taken)  PROVE results'[Taken].calls = 0
      <4>1. results[Taken].calls = 0 /\ obj[Taken].in_len = NextUnit
        BY <2>2, <2>5, <3>2
      <4>2. CASE Taken = reqOut
        <5>1. ~full
          BY <3>2, <4>1, <4>2, <1>5 DEF full, u
        <5>. QED  BY <4>1, <4>2, <5>1, <1>10
      <4>3. CASE Taken # reqOut
        BY <4>1, <4>3, <3>1, <1>10
      <4>. QED  BY <4>2, <4>3
    <3>3. NextUnit = Units(Taken) => Finished(Taken)'
      BY <2>2, <2>3, <2>5, <3>1
    <3>. QED  BY <2>4, <2>5, <3>1, <3>2, <3>3
  <2>6. CASE ~Working
    <3>1. Taken > 0 => Finished(Taken)'
      BY <2>2, <2>3, <2>6, <1>3
    <3>. QED  BY <2>4, <2>6, <3>1
  <2>. QED  BY <2>5, <2>6
<1>29. DoneInv'
  BY <1>1 DEF DoneInv
<1>30. CalledBackOnce' /\ CallbackTrue' /\ CalledInOrder'
  <2>1. DOMAIN results = Known /\ DOMAIN results' = Known
    BY <1>8, <1>10 DEF Known
  <2>2. CalledBackOnce'
    <3>1. \A r \in Known : results'[r].calls \in {0, 1}
      BY <1>22, <1>12 DEF LengthInv
    <3>2. \A r \in Known : results'[r].calls <= 1
      BY <3>1
    <3>. QED  BY <2>1, <3>2 DEF CalledBackOnce
  <2>3. CallbackTrue'
    <3>1. SUFFICES ASSUME NEW r \in Known, results'[r].calls > 0,
                          results'[r].status = "OK"
                   PROVE  /\ results'[r].src_len = Units(r)
                          /\ results'[r].dest_len = Units(r)
                          /\ dst[r] = [i \in 1..(Units(r) + 1) |->
                                          IF i <= Units(r) THEN i ELSE 0]
      BY <2>1, <1>2, <1>12 DEF CallbackTrue, Units
    <3>2. CASE r = reqOut /\ full
      <4>1. results'[r].src_len = u /\ results'[r].dest_len = u
        BY <3>2, <1>6, <1>10 DEF full
      <4>2. dst[r] = [i \in 1..(u + 1) |-> IF i <= u THEN i ELSE 0]
        BY <3>2, <1>6 DEF full
      <4>. QED  BY <4>1, <4>2, <3>2 DEF u
    <3>3. CASE ~(r = reqOut /\ full)
      <4>1. results'[r] = results[r]
        BY <3>3, <1>10
      <4>. QED  BY <4>1, <3>1, <2>1 DEF CallbackTrue, Inv, Units
    <3>. QED  BY <3>2, <3>3
  <2>4. CalledInOrder'
    <3>1. SUFFICES ASSUME NEW r \in Known, NEW q \in Known, r < q,
                          results'[q].calls > 0
                   PROVE  results'[r].calls > 0
      BY <2>1 DEF CalledInOrder
    <3>2. CASE q = reqOut
      <4>1. r \in 1..(reqOut - 1) /\ r # reqOut
        BY <3>1, <3>2, <1>4 DEF Known
      <4>. QED  BY <4>1, <1>4, <1>10
    <3>3. CASE q # reqOut
      <4>1. results[q].calls > 0
        BY <3>1, <3>3, <1>10
      <4>2. results[r].calls > 0
        BY <3>1, <4>1, <2>1 DEF CalledInOrder, Inv
      <4>. QED  BY <4>2, <1>10
    <3>. QED  BY <3>2, <3>3
  <2>. QED  BY <2>2, <2>3, <2>4
<1>. QED
  BY <1>1, <1>2, <1>16, <1>17, <1>18, <1>19, <1>20, <1>21, <1>22, <1>24, <1>25,
     <1>26, <1>27, <1>28, <1>29, <1>30
  DEF Inv, RunInv, ChainInv

-----------------------------------------------------------------------------
(* The invariant is inductive.                                             *)

\* A dropped answer is not forgotten.
LEMMA DroppedStays ==
    ASSUME [Next]_vars, dropped
    PROVE  dropped'
<1>. USE DEF appVars, reqVars, inVars, outVars, streamVars, devVars
<1>1. CASE AppNext
  BY <1>1 DEF AppNext, Submit, Exit, Joined
<1>2. CASE ConsumerNext
  BY <1>2 DEF ConsumerNext, CGrab, CTake, CSoft, CDirection, CSwitch, CRecover,
              CRefuse, CLeave, CClear
<1>3. CASE InNext
  <2>1. CASE InStart \/ InCheck \/ InGetBuffer \/ InSetup
    BY <2>1 DEF InStart, InCheck, InGetBuffer, InSetup
  <2>2. CASE InSend \/ InCleanUp \/ InSWFallback \/ InSWPending
    BY <2>2 DEF InSend, InCleanUp, InSWFallback, InSWPending
  <2>3. CASE InSWDecompress \/ InSWProcessed \/ InSWRequest
    BY <2>3 DEF InSWDecompress, InSWProcessed, InSWRequest
  <2>4. CASE InAdvance \/ InErrExit
    BY <2>4 DEF InAdvance, InErrExit
  <2>. QED  BY <1>3, <2>1, <2>2, <2>3, <2>4 DEF InNext
<1>4. CASE OutNext
  <2>1. CASE OutTest \/ OutCallback \/ OutPolled \/ OutPollFail \/ OutScan
    BY <2>1 DEF OutTest, OutCallback, OutPolled, OutPollFail, OutScan
  <2>2. CASE OutFailing
    <3>1. dropped' = dropped \/ dropped' = (dropped \/ pcP' # "done")
      BY <2>2 DEF OutFailing, Respond
    <3>. QED  BY <3>1
  <2>3. CASE OutSkip \/ (\E s \in {"FAIL", "BUF_ERROR", "DATA_ERROR"} :
                            OutDrop(s)) \/ OutDone
    BY <2>3 DEF OutSkip, OutDrop, OutDone
  <2>4. CASE OutCompAnswer
    <3>1. dropped' = (dropped \/ pcP' # "done")
      BY <2>4 DEF OutCompAnswer, Respond
    <3>. QED  BY <3>1
  <2>5. CASE OutDecompAnswer
    <3>1. dropped' = (dropped \/ pcP' # "done")
      BY <2>5 DEF OutDecompAnswer, Respond
    <3>. QED  BY <3>1
  <2>. QED  BY <1>4, <2>1, <2>2, <2>3, <2>4, <2>5 DEF OutNext
<1>5. CASE HwComplete \/ HwEvent \/ Rest \/ UNCHANGED vars
  BY <1>5 DEF HwComplete, HwEvent, Rest, vars
<1>. QED  BY <1>1, <1>2, <1>3, <1>4, <1>5 DEF Next

LEMMA StutterKeeps ==
    ASSUME Inv, UNCHANGED vars
    PROVE  Inv'
<1>. USE DEF appVars, reqVars, inVars, outVars, streamVars, devVars
<1>1. UNCHANGED <<appVars, reqVars, sess, pcC, inVars, pcP, direct, outVars,
                  streamVars, devVars>>
  BY DEF vars
<1>2. TypeInv'
  <2>1. TypeApp'
    BY <1>1 DEF Inv, TypeInv, TypeApp, Known
  <2>. QED
    BY <2>1, <1>1
    DEF Inv, TypeInv, TypeSess, TypeIn, TypeOut, TypeStream, TypeDev
<1>3. CASE pcC = "ended"
  BY <1>1, <1>2, <1>3, EndKept DEF Inv
<1>4. CASE pcC # "ended"
  <2>1. RunInv
    BY <1>4 DEF Inv
  <2>2. Tickets' = Tickets /\ Taken' = Taken
    BY <1>1, TicketsKept DEF Taken
  <2>3. /\ \A t \in Tickets : At(t)' = At(t) /\ sreq'[t.slot] = sreq[t.slot]
        /\ NextSeq' = NextSeq /\ Working' = Working /\ NextUnit' = NextUnit
        /\ sess'.seq_in = sess.seq_in
    BY <1>1 DEF At, NextSeq, Working, NextUnit
  <2>4. SlotInv'
    BY <1>1, <2>1 DEF RunInv, SlotInv, Claimed, InFlight, Answered, Sane
  <2>5. SeqInv'
    BY <1>1, <2>1, <2>2, <2>3, SeqKept DEF RunInv, SeqInv, Answered
  <2>6. CountInv' /\ StageInv'
    BY <1>1, <2>1 DEF RunInv, CountInv, StageInv, Shape
  <2>7. QueueInv'
    BY <1>1, <2>1, <2>2, <2>3 DEF RunInv, QueueInv, Units, Shape
  <2>8. LengthInv' /\ ChainInv'
    BY <1>1, <2>1, <2>2, <2>3, ChainKept DEF RunInv
  <2>9. CalledBackOnce' /\ CallbackTrue' /\ CalledInOrder'
    BY <1>1, PropertiesKept DEF Inv
  <2>. QED
    BY <1>1, <1>2, <1>4, <2>4, <2>5, <2>6, <2>7, <2>8, <2>9 DEF Inv, RunInv
<1>. QED  BY <1>3, <1>4

\* Under the hypotheses, the consumer never decompresses in software and never
\* gives a request up, and the polling thread drops no answer.
LEMMA NotReached ==
    ASSUME Offloaded, TypeInv
    PROVE  /\ ~CRecover /\ ~CRefuse /\ ~InCleanUp /\ ~InSWFallback
           /\ ~InSWPending /\ ~InSWDecompress /\ ~InSWProcessed
           /\ ~InSWRequest /\ ~InErrExit
           /\ ~OutFailing /\ ~OutSkip
           /\ \A s \in {"FAIL", "BUF_ERROR", "DATA_ERROR"} : ~OutDrop(s)
           /\ ~HwEvent
<1>1. TypeIn /\ TypeOut /\ TypeApp
  BY DEF TypeInv
<1>2. ~CRecover /\ ~CRefuse /\ ~InCleanUp /\ ~InSWFallback
  BY <1>1 DEF TypeIn, CRecover, CRefuse, InCleanUp, InSWFallback
<1>3. ~InSWPending /\ ~InSWDecompress /\ ~InSWProcessed
  BY <1>1 DEF TypeIn, InSWPending, InSWDecompress, InSWProcessed
<1>4. ~InSWRequest /\ ~InErrExit
  BY <1>1 DEF TypeIn, InSWRequest, InErrExit
<1>5. ~OutFailing /\ ~OutSkip
  BY <1>1 DEF TypeOut, OutFailing, OutSkip
<1>6. \A s \in {"FAIL", "BUF_ERROR", "DATA_ERROR"} : ~OutDrop(s)
  BY <1>1 DEF TypeOut, OutDrop
<1>7. ~Fault("event")
  BY <1>1 DEF TypeApp, Offloaded, Fault
<1>8. ~HwEvent
  BY <1>7 DEF HwEvent
<1>. QED  BY <1>2, <1>3, <1>4, <1>5, <1>6, <1>8

LEMMA StepKeeps ==
    ASSUME AsyncAssumption, Offloaded, IndInv, [Next]_vars
    PROVE  IndInv'
<1>1. SUFFICES ASSUME ~dropped'
               PROVE  Inv'
  BY DEF IndInv
<1>2. ~dropped /\ Inv
  BY <1>1, DroppedStays DEF IndInv
<1>3. TypeInv
  BY <1>2 DEF Inv
<1>4. CASE AppNext
  BY <1>2, <1>4, SubmitKeeps, ExitKeeps, JoinedKeeps DEF AppNext
<1>5. CASE ConsumerNext
  <2>1. \/ CGrab \/ CTake \/ CSoft \/ CDirection \/ CSwitch \/ CLeave \/ CClear
    BY <1>3, <1>5, NotReached DEF ConsumerNext
  <2>. QED
    BY <1>2, <2>1, GrabKeeps, TakeKeeps, SoftKeeps, DirectionKeeps, SwitchKeeps,
       LeaveKeeps, ClearKeeps
<1>6. CASE InNext
  <2>1. InStart \/ InCheck \/ InGetBuffer \/ InSetup \/ InSend \/ InAdvance
    BY <1>3, <1>6, NotReached DEF InNext
  <2>. QED
    BY <1>2, <2>1, InStartKeeps, InCheckKeeps, InGetBufferKeeps, InSetupKeeps,
       InSendKeeps, InAdvanceKeeps
<1>7. CASE OutNext
  <2>1. CASE OutTest \/ OutCallback \/ OutPolled \/ OutScan \/ OutDone
    BY <1>2, <2>1, OutTestKeeps, OutCallbackKeeps, OutPolledKeeps,
       OutScanKeeps, OutDoneKeeps
  <2>2. CASE OutPollFail
    BY <1>1, <2>2 DEF OutPollFail
  <2>3. CASE OutCompAnswer
    BY <1>1, <1>2, <2>3, CompAnswerDelivers, DeliveredKeeps
  <2>4. CASE OutDecompAnswer
    <3>1. RunInv
      BY <1>2, <2>4, Polling DEF OutDecompAnswer
    <3>. QED
      BY <1>1, <1>2, <1>3, <2>4, <3>1, DecompAnswerDelivers, DeliveredKeeps
      DEF RunInv
  <2>. QED
    BY <1>3, <1>7, <2>1, <2>2, <2>3, <2>4, NotReached DEF OutNext
<1>8. CASE HwComplete
  BY <1>2, <1>8, HwCompleteKeeps
<1>9. CASE HwEvent
  BY <1>3, <1>9, NotReached
<1>10. CASE Rest \/ UNCHANGED vars
  BY <1>2, <1>10, StutterKeeps DEF Rest
<1>. QED  BY <1>4, <1>5, <1>6, <1>7, <1>8, <1>9, <1>10 DEF Next

-----------------------------------------------------------------------------
(* What follows from it.                                                   *)

\* The requests the threads work on have not been called back.
LEMMA LiveUsed ==
    ASSUME AsyncAssumption, Inv
    PROVE  OnlyLiveUsed
<1>1. TypeInv /\ TypeIn /\ TypeOut
  BY DEF Inv, TypeInv
<1>2. ASSUME pcC \in {"dir", "switch", "start", "check", "buf", "setup", "send"}
      PROVE  obj[req].live
  <2>1. RunInv /\ Working
    BY <1>2 DEF Inv, Working
  <2>2. Taken \in Known /\ req = Taken
    BY <1>1, <2>1, TakenKnown DEF RunInv, TypeInv
  <2>3. /\ obj[Taken].live <=> results[Taken].calls = 0
        /\ NextUnit = 0 => results[Taken].calls = 0
    BY <2>1, <2>2 DEF RunInv, LengthInv
  <2>4. results[Taken].calls = 0
    <3>1. CASE pcC \in {"dir", "switch", "start"}
      BY <2>3, <3>1 DEF NextUnit
    <3>2. CASE pcC \in {"check", "buf", "setup", "send"}
      <4>1. NextUnit = n /\ NextSeq = sess.seq /\ n < Units(Taken)
        BY <2>1, <3>2 DEF NextUnit, NextSeq, RunInv, QueueInv
      <4>2. CASE sess.seq_in = NextSeq
        BY <2>1, <4>1, <4>2 DEF RunInv, ChainInv, IdleInv
      <4>3. CASE sess.seq_in # NextSeq /\ n > 0
        <5>1. sess.seq_in \in Nat /\ NextSeq \in Nat /\ sess.seq_in <= NextSeq
          BY <1>1, <2>1, <4>1
          DEF TypeInv, TypeSess, Sessions, RunInv, SeqInv
        <5>2. PICK t \in Tickets : At(t) = NextSeq - 1
          BY <2>1, <4>3, <5>1 DEF RunInv, SeqInv
        <5>3. t.r = Taken
          BY <2>1, <4>1, <4>3, <5>1, <5>2 DEF RunInv, ChainInv, TailInv
        <5>. QED  BY <2>1, <5>3 DEF RunInv, ChainInv, TicketInv
      <4>4. CASE ~(n > 0)
        <5>1. n = 0
          BY <1>1, <4>4 DEF TypeIn
        <5>. QED  BY <2>3, <4>1, <5>1
      <4>. QED  BY <4>2, <4>3, <4>4
    <3>. QED  BY <1>2, <3>1, <3>2
  <2>. QED  BY <2>2, <2>3, <2>4
<1>3. ASSUME pcP \in {"answer", "done"}
      PROVE  obj[reqOut].live
  <2>1. RunInv
    BY <1>3, Polling
  <2>2. reqOut \in 1..Taken /\ results[reqOut].calls = 0
    <3>1. CASE pcP = "done"
      BY <2>1, <3>1 DEF RunInv, ChainInv, DoneInv
    <3>2. CASE pcP = "answer"
      <4>1. jOut \in Slots /\ Answered(cur[jOut]) /\ reqOut = sreq[jOut]
        BY <1>1, <2>1, <3>2 DEF TypeOut, RunInv, SeqInv
      <4>2. [slot |-> jOut, r |-> job[jOut].r, c |-> job[jOut].c] \in Tickets
        BY <1>1, <2>1, <4>1, AnsweredTicket DEF TypeInv, RunInv
      <4>. QED  BY <2>1, <4>1, <4>2 DEF RunInv, ChainInv, TicketInv
    <3>. QED  BY <1>3, <3>1, <3>2
  <2>3. reqOut \in Known
    BY <1>1, <2>1, <2>2, TakenKnown DEF RunInv, TypeInv
  <2>. QED  BY <2>1, <2>2, <2>3 DEF RunInv, LengthInv
<1>4. pcC \notin {"cleanup", "sw", "swseq", "swdec", "swproc", "swreq",
                  "recover", "refuse"}
      /\ pcP \notin {"failed", "short", "bad", "failing"}
  BY <1>1 DEF TypeIn, TypeOut
<1>. QED  BY <1>2, <1>3, <1>4 DEF OnlyLiveUsed

\* The invariant holds in every state of the specification.
LEMMA IndInvariant ==
    ASSUME Offloaded
    PROVE  Spec => []IndInv
<1>1. Init => IndInv
  BY AsyncAssumption, InitInv DEF IndInv
<1>2. IndInv /\ [Next]_vars => IndInv'
  BY AsyncAssumption, StepKeeps
<1>. QED  BY <1>1, <1>2, PTL DEF Spec

\* The application is called back at most once for a request, whichever
\* thread finds it complete, until an answer is dropped (QzAsync:
\* CalledBackOnce).  It is about CallAsyncbackfn in AsyncReqConsumeJob's
\* software path and in AsyncCompressOut and AsyncDecompressOut.
THEOREM CallbacksHappenOnce ==
    ASSUME Offloaded
    PROVE  Spec => []CalledBackOnce
<1>1. IndInv => CalledBackOnce
  BY DEF IndInv, Inv, CalledBackOnce
<1>. QED  BY <1>1, IndInvariant, PTL

\* No thread uses a request after its callback has freed it: the consumer not
\* while it submits the request's chunks or members, the polling thread not
\* through a stream buffer (QzAsync: OnlyLiveUsed).
THEOREM RequestsOutliveUse ==
    ASSUME Offloaded
    PROVE  Spec => []OnlyLiveUsed
<1>1. IndInv => OnlyLiveUsed
  BY AsyncAssumption, LiveUsed DEF IndInv, OnlyLiveUsed
<1>. QED  BY <1>1, IndInvariant, PTL

\* A callback with QZ_OK comes when the destination holds the whole output, in
\* order, and says its length (QzAsync: CallbackTrue), until an answer is
\* dropped: the sequence numbers put the answers of several requests, however
\* the device mixes them, at their places.
THEOREM CallbacksAreTrue ==
    ASSUME Offloaded
    PROVE  Spec => [](dropped \/ CallbackTrue)
<1>1. IndInv => dropped \/ CallbackTrue
  BY DEF IndInv, Inv
<1>. QED  BY <1>1, IndInvariant, PTL

\* Requests are called back in the order in which they were submitted, by the
\* consumer and by the polling threads of both directions (QzAsync:
\* CalledInOrder).
THEOREM CallbacksInOrder ==
    ASSUME Offloaded
    PROVE  Spec => []CalledInOrder
<1>1. IndInv => CalledInOrder
  BY DEF IndInv, Inv, CalledInOrder
<1>. QED  BY <1>1, IndInvariant, PTL

=============================================================================
