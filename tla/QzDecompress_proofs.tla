-------------------------- MODULE QzDecompress_proofs --------------------------
(***************************************************************************)
(* Theorems about the synchronous decompression pipeline (module           *)
(* QzDecompress): the inductive invariant, lemmas about its state and      *)
(* operators, the steps that preserve it.  The error exit of               *)
(* doDecompressOut resets the stream buffers while requests may still be   *)
(* in the device, and with it every relation below: the invariants speak   *)
(* of a process in which it has not been taken (~erred).                   *)
(***************************************************************************)
EXTENDS QzDecompress, FiniteSetTheorems, WellFoundedInduction, TLAPS

-----------------------------------------------------------------------------
(* The invariant.                                                          *)

\* What the device has been given, or has answered.
JobStates == {"pending", "ok", "crc", "err"}
Jobs == [slot : Slots, call : Int, st : JobStates, pos : Nat, sz : Nat,
         kind : Kinds, at : Nat, src : Nat, room : Nat, n : Nat,
         lent : BOOLEAN]
Codes == {"OK", "FAIL", "BUF_ERROR", "DATA_ERROR", "NO_INST"}
InflateStates == {"null", "ok", "error"}

TypeCall ==
    /\ caller \in {"idle", "enter", "run"}
    /\ req.pin \subseteq {"src", "dst"}
    /\ req.fmt \in FormatNames
    /\ req.sw_backup \in BOOLEAN /\ req.stop \in BOOLEAN
    /\ req.off \in Nat /\ req.dest \in Nat
    /\ ret.rc \in Codes /\ ret.src_len \in Nat /\ ret.dest_len \in Nat
    /\ calls \in Nat
    /\ calls > 0 =>
          /\ req.mem \in Sources /\ req.off < Total(req.mem)
          /\ DOMAIN dst = 1..(req.dest + HwBuffSz)
          /\ req.fmt \in {"4b", "raw"} => Intact
    /\ caller # "idle" => calls > 0

Sessions == [seq : Nat, seq_in : Nat, last_submitted : BOOLEAN,
             last_processed : BOOLEAN, stop_submitting : BOOLEAN,
             stat : Codes, force_sw : BOOLEAN, in_len : Nat, out_len : Nat,
             single_thread : BOOLEAN, inflate : InflateStates, ipos : Nat,
             eos : BOOLEAN]
TypeSess == sess \in Sessions

Cursors == [src1 : Int, src2 : Int, sink1 : Int, sink2 : Int]
TypeStream == /\ cur \in [Slots -> Cursors]
              /\ sseq \in [Slots -> Int]
              /\ res \in [Slots -> Jobs]

TypeIn == /\ pcIn \in {"start", "check", "get", "use", "submit", "cleanup",
                       "sw", "swseq", "swdec", "adv", "err", "done"}
          /\ jIn \in Slots /\ pos \in Nat /\ dptr \in Nat
          /\ tmp \in [src : Nat, dst : Nat]
TypeOut == /\ pcOut \in {"start", "poll", "scan", "skip", "sw", "copy", "stop",
                         "test", "err", "done"}
           /\ pcOut \in {"skip", "sw", "copy"} => jOut \in Slots
           /\ jOut \in Nat
TypeDev == hw \subseteq Jobs

TypeInv == TypeCall /\ TypeSess /\ TypeStream /\ TypeIn /\ TypeOut /\ TypeDev

\* The buffer doDecompressIn has claimed and not handed over yet.
Held(k) == pcIn \in {"use", "submit", "cleanup"} /\ k = jIn
Claimed(c) == c.src1 = c.src2 + 1 /\ c.src2 = c.sink1 /\ c.src2 = c.sink2

\* The requests that have been submitted and not been taken off by
\* doDecompressOut: with the device, or answered.
Live == hw \cup {res[k] : k \in {s \in Slots : Answered(cur[s])}}

\* The sequence number of the next request, the places in the source and in
\* the destination where it begins: between a submission and the tail of the
\* loop the counters lag behind.
NextSeq == IF pcIn = "adv" THEN sess.seq + 1 ELSE sess.seq
NextPos == IF pcIn = "adv" THEN pos + tmp.src ELSE pos
NextDst == IF pcIn = "adv" THEN dptr + tmp.dst ELSE dptr

StageInv ==
    /\ caller # "run" => pcIn = "done" /\ pcOut = "done"
    /\ pcOut = "done" => pcIn \in {"done"} /\ sess.seq = sess.seq_in
    /\ sess.single_thread /\ pcIn # "done" => pcOut = "start"
    /\ sess.last_processed /\ caller = "run" =>
          pcOut = "done" /\ sess.last_submitted

SlotInv ==
    /\ \A k \in Slots :
          IF Held(k)
          THEN IF pcIn = "use" THEN Claimed(cur[k]) ELSE InFlight(cur[k])
          ELSE \/ Unused(cur[k])
               \/ InFlight(cur[k]) /\ \E r \in hw : r.slot = k
               \/ Answered(cur[k]) /\ res[k].slot = k /\ res[k].st # "pending"
    /\ \A r \in hw : ~Held(r.slot) /\ InFlight(cur[r.slot])
    /\ \A q, r \in hw : q.slot = r.slot => q = r

\* The sequence numbers seq_in, ..., NextSeq - 1 are those of the live
\* requests, each of one.
SeqLive ==
    /\ sess.seq_in <= NextSeq
    /\ \A r \in Live : sess.seq_in <= sseq[r.slot] /\ sseq[r.slot] < NextSeq
    /\ \A q, r \in Live : sseq[q.slot] = sseq[r.slot] => q = r
    /\ \A n \in sess.seq_in..(NextSeq - 1) : \E r \in Live : sseq[r.slot] = n

\* Where the two threads stand in that sequence.
SeqPlace ==
    /\ \A k \in Slots : Held(k) => sseq[k] = sess.seq
    /\ pcIn \in {"start", "swdec"} => sess.seq = sess.seq_in
    /\ pcOut \in {"skip", "sw", "copy"} =>
          Answered(cur[jOut]) /\ sseq[jOut] = sess.seq_in

SeqInv == SeqLive /\ SeqPlace

\* doDecompressOut may leave only when doDecompressIn has left.
LastInv ==
    /\ caller = "run" /\ ~sess.single_thread /\ sess.last_submitted =>
          \/ pcIn = "done"
          \/ /\ pcIn = "adv" /\ sess.seq_in = sess.seq + 1
             /\ NextPos = Total(req.mem)

Whole == req.fmt \in {"zlib", "raw"}
WholeInv ==
    Whole => /\ pcIn \in {"use", "submit"} => pos + tmp.src = Total(req.mem)
             /\ Live # {} => \/ pcIn = "done"
                             \/ /\ pcIn = "adv" /\ NextPos = Total(req.mem)
                                /\ sess.seq <= sess.seq_in

PtrOf(c) == [k \in Slots |-> IF Unused(c[k]) THEN AtRest ELSE Lend(AtRest)]
PtrInv == pcOut # "err" => ptr = PtrOf(cur)

ProtocolInv == StageInv /\ SlotInv /\ SeqInv /\ LastInv /\ WholeInv /\ PtrInv

-----------------------------------------------------------------------------
(* Where the requests read and write.                                      *)

Settled == caller = "run" /\ pcIn # "start"
Busy == {"get", "use", "submit", "cleanup", "sw", "swseq", "swdec"}

JobOK(r) ==
    /\ r.st \in {"pending", "err"} => r.n = 0
    /\ r.st \in {"ok", "crc"} =>
          /\ r.n = r.sz /\ r.sz <= r.room /\ r.kind \in {"ok", "bad"}
          /\ r.st = "ok" <=> r.kind = "ok"
    /\ r.pos < Total(req.mem)
    /\ r.kind \in {"ok", "bad"} =>
          /\ AtStart(req.mem, r.pos) /\ r.sz = Rest(req.mem, r.pos)
          /\ r.kind = req.mem[MemberAt(req.mem, r.pos)].kind
    /\ r.src = IF Whole THEN Total(req.mem) - r.pos ELSE Rest(req.mem, r.pos)
    /\ req.fmt \in {"ext", "gzip", "lz4"} => r.room = r.src

JobInv == \A r \in Live : JobOK(r)

\* The counters of the session and the place of the next request.
SpaceCall ==
    /\ caller = "run" => /\ req.off + sess.in_len <= Total(req.mem)
                         /\ sess.out_len <= req.dest
                         /\ sess.in_len = sess.out_len
    /\ Settled => /\ req.off + sess.in_len <= NextPos
                  /\ NextPos <= Total(req.mem)
                  /\ sess.out_len <= NextDst /\ NextDst <= req.dest
    /\ pcIn \in Busy => pos < Total(req.mem) /\ dptr < req.dest
    /\ pcIn = "get" => dptr + GivesSz(pos, req.dest - dptr) <= req.dest
    /\ pcIn \in {"use", "submit"} =>
          /\ tmp.src = TakesSz(pos) /\ tmp.dst = GivesSz(pos, req.dest - dptr)
          /\ dptr + tmp.dst <= req.dest

\* The live requests lie between them, in order.
SpaceLive ==
    /\ \A r \in Live : /\ req.off + sess.in_len <= r.pos
                       /\ r.pos + r.src <= NextPos
                       /\ sess.out_len <= r.at /\ r.at + r.room <= NextDst
    /\ \A q, r \in Live : sseq[q.slot] < sseq[r.slot] =>
          q.pos + q.src <= r.pos /\ q.at + q.room <= r.at

SpaceInv == SpaceCall /\ SpaceLive

\* The application's memory beyond the destination is untouched.
FitInv == FitsDestination

Inv == TypeInv /\ ProtocolInv /\ JobInv /\ SpaceInv /\ FitInv

-----------------------------------------------------------------------------
(* The source: EndOf, a recursive function, by induction.                  *)

\* Every set of natural numbers that is not empty has a least element.
LEMMA NatLeast ==
    ASSUME NEW T \in SUBSET Nat, T # {}
    PROVE  \E x \in T : \A y \in T : x <= y
<1> DEFINE F == {0..x : x \in T}
           R == StrictSubsetOrdering(Nat)
<1>1. IsWellFoundedOn(R, FiniteSubsetsOf(Nat))
  BY FS_StrictSubsetOrderingWellFounded
<1>2. F \subseteq FiniteSubsetsOf(Nat) /\ F # {}
  <2>1. \A x \in T : 0..x \in FiniteSubsetsOf(Nat)
    BY FS_Interval DEF FiniteSubsetsOf
  <2>. QED
    BY <2>1
<1>3. PICK S \in F : \A U \in F : <<U, S>> \notin R
  <2>. HIDE DEF F, R
  <2>. QED
    BY <1>1, <1>2, WFMin
<1>4. PICK x \in T : S = 0..x
  BY <1>3
<1>5. \A y \in T : ~(y < x)
  <2>1. SUFFICES ASSUME NEW y \in T, y < x PROVE FALSE
    OBVIOUS
  <2>2. 0..y \in F /\ 0..y \subseteq S /\ 0..y # S
    BY <1>4, <2>1
  <2>3. <<0..y, S>> \in (SUBSET Nat) \X (SUBSET Nat)
    BY <1>4
  <2>. QED
    BY <2>2, <2>3, <1>3 DEF StrictSubsetOrdering
<1>. QED
  BY <1>5

\* The equation that EndOf solves, over the first n members.
Ends(m, n, e) == e = [i \in 0..n |-> IF i = 0 THEN 0 ELSE e[i-1] + m[i].sz]

LEMMA EndsExist ==
    ASSUME NEW m
    PROVE  \A n \in Nat : \E e : Ends(m, n, e)
<1> DEFINE T == {n \in Nat : ~ \E e : Ends(m, n, e)}
<1>1. SUFFICES ASSUME T # {} PROVE FALSE
  OBVIOUS
<1>2. PICK n \in T : \A k \in T : n <= k
  <2>. T \in SUBSET Nat
    OBVIOUS
  <2>. HIDE DEF T
  <2>. QED
    BY <1>1, NatLeast
<1>3. CASE n = 0
  <2>1. Ends(m, 0, [i \in 0..0 |-> 0])
    BY DEF Ends
  <2>. QED
    BY <2>1, <1>3
<1>4. CASE n # 0
  <2>1. n - 1 \in Nat /\ n-1 \notin T
    BY <1>4, <1>2
  <2>2. PICK e : Ends(m, n-1, e)
    BY <2>1
  <2> DEFINE f == [i \in 0..n |-> IF i = n THEN e[n-1] + m[n].sz ELSE e[i]]
  <2>3. Ends(m, n, f)
    <3>1. \A i \in 0..n : f[i] = IF i = 0 THEN 0 ELSE f[i-1] + m[i].sz
      BY <2>1, <2>2, <1>4 DEF Ends
    <3>2. f = [i \in 0..n |-> f[i]]
      OBVIOUS
    <3>. HIDE DEF f
    <3>. QED
      BY <3>1, <3>2 DEF Ends
  <2>. QED
    BY <2>3
<1>. QED
  BY <1>3, <1>4

\* EndOf solves its equation.
LEMMA EndOfEnds ==
    ASSUME NEW m, Len(m) \in Nat
    PROVE  Ends(m, Len(m), EndOf(m))
<1>1. \E e : Ends(m, Len(m), e)
  BY EndsExist
<1>2. EndOf(m) = CHOOSE e : Ends(m, Len(m), e)
  BY DEF EndOf, Ends
<1>. QED
  BY <1>1, <1>2

Member == [sz : Nat \ {0}, kind : Kinds]

LEMMA SourceType ==
    ASSUME NEW m \in Sources
    PROVE  /\ m \in Seq(Member) /\ Len(m) \in Nat \ {0}
           /\ \A i \in 1..Len(m) : m[i] \in Member
<1>1. m \in Seq(Member) /\ m # << >>
  BY DecompressAssumption DEF Member
<1>2. Len(m) \in Nat
  BY <1>1
<1>3. Len(m) # 0
  BY <1>1
<1>. QED
  BY <1>1, <1>2, <1>3

\* The members lie one behind the other.
LEMMA EndOfStep ==
    ASSUME NEW m \in Sources
    PROVE  /\ EndOf(m)[0] = 0
           /\ \A i \in 1..Len(m) : EndOf(m)[i] = EndOf(m)[i-1] + m[i].sz
<1>1. Ends(m, Len(m), EndOf(m))
  BY EndOfEnds, SourceType
<1>2. PICK e : e = EndOf(m)
  OBVIOUS
<1>3. Ends(m, Len(m), e) /\ Len(m) \in Nat
  BY <1>1, <1>2, SourceType
<1>4. e[0] = 0 /\ \A i \in 1..Len(m) : e[i] = e[i-1] + m[i].sz
  BY <1>3 DEF Ends
<1>. QED
  BY <1>4, <1>2

LEMMA EndOfType ==
    ASSUME NEW m \in Sources
    PROVE  \A i \in 0..Len(m) : EndOf(m)[i] \in Nat
<1> DEFINE T == {i \in 0..Len(m) : EndOf(m)[i] \notin Nat}
<1>0. Len(m) \in Nat
  BY SourceType
<1>1. SUFFICES ASSUME T # {} PROVE FALSE
  OBVIOUS
<1>2. PICK n \in T : \A k \in T : n <= k
  <2>. T \in SUBSET Nat
    BY <1>0
  <2>. HIDE DEF T
  <2>. QED
    BY <1>1, NatLeast
<1>3. n # 0
  BY EndOfStep
<1>4. n - 1 \in 0..Len(m) /\ n - 1 \notin T /\ n \in 1..Len(m)
  BY <1>0, <1>2, <1>3
<1>5. EndOf(m)[n-1] \in Nat
  BY <1>4
<1>6. m[n].sz \in Nat
  BY <1>4, SourceType DEF Member
<1>7. EndOf(m)[n] = EndOf(m)[n-1] + m[n].sz
  BY <1>4, EndOfStep
<1>. QED
  BY <1>5, <1>6, <1>7

LEMMA EndOfMonotone ==
    ASSUME NEW m \in Sources, NEW i \in 0..Len(m)
    PROVE  \A j \in 0..Len(m) : i <= j => EndOf(m)[i] <= EndOf(m)[j]
<1> DEFINE T == {j \in 0..Len(m) : i <= j /\ ~(EndOf(m)[i] <= EndOf(m)[j])}
<1>0. Len(m) \in Nat
  BY SourceType
<1>1. SUFFICES ASSUME T # {} PROVE FALSE
  OBVIOUS
<1>2. PICK n \in T : \A k \in T : n <= k
  <2>. T \in SUBSET Nat
    BY <1>0
  <2>. HIDE DEF T
  <2>. QED
    BY <1>1, NatLeast
<1>3. EndOf(m)[i] \in Nat /\ EndOf(m)[n] \in Nat
  BY EndOfType
<1>4. n # i
  BY <1>3
<1>5. n - 1 \in 0..Len(m) /\ i <= n - 1 /\ n - 1 \notin T /\ n \in 1..Len(m)
  BY <1>0, <1>2, <1>4
<1>6. EndOf(m)[n-1] \in Nat /\ EndOf(m)[i] <= EndOf(m)[n-1]
  BY <1>5, EndOfType
<1>7. m[n].sz \in Nat
  BY <1>5, SourceType DEF Member
<1>8. EndOf(m)[n] = EndOf(m)[n-1] + m[n].sz
  BY <1>5, EndOfStep
<1>. QED
  BY <1>3, <1>6, <1>7, <1>8

LEMMA TotalType ==
    ASSUME NEW m \in Sources
    PROVE  Total(m) \in Nat
BY SourceType, EndOfType DEF Total

\* Every position before the end is in a member, and in one only.
LEMMA MemberAtFact ==
    ASSUME NEW m \in Sources, NEW p \in Nat, p < Total(m)
    PROVE  /\ MemberAt(m, p) \in 1..Len(m)
           /\ EndOf(m)[MemberAt(m, p) - 1] <= p
           /\ p < EndOf(m)[MemberAt(m, p)]
<1> DEFINE T == {j \in 1..Len(m) : p < EndOf(m)[j]}
<1>0. Len(m) \in Nat \ {0}
  BY SourceType
<1>1. Len(m) \in T
  BY <1>0 DEF Total
<1>2. PICK n \in T : \A k \in T : n <= k
  <2>. T \in SUBSET Nat
    BY <1>0
  <2>. T # {}
    BY <1>1
  <2>. HIDE DEF T
  <2>. QED
    BY NatLeast
<1>3. EndOf(m)[n-1] <= p
  <2>1. CASE n = 1
    BY <2>1, EndOfStep
  <2>2. CASE n # 1
    <3>1. n - 1 \in 1..Len(m) /\ n - 1 \notin T
      BY <1>0, <1>2, <2>2
    <3>2. EndOf(m)[n-1] \in Nat
      BY <3>1, EndOfType, <1>0
    <3>. QED
      BY <3>1, <3>2
  <2>. QED
    BY <2>1, <2>2
<1>4. \E i \in 1..Len(m) : EndOf(m)[i-1] <= p /\ p < EndOf(m)[i]
  BY <1>2, <1>3
<1>. QED
  BY <1>4 DEF MemberAt

\* What is left of a member.
LEMMA RestFact ==
    ASSUME NEW m \in Sources, NEW p \in Nat, p < Total(m)
    PROVE  Rest(m, p) \in Nat \ {0} /\ p + Rest(m, p) <= Total(m)
<1>1. PICK i \in 1..Len(m) :
        i = MemberAt(m, p) /\ EndOf(m)[i-1] <= p /\ p < EndOf(m)[i]
  BY MemberAtFact
<1>2. Len(m) \in Nat /\ i \in 0..Len(m) /\ Len(m) \in 0..Len(m)
  BY <1>1, SourceType
<1>3. EndOf(m)[i] \in Nat /\ Total(m) \in Nat
  BY <1>2, EndOfType, TotalType
<1>4. EndOf(m)[i] <= Total(m)
  BY <1>2, EndOfMonotone DEF Total
<1>5. Rest(m, p) = EndOf(m)[i] - p
  BY <1>1 DEF Rest
<1>. QED
  BY <1>1, <1>3, <1>4, <1>5

\* A later position is not in an earlier member.
LEMMA RestMonotone ==
    ASSUME NEW m \in Sources, NEW p \in Nat, NEW q \in Nat, p <= q,
           q < Total(m)
    PROVE  p + Rest(m, p) <= q + Rest(m, q)
<1>0. Total(m) \in Nat /\ Len(m) \in Nat
  BY TotalType, SourceType
<1>1. PICK i \in 1..Len(m) :
        i = MemberAt(m, p) /\ EndOf(m)[i-1] <= p /\ p < EndOf(m)[i]
  <2>1. p < Total(m)
    BY <1>0
  <2>. QED
    BY <2>1, MemberAtFact
<1>2. PICK j \in 1..Len(m) :
        j = MemberAt(m, q) /\ EndOf(m)[j-1] <= q /\ q < EndOf(m)[j]
  BY MemberAtFact
<1>3. /\ i - 1 \in 0..Len(m) /\ i \in 0..Len(m) /\ j \in 0..Len(m)
      /\ EndOf(m)[i-1] \in Nat /\ EndOf(m)[i] \in Nat /\ EndOf(m)[j] \in Nat
  BY <1>0, EndOfType
<1>4. i <= j
  <2>1. SUFFICES ASSUME j <= i - 1 PROVE FALSE
    BY <1>0
  <2>2. EndOf(m)[j] <= EndOf(m)[i-1]
    BY <2>1, <1>3, EndOfMonotone
  <2>. QED
    BY <2>2, <1>1, <1>2, <1>3
<1>5. EndOf(m)[i] <= EndOf(m)[j]
  BY <1>3, <1>4, EndOfMonotone
<1>6. Rest(m, p) = EndOf(m)[i] - p /\ Rest(m, q) = EndOf(m)[j] - q
  BY <1>1, <1>2 DEF Rest
<1>. QED
  BY <1>3, <1>5, <1>6

\* At the beginning of a member all of it is left.
LEMMA StartRest ==
    ASSUME NEW m \in Sources, NEW p \in Nat, p < Total(m), AtStart(m, p)
    PROVE  Rest(m, p) = m[MemberAt(m, p)].sz
<1>0. Len(m) \in Nat
  BY SourceType
<1>1. PICK i \in 1..Len(m) : EndOf(m)[i-1] = p
  BY DEF AtStart
<1>2. PICK j \in 1..Len(m) :
        j = MemberAt(m, p) /\ EndOf(m)[j-1] <= p /\ p < EndOf(m)[j]
  BY MemberAtFact
<1>3. /\ i - 1 \in 0..Len(m) /\ i \in 0..Len(m)
      /\ j - 1 \in 0..Len(m) /\ j \in 0..Len(m)
      /\ EndOf(m)[i-1] \in Nat /\ EndOf(m)[i] \in Nat
      /\ EndOf(m)[j-1] \in Nat /\ EndOf(m)[j] \in Nat
  BY <1>0, EndOfType
<1>4. /\ EndOf(m)[i] = EndOf(m)[i-1] + m[i].sz
      /\ m[i].sz \in Nat \ {0}
  BY EndOfStep, SourceType DEF Member
<1>5. ~(i <= j - 1)
  <2>1. SUFFICES ASSUME i <= j - 1 PROVE FALSE
    OBVIOUS
  <2>2. EndOf(m)[i] <= EndOf(m)[j-1]
    BY <2>1, <1>3, EndOfMonotone
  <2>3. EndOf(m)[i] <= p
    BY <2>2, <1>2, <1>3
  <2>4. PICK n \in Nat \ {0} : n = m[i].sz
    BY <1>4
  <2>5. EndOf(m)[i] = p + n
    BY <1>1, <1>4, <2>4, Zenon
  <2>. QED
    BY <2>3, <2>5
<1>6. ~(j <= i - 1)
  <2>1. SUFFICES ASSUME j <= i - 1 PROVE FALSE
    OBVIOUS
  <2>2. EndOf(m)[j] <= EndOf(m)[i-1]
    BY <2>1, <1>3, EndOfMonotone
  <2>. QED
    BY <2>2, <1>1, <1>2, <1>3
<1>7. i = j
  BY <1>5, <1>6, <1>0
<1>8. Rest(m, p) = EndOf(m)[i] - p
  BY <1>2, <1>7 DEF Rest
<1>. QED
  BY <1>1, <1>2, <1>3, <1>4, <1>7, <1>8

\* The member a source ends in is the last one.
LEMMA TruncatedRest ==
    ASSUME NEW m \in Sources, NEW p \in Nat, p < Total(m),
           m[MemberAt(m, p)].kind = "trunc"
    PROVE  p + Rest(m, p) = Total(m)
<1>0. Len(m) \in Nat /\ Total(m) \in Nat
  BY SourceType, TotalType
<1>1. MemberAt(m, p) \in 1..Len(m)
  BY MemberAtFact
<1>2. MemberAt(m, p) = Len(m)
  BY <1>0, <1>1, DecompressAssumption
<1>. QED
  BY <1>0, <1>2 DEF Rest, Total

LEMMA MinPair ==
    ASSUME NEW a \in Int, NEW b \in Int
    PROVE  Min({a, b}) = IF a <= b THEN a ELSE b
<1>1. CASE a <= b
  <2>1. \A x \in {a, b} : (\A y \in {a, b} : x <= y) <=> x = a
    BY <1>1
  <2>. QED
    BY <1>1, <2>1 DEF Min
<1>2. CASE ~(a <= b)
  <2>1. \A x \in {a, b} : (\A y \in {a, b} : x <= y) <=> x = b
    BY <1>2
  <2>. QED
    BY <1>2, <2>1 DEF Min
<1>. QED
  BY <1>1, <1>2

LEMMA MaxZero ==
    ASSUME NEW a \in Int
    PROVE  Max({0, a}) = IF a <= 0 THEN 0 ELSE a
<1>1. CASE a <= 0
  <2>1. \A x \in {0, a} : (\A y \in {0, a} : x >= y) <=> x = 0
    BY <1>1
  <2>. QED
    BY <1>1, <2>1 DEF Max
<1>2. CASE ~(a <= 0)
  <2>1. \A x \in {0, a} : (\A y \in {0, a} : x >= y) <=> x = a
    BY <1>2
  <2>. QED
    BY <1>2, <2>1 DEF Max
<1>. QED
  BY <1>1, <1>2

-----------------------------------------------------------------------------
(* Software decompression.                                                 *)

\* What a software call from p with so much room may answer.
SwAnswer(r, p, room) ==
    /\ r.rc \in {"OK", "FAIL", "DATA_ERROR"} /\ r.inflate \in InflateStates
    /\ r.n \in Nat /\ r.n <= room /\ p + r.n <= Total(req.mem)

\* One member.
LEMMA SwOneFact ==
    ASSUME req.mem \in Sources, sess.inflate \in InflateStates,
           NEW p \in Nat, p < Total(req.mem), NEW room \in Nat,
           NEW r \in SwResults(SwOne(p, room))
    PROVE  /\ SwAnswer(r, p, room)
           /\ r.n <= Rest(req.mem, p)
           /\ r.rc = "OK" =>
                 /\ r.inflate \in {"null", "ok"}
                 /\ Rest(req.mem, p) <= room => r.n = Rest(req.mem, p)
                 /\ r.inflate = "ok" /\ Rest(req.mem, p) <= room =>
                       p + r.n = Total(req.mem)
<1> DEFINE rest == Rest(req.mem, p)
           k == req.mem[MemberAt(req.mem, p)].kind
<1>0. rest \in Nat \ {0} /\ p + rest <= Total(req.mem) /\ Total(req.mem) \in Nat
  BY RestFact, TotalType
<1>1. CASE r = [rc |-> "FAIL", n |-> 0, inflate |-> sess.inflate]
  BY <1>0, <1>1 DEF SwAnswer
<1>2. CASE r \in {DeflateFails, LZ4Fails}
  BY <1>0, <1>2 DEF SwAnswer, DeflateFails, LZ4Fails, InflateStates
<1>3. CASE r = [rc |-> "OK", n |-> Min({room, rest}), inflate |-> "ok"]
           /\ (room < rest \/ k = "trunc")
  <2>1. Min({room, rest}) = IF room <= rest THEN room ELSE rest
    BY <1>0, MinPair
  <2>2. k = "trunc" => p + rest = Total(req.mem)
    BY TruncatedRest
  <2>3. r.rc = "OK" /\ r.inflate = "ok" /\ r.n = Min({room, rest})
    BY <1>3
  <2>. QED
    BY <1>0, <1>3, <2>1, <2>2, <2>3 DEF SwAnswer, InflateStates
<1>4. CASE r = [rc |-> "OK", n |-> rest, inflate |-> "null"]
           /\ ~(room < rest)
  BY <1>0, <1>4 DEF SwAnswer, InflateStates
<1>. QED
  BY <1>1, <1>2, <1>3, <1>4
  DEF SwResults, SwOne, DeflateSWDecompress, LZ4SWDecompress, Decode

\* All that is left of the source.
LEMMA SwMultiFact ==
    ASSUME req.mem \in Sources, sess.inflate \in InflateStates,
           NEW p \in Nat, p < Total(req.mem), NEW room \in Nat,
           NEW r \in SwResults(SwMulti(p, room))
    PROVE  /\ SwAnswer(r, p, room)
           /\ r.rc = "OK" =>
                 /\ r.n = room \/ p + r.n = Total(req.mem) \/ req.stop
                 /\ room > 0 => r.inflate \in {"null", "ok"}
<1> DEFINE m == req.mem
<1>0. Total(m) \in Nat /\ Len(m) \in Nat /\ MemberAt(m, p) \in 1..Len(m)
  BY TotalType, MemberAtFact, SourceType
<1>1. CASE r = [rc |-> "FAIL", n |-> 0, inflate |-> sess.inflate]
  BY <1>0, <1>1 DEF SwAnswer
<1>2. CASE r = SwMulti(p, room)
  <2>1. PICK last, failed :
          /\ last = Len(m) \/ req.stop
          /\ failed \in {DeflateFails, LZ4Fails}
          /\ last \in 1..Len(m)
          /\ r = DecodeUpTo(last, p, room, failed)
    BY <1>0, <1>2 DEF SwMulti, SwMultiGzip, SwMultiLZ4
  <2> DEFINE fails == {i \in MemberAt(m, p)..last :
                          m[i].kind \in {"bad", "nohdr"}}
             e == IF fails = {} THEN last ELSE Min(fails) - 1
             end == EndOf(m)[e]
             n == Min({room, Max({0, end - p})})
             ended == \E i \in 1..Len(m) :
                         EndOf(m)[i] = p + n /\ m[i].kind # "trunc"
  <2>2. e \in 0..Len(m)
    <3>1. CASE fails # {}
      <4>1. \E x \in fails : \A y \in fails : x <= y
        <5>1. fails \in SUBSET Nat
          BY <1>0
        <5>. HIDE DEF fails
        <5>. QED
          BY <3>1, <5>1, NatLeast
      <4>2. Min(fails) \in fails
        BY <4>1 DEF Min
      <4>3. Min(fails) \in 1..Len(m)
        BY <4>2, <2>1, <1>0
      <4>. QED
        BY <4>3, <3>1, <1>0
    <3>2. CASE fails = {}
      BY <3>2, <2>1, <1>0
    <3>. QED
      BY <3>1, <3>2
  <2>3. end \in Nat /\ end <= Total(m)
    <3>. HIDE DEF e
    <3>. QED
      BY <2>2, <1>0, EndOfType, EndOfMonotone DEF Total
  <2>4. n = IF end <= p THEN 0 ELSE IF room <= end - p THEN room ELSE end - p
    <3>. HIDE DEF end
    <3>1. PICK x \in Nat : /\ x = Max({0, end - p})
                           /\ x = IF end <= p THEN 0 ELSE end - p
      BY <2>3, MaxZero
    <3>2. Min({room, x}) = IF room <= x THEN room ELSE x
      BY MinPair
    <3>. QED
      BY <2>3, <3>1, <3>2
  <2>5. n \in Nat /\ n <= room /\ p + n <= Total(m)
    <3>. HIDE DEF n, end
    <3>. QED
      BY <2>3, <2>4, <1>0
  <2>6. fails = {} /\ last = Len(m) => end = Total(m)
    BY DEF Total
  <2>7. r = IF room = 0
            THEN [rc |-> "OK", n |-> 0, inflate |-> sess.inflate]
            ELSE IF ~InStep(p) THEN failed
            ELSE IF fails # {} /\ room > n THEN [failed EXCEPT !.n = n]
            ELSE [rc |-> "OK", n |-> n,
                  inflate |-> IF ended THEN "null" ELSE "ok"]
    BY <2>1 DEF DecodeUpTo
  <2>8. CASE r = [rc |-> "OK", n |-> 0, inflate |-> sess.inflate] /\ room = 0
    BY <2>8, <1>0 DEF SwAnswer
  <2>9. CASE r = failed
    <3>1. /\ r.rc \in {"FAIL", "DATA_ERROR"} /\ r.n = 0
          /\ r.inflate \in InflateStates
      <4>1. failed \in {DeflateFails, LZ4Fails}
        BY <2>1
      <4>2. r \in {[rc |-> "DATA_ERROR", n |-> 0, inflate |-> "error"],
                   [rc |-> "FAIL", n |-> 0, inflate |-> "null"]}
        BY <4>1, <2>9 DEF DeflateFails, LZ4Fails
      <4>. QED
        BY <4>2 DEF InflateStates
    <3>. QED
      BY <3>1, <1>0 DEF SwAnswer
  <2>10. CASE r = [failed EXCEPT !.n = n]
    <3>1. \/ failed = [rc |-> "DATA_ERROR", n |-> 0, inflate |-> "error"]
          \/ failed = [rc |-> "FAIL", n |-> 0, inflate |-> "null"]
      BY <2>1 DEF DeflateFails, LZ4Fails
    <3>2. \/ r = [rc |-> "DATA_ERROR", n |-> n, inflate |-> "error"]
          \/ r = [rc |-> "FAIL", n |-> n, inflate |-> "null"]
      <4>. HIDE DEF n
      <4>. QED
        BY <2>10, <3>1
    <3>. HIDE DEF n
    <3>. QED
      BY <2>5, <3>2 DEF SwAnswer, InflateStates
  <2>11. CASE /\ r = [rc |-> "OK", n |-> n,
                      inflate |-> IF ended THEN "null" ELSE "ok"]
              /\ ~(fails # {} /\ room > n)
    <3>1. r.rc = "OK" /\ r.n = n /\ r.inflate \in {"null", "ok"}
      <4>. HIDE DEF n, ended
      <4>. QED
        BY <2>11
    <3>2. n = room \/ p + n = Total(m) \/ req.stop
      <4>1. CASE fails # {}
        <5>1. ~(room > n)
          BY <4>1, <2>11
        <5>. HIDE DEF n
        <5>. QED
          BY <5>1, <2>5
      <4>2. CASE fails = {} /\ ~req.stop
        <5>1. end = Total(m)
          BY <4>2, <2>1, <2>6
        <5>. HIDE DEF n, end
        <5>. QED
          BY <5>1, <2>4, <1>0
      <4>. QED
        BY <4>1, <4>2
    <3>. HIDE DEF n
    <3>. QED
      BY <3>1, <3>2, <2>5 DEF SwAnswer, InflateStates
  <2>. HIDE DEF n, fails, ended
  <2>. QED
    BY <2>7, <2>8, <2>9, <2>10, <2>11
<1>. QED
  BY <1>1, <1>2 DEF SwResults

-----------------------------------------------------------------------------
(* Stream buffers and session records.                                     *)

\* The stream buffers are numbered from 0.
LEMMA SlotsFact == Slots \subseteq Nat /\ 0 \in Slots
BY DecompressAssumption DEF Slots

\* What decompBufferSetup does to the pointers is undone by each clean-up.
PtrFields == {"src", "dst", "osrc", "odst", "sreset", "dreset"}
Pointers(b) == b = [f \in PtrFields |-> b[f]]

LEMMA SwapFact ==
    ASSUME NEW b, Pointers(b), NEW c, c = SwapDataBuffer(b)
    PROVE  /\ Pointers(c) /\ c.src = b.dst /\ c.dst = b.src
           /\ c.osrc = b.odst /\ c.odst = b.osrc
           /\ c.sreset = b.sreset /\ c.dreset = b.dreset
BY ZenonT(60) DEF SwapDataBuffer, Pointers, PtrFields

LEMMA LendFact ==
    ASSUME NEW b, Pointers(b), NEW c, c = Lend(b)
    PROVE  /\ Pointers(c)
           /\ c.src = IF "src" \in req.pin THEN "user" ELSE b.dst
           /\ c.dst = IF "dst" \in req.pin THEN "user" ELSE b.src
           /\ c.osrc = b.odst /\ c.odst = b.osrc
           /\ c.sreset = ("src" \in req.pin) /\ c.dreset = ("dst" \in req.pin)
<1>1. PICK s : s = SwapDataBuffer(b)
  OBVIOUS
<1>2. /\ Pointers(s) /\ s.src = b.dst /\ s.dst = b.src
      /\ s.osrc = b.odst /\ s.odst = b.osrc
  BY <1>1, SwapFact
<1>3. c = [s EXCEPT !.src = IF "src" \in req.pin THEN "user" ELSE s.src,
                    !.sreset = "src" \in req.pin,
                    !.dst = IF "dst" \in req.pin THEN "user" ELSE s.dst,
                    !.dreset = "dst" \in req.pin]
  BY <1>1, <1>2, ZenonT(60) DEF Lend, Pointers, PtrFields
<1>. QED
  BY <1>2, <1>3, ZenonT(60) DEF Pointers, PtrFields

LEMMA RestoredFact ==
    ASSUME NEW b, Pointers(b), NEW c
    PROVE  /\ c = [b EXCEPT !.src = b.osrc, !.sreset = FALSE] =>
                 /\ Pointers(c) /\ c.src = b.osrc /\ c.sreset = FALSE
                 /\ c.dst = b.dst /\ c.dreset = b.dreset
                 /\ c.osrc = b.osrc /\ c.odst = b.odst
           /\ c = [b EXCEPT !.dst = b.odst, !.dreset = FALSE] =>
                 /\ Pointers(c) /\ c.dst = b.odst /\ c.dreset = FALSE
                 /\ c.src = b.src /\ c.sreset = b.sreset
                 /\ c.osrc = b.osrc /\ c.odst = b.odst
BY ZenonT(60) DEF Pointers, PtrFields

LEMMA CleanLend == Clean(Lend(AtRest)) = AtRest
<1>1. PICK a : a = AtRest
  OBVIOUS
<1>2. /\ Pointers(a) /\ a.src = "S" /\ a.dst = "D" /\ a.osrc = "S"
      /\ a.odst = "D" /\ a.sreset = FALSE /\ a.dreset = FALSE
  BY <1>1, ZenonT(60) DEF AtRest, Pointers, PtrFields
<1>3. PICK l : l = Lend(a)
  OBVIOUS
<1>4. PICK d : d = RestoreDest(l)
  OBVIOUS
<1>5. PICK e : e = RestoreSrc(d)
  OBVIOUS
<1>6. PICK c : c = SwapDataBuffer(e)
  OBVIOUS
<1>7. /\ Pointers(l) /\ l.src = IF "src" \in req.pin THEN "user" ELSE "D"
      /\ l.dst = IF "dst" \in req.pin THEN "user" ELSE "S"
      /\ l.osrc = "D" /\ l.odst = "S"
      /\ l.sreset = ("src" \in req.pin) /\ l.dreset = ("dst" \in req.pin)
  BY <1>2, <1>3, LendFact
<1>7a. Pointers(l) /\ l.osrc = "D" /\ l.odst = "S"
  BY <1>7
<1>8. /\ Pointers(d) /\ d.src = l.src /\ d.dst = "S" /\ d.osrc = "D"
      /\ d.odst = "S" /\ d.sreset = l.sreset /\ d.dreset = FALSE
  <2>1. CASE "dst" \in req.pin
    <3>1. l.dreset = TRUE
      BY <1>7, <2>1
    <3>2. d = [l EXCEPT !.dst = l.odst, !.dreset = FALSE]
      BY <1>4, <3>1, Zenon DEF RestoreDest
    <3>3. /\ Pointers(d) /\ d.dst = l.odst /\ d.dreset = FALSE
          /\ d.src = l.src /\ d.sreset = l.sreset
          /\ d.osrc = l.osrc /\ d.odst = l.odst
      BY <1>7, <3>2, RestoredFact, Zenon
    <3>. QED
      BY <1>7a, <3>3, Zenon
  <2>2. CASE "dst" \notin req.pin
    <3>0. l.dst = "S"
      BY <1>7, <2>2
    <3>1. l.dreset = FALSE
      <4>1. l.dreset = ("dst" \in req.pin)
        BY <1>7
      <4>2. l.dreset \in BOOLEAN
        BY <4>1
      <4>3. ~l.dreset
        BY <4>1, <2>2, Zenon
      <4>. QED
        BY <4>2, <4>3, Zenon
    <3>2. d = l
      BY <1>4, <3>1, Zenon DEF RestoreDest
    <3>. QED
      BY <1>7, <3>0, <3>1, <3>2
  <2>. QED
    BY <2>1, <2>2
<1>8a. /\ Pointers(d) /\ d.dst = "S" /\ d.osrc = "D"
       /\ d.odst = "S" /\ d.dreset = FALSE
  BY <1>8
<1>9. /\ Pointers(e) /\ e.src = "D" /\ e.dst = "S" /\ e.osrc = "D"
      /\ e.odst = "S" /\ e.sreset = FALSE /\ e.dreset = FALSE
  <2>1. CASE "src" \in req.pin
    <3>1. d.sreset = TRUE
      BY <1>7, <1>8, <2>1
    <3>2. e = [d EXCEPT !.src = d.osrc, !.sreset = FALSE]
      BY <1>5, <3>1, Zenon DEF RestoreSrc
    <3>3. /\ Pointers(e) /\ e.src = d.osrc /\ e.sreset = FALSE
          /\ e.dst = d.dst /\ e.dreset = d.dreset
          /\ e.osrc = d.osrc /\ e.odst = d.odst
      BY <1>8a, <3>2, RestoredFact, Zenon
    <3>. QED
      BY <1>8a, <3>3, Zenon
  <2>2. CASE "src" \notin req.pin
    <3>0. d.src = "D"
      BY <1>7, <1>8, <2>2
    <3>1. d.sreset = FALSE
      <4>1. d.sreset = ("src" \in req.pin)
        BY <1>7, <1>8
      <4>2. d.sreset \in BOOLEAN
        BY <4>1
      <4>3. ~d.sreset
        BY <4>1, <2>2, Zenon
      <4>. QED
        BY <4>2, <4>3, Zenon
    <3>2. e = d
      BY <1>5, <3>1, Zenon DEF RestoreSrc
    <3>. QED
      BY <1>8, <3>0, <3>1, <3>2
  <2>. QED
    BY <2>1, <2>2
<1>10. /\ Pointers(c) /\ c.src = "S" /\ c.dst = "D" /\ c.osrc = "S"
       /\ c.odst = "D" /\ c.sreset = FALSE /\ c.dreset = FALSE
  BY <1>9, <1>6, SwapFact
<1>11. c = a
  BY <1>2, <1>10 DEF Pointers, PtrFields
<1>. QED
  BY <1>1, <1>3, <1>4, <1>5, <1>6, <1>11 DEF Clean

Fields == {"seq", "seq_in", "last_submitted", "last_processed",
           "stop_submitting", "stat", "force_sw", "in_len", "out_len",
           "single_thread", "inflate", "ipos", "eos"}

\* Two sessions that differ in the fields of S only.
Alike(s, q, S) ==
    /\ "seq" \notin S => s.seq = q.seq
    /\ "seq_in" \notin S => s.seq_in = q.seq_in
    /\ "last_submitted" \notin S => s.last_submitted = q.last_submitted
    /\ "last_processed" \notin S => s.last_processed = q.last_processed
    /\ "stop_submitting" \notin S => s.stop_submitting = q.stop_submitting
    /\ "stat" \notin S => s.stat = q.stat
    /\ "force_sw" \notin S => s.force_sw = q.force_sw
    /\ "in_len" \notin S => s.in_len = q.in_len
    /\ "out_len" \notin S => s.out_len = q.out_len
    /\ "single_thread" \notin S => s.single_thread = q.single_thread
    /\ "inflate" \notin S => s.inflate = q.inflate
    /\ "ipos" \notin S => s.ipos = q.ipos
    /\ "eos" \notin S => s.eos = q.eos

LEMMA SessShape ==
    ASSUME NEW q \in Sessions PROVE q = [f \in Fields |-> q[f]]
BY DEF Sessions, Fields

\* A record of session fields of the right types is a session.
LEMMA SessBuild ==
    ASSUME NEW s, s = [f \in Fields |-> s[f]],
           s.seq \in Nat, s.seq_in \in Nat, s.last_submitted \in BOOLEAN,
           s.last_processed \in BOOLEAN, s.stop_submitting \in BOOLEAN,
           s.stat \in Codes, s.force_sw \in BOOLEAN, s.in_len \in Nat,
           s.out_len \in Nat, s.single_thread \in BOOLEAN,
           s.inflate \in InflateStates, s.ipos \in Nat, s.eos \in BOOLEAN
    PROVE  s \in Sessions
<1>1. s = [seq |-> s.seq, seq_in |-> s.seq_in,
           last_submitted |-> s.last_submitted,
           last_processed |-> s.last_processed,
           stop_submitting |-> s.stop_submitting, stat |-> s.stat,
           force_sw |-> s.force_sw, in_len |-> s.in_len,
           out_len |-> s.out_len, single_thread |-> s.single_thread,
           inflate |-> s.inflate, ipos |-> s.ipos, eos |-> s.eos]
  BY DEF Fields
<1>. QED
  BY <1>1 DEF Sessions

LEMMA SessTyped ==
    ASSUME NEW q \in Sessions
    PROVE  /\ q.seq \in Nat /\ q.seq_in \in Nat /\ q.last_submitted \in BOOLEAN
           /\ q.last_processed \in BOOLEAN /\ q.stop_submitting \in BOOLEAN
           /\ q.stat \in Codes /\ q.force_sw \in BOOLEAN /\ q.in_len \in Nat
           /\ q.out_len \in Nat /\ q.single_thread \in BOOLEAN
           /\ q.inflate \in InflateStates /\ q.ipos \in Nat
           /\ q.eos \in BOOLEAN
BY DEF Sessions

\* The updates of the session.
LEMMA SetSubmitted ==
    ASSUME NEW q \in Sessions, NEW a \in BOOLEAN, NEW s,
           s = [q EXCEPT !.last_submitted = a]
    PROVE  /\ s \in Sessions /\ Alike(s, q, {"last_submitted"})
           /\ s.last_submitted = a
<1>1. q = [f \in Fields |-> q[f]]
  BY SessShape
<1>2. /\ s = [f \in Fields |-> s[f]] /\ Alike(s, q, {"last_submitted"})
      /\ s.last_submitted = a
  BY <1>1, ZenonT(60) DEF Fields, Alike
<1>3. s \in Sessions
  BY <1>2, SessTyped, SessBuild, ZenonT(60) DEF Alike
<1>. QED
  BY <1>2, <1>3, Zenon

Numbered(q, a, b) == [q EXCEPT !.seq = a, !.last_submitted = b]
IsNumbered(s, q, a, b) ==
    /\ s \in Sessions /\ Alike(s, q, {"seq", "last_submitted"})
    /\ s.seq = a /\ s.last_submitted = b
LEMMA SetNumbered ==
    ASSUME NEW q \in Sessions, NEW a \in Nat, NEW b \in BOOLEAN, NEW s,
           s = Numbered(q, a, b)
    PROVE  IsNumbered(s, q, a, b)
<1>1. q = [f \in Fields |-> q[f]]
  BY SessShape
<1>2. /\ s = [f \in Fields |-> s[f]] /\ Alike(s, q, {"seq", "last_submitted"})
      /\ s.seq = a /\ s.last_submitted = b
  BY <1>1, ZenonT(60) DEF Fields, Alike, Numbered
<1>3. s \in Sessions
  BY <1>2, SessTyped, SessBuild, ZenonT(60) DEF Alike
<1>. QED
  BY <1>2, <1>3, Zenon DEF IsNumbered

LEMMA SetStopped ==
    ASSUME NEW q \in Sessions, NEW a \in BOOLEAN, NEW b \in BOOLEAN, NEW s,
           s = [q EXCEPT !.stop_submitting = a, !.last_submitted = b]
    PROVE  /\ s \in Sessions /\ Alike(s, q, {"stop_submitting", "last_submitted"})
           /\ s.stop_submitting = a /\ s.last_submitted = b
<1>1. q = [f \in Fields |-> q[f]]
  BY SessShape
<1>2. /\ s = [f \in Fields |-> s[f]] /\ Alike(s, q, {"stop_submitting", "last_submitted"})
      /\ s.stop_submitting = a /\ s.last_submitted = b
  BY <1>1, ZenonT(60) DEF Fields, Alike
<1>3. s \in Sessions
  BY <1>2, SessTyped, SessBuild, ZenonT(60) DEF Alike
<1>. QED
  BY <1>2, <1>3, Zenon

Refused(q, a, b) == [q EXCEPT !.stop_submitting = a, !.stat = b]
IsRefused(s, q, a, b) ==
    /\ s \in Sessions /\ Alike(s, q, {"stop_submitting", "stat"})
    /\ s.stop_submitting = a /\ s.stat = b
LEMMA SetRefused ==
    ASSUME NEW q \in Sessions, NEW a \in BOOLEAN, NEW b \in Codes, NEW s,
           s = Refused(q, a, b)
    PROVE  IsRefused(s, q, a, b)
<1>1. q = [f \in Fields |-> q[f]]
  BY SessShape
<1>2. /\ s = [f \in Fields |-> s[f]] /\ Alike(s, q, {"stop_submitting", "stat"})
      /\ s.stop_submitting = a /\ s.stat = b
  BY <1>1, ZenonT(60) DEF Fields, Alike, Refused
<1>3. s \in Sessions
  BY <1>2, SessTyped, SessBuild, ZenonT(60) DEF Alike
<1>. QED
  BY <1>2, <1>3, Zenon DEF IsRefused

LEMMA SetFailed ==
    ASSUME NEW q \in Sessions, NEW a \in Codes, NEW s,
           s = [q EXCEPT !.stat = a]
    PROVE  /\ s \in Sessions /\ Alike(s, q, {"stat"})
           /\ s.stat = a
<1>1. q = [f \in Fields |-> q[f]]
  BY SessShape
<1>2. /\ s = [f \in Fields |-> s[f]] /\ Alike(s, q, {"stat"})
      /\ s.stat = a
  BY <1>1, ZenonT(60) DEF Fields, Alike
<1>3. s \in Sessions
  BY <1>2, SessTyped, SessBuild, ZenonT(60) DEF Alike
<1>. QED
  BY <1>2, <1>3, Zenon

LEMMA SetForced ==
    ASSUME NEW q \in Sessions, NEW a \in BOOLEAN, NEW s,
           s = [q EXCEPT !.force_sw = a]
    PROVE  /\ s \in Sessions /\ Alike(s, q, {"force_sw"})
           /\ s.force_sw = a
<1>1. q = [f \in Fields |-> q[f]]
  BY SessShape
<1>2. /\ s = [f \in Fields |-> s[f]] /\ Alike(s, q, {"force_sw"})
      /\ s.force_sw = a
  BY <1>1, ZenonT(60) DEF Fields, Alike
<1>3. s \in Sessions
  BY <1>2, SessTyped, SessBuild, ZenonT(60) DEF Alike
<1>. QED
  BY <1>2, <1>3, Zenon

LEMMA SetEnded ==
    ASSUME NEW q \in Sessions, NEW a \in BOOLEAN, NEW s,
           s = [q EXCEPT !.eos = a]
    PROVE  /\ s \in Sessions /\ Alike(s, q, {"eos"})
           /\ s.eos = a
<1>1. q = [f \in Fields |-> q[f]]
  BY SessShape
<1>2. /\ s = [f \in Fields |-> s[f]] /\ Alike(s, q, {"eos"})
      /\ s.eos = a
  BY <1>1, ZenonT(60) DEF Fields, Alike
<1>3. s \in Sessions
  BY <1>2, SessTyped, SessBuild, ZenonT(60) DEF Alike
<1>. QED
  BY <1>2, <1>3, Zenon

LEMMA SetProcessed ==
    ASSUME NEW q \in Sessions, NEW a \in BOOLEAN, NEW s,
           s = [q EXCEPT !.last_processed = a]
    PROVE  /\ s \in Sessions /\ Alike(s, q, {"last_processed"})
           /\ s.last_processed = a
<1>1. q = [f \in Fields |-> q[f]]
  BY SessShape
<1>2. /\ s = [f \in Fields |-> s[f]] /\ Alike(s, q, {"last_processed"})
      /\ s.last_processed = a
  BY <1>1, ZenonT(60) DEF Fields, Alike
<1>3. s \in Sessions
  BY <1>2, SessTyped, SessBuild, ZenonT(60) DEF Alike
<1>. QED
  BY <1>2, <1>3, Zenon

LEMMA SetTaken ==
    ASSUME NEW q \in Sessions, NEW a \in Nat, NEW s,
           s = [q EXCEPT !.seq_in = a]
    PROVE  /\ s \in Sessions /\ Alike(s, q, {"seq_in"})
           /\ s.seq_in = a
<1>1. q = [f \in Fields |-> q[f]]
  BY SessShape
<1>2. /\ s = [f \in Fields |-> s[f]] /\ Alike(s, q, {"seq_in"})
      /\ s.seq_in = a
  BY <1>1, ZenonT(60) DEF Fields, Alike
<1>3. s \in Sessions
  BY <1>2, SessTyped, SessBuild, ZenonT(60) DEF Alike
<1>. QED
  BY <1>2, <1>3, Zenon

Counted(q, a, b) == [q EXCEPT !.in_len = a, !.out_len = b]
IsCounted(s, q, a, b) ==
    /\ s \in Sessions /\ Alike(s, q, {"in_len", "out_len"})
    /\ s.in_len = a /\ s.out_len = b
LEMMA SetCounted ==
    ASSUME NEW q \in Sessions, NEW a \in Nat, NEW b \in Nat, NEW s,
           s = Counted(q, a, b)
    PROVE  IsCounted(s, q, a, b)
<1>1. q = [f \in Fields |-> q[f]]
  BY SessShape
<1>2. /\ s = [f \in Fields |-> s[f]] /\ Alike(s, q, {"in_len", "out_len"})
      /\ s.in_len = a /\ s.out_len = b
  BY <1>1, ZenonT(60) DEF Fields, Alike, Counted
<1>3. s \in Sessions
  BY <1>2, SessTyped, SessBuild, ZenonT(60) DEF Alike
<1>. QED
  BY <1>2, <1>3, Zenon DEF IsCounted

CountedOK(q, a, b) == [q EXCEPT !.in_len = a, !.out_len = b, !.stat = "OK"]
IsCountedOK(s, q, a, b) ==
    /\ s \in Sessions /\ Alike(s, q, {"in_len", "out_len", "stat"})
    /\ s.in_len = a /\ s.out_len = b /\ s.stat = "OK"
LEMMA SetCountedOK ==
    ASSUME NEW q \in Sessions, NEW a \in Nat, NEW b \in Nat, NEW s,
           s = CountedOK(q, a, b)
    PROVE  IsCountedOK(s, q, a, b)
<1>1. q = [f \in Fields |-> q[f]]
  BY SessShape
<1>2. /\ s = [f \in Fields |-> s[f]] /\ Alike(s, q, {"in_len", "out_len", "stat"})
      /\ s.in_len = a /\ s.out_len = b /\ s.stat = "OK"
  BY <1>1, ZenonT(60) DEF Fields, Alike, CountedOK
<1>3. s \in Sessions
  <2>1. "OK" \in Codes
    BY DEF Codes
  <2>. QED
    BY <1>2, <2>1, SessTyped, SessBuild, ZenonT(60) DEF Alike
<1>. QED
  BY <1>2, <1>3, Zenon DEF IsCountedOK

CountedEnd(q, a, b, c) == [q EXCEPT !.in_len = a, !.out_len = b, !.eos = c]
IsCountedEnd(s, q, a, b, c) ==
    /\ s \in Sessions /\ Alike(s, q, {"in_len", "out_len", "eos"})
    /\ s.in_len = a /\ s.out_len = b /\ s.eos = c
LEMMA SetCountedEnd ==
    ASSUME NEW q \in Sessions, NEW a \in Nat, NEW b \in Nat, NEW c \in BOOLEAN, NEW s,
           s = CountedEnd(q, a, b, c)
    PROVE  IsCountedEnd(s, q, a, b, c)
<1>1. q = [f \in Fields |-> q[f]]
  BY SessShape
<1>2. /\ s = [f \in Fields |-> s[f]] /\ Alike(s, q, {"in_len", "out_len", "eos"})
      /\ s.in_len = a /\ s.out_len = b /\ s.eos = c
  BY <1>1, ZenonT(60) DEF Fields, Alike, CountedEnd
<1>3. s \in Sessions
  BY <1>2, SessTyped, SessBuild, ZenonT(60) DEF Alike
<1>. QED
  BY <1>2, <1>3, Zenon DEF IsCountedEnd

CountedIn(q, a, b, c) == [q EXCEPT !.seq_in = a, !.in_len = b, !.out_len = c]
IsCountedIn(s, q, a, b, c) ==
    /\ s \in Sessions /\ Alike(s, q, {"seq_in", "in_len", "out_len"})
    /\ s.seq_in = a /\ s.in_len = b /\ s.out_len = c
LEMMA SetCountedIn ==
    ASSUME NEW q \in Sessions, NEW a \in Nat, NEW b \in Nat, NEW c \in Nat, NEW s,
           s = CountedIn(q, a, b, c)
    PROVE  IsCountedIn(s, q, a, b, c)
<1>1. q = [f \in Fields |-> q[f]]
  BY SessShape
<1>2. /\ s = [f \in Fields |-> s[f]] /\ Alike(s, q, {"seq_in", "in_len", "out_len"})
      /\ s.seq_in = a /\ s.in_len = b /\ s.out_len = c
  BY <1>1, ZenonT(60) DEF Fields, Alike, CountedIn
<1>3. s \in Sessions
  BY <1>2, SessTyped, SessBuild, ZenonT(60) DEF Alike
<1>. QED
  BY <1>2, <1>3, Zenon DEF IsCountedIn

-----------------------------------------------------------------------------
(* The cursors of a stream buffer go round the four states of its ring.    *)

LEMMA CursorStates ==
    ASSUME NEW c \in Cursors
    PROVE  /\ Unused(c) => ~Claimed(c) /\ ~InFlight(c) /\ ~Answered(c)
           /\ Claimed(c) => ~InFlight(c) /\ ~Answered(c)
           /\ InFlight(c) => ~Answered(c)
BY DEF Cursors, Unused, Claimed, InFlight, Answered

LEMMA CursorMoves ==
    ASSUME NEW c \in Cursors, NEW d,
           /\ d.sink1 = c.sink1 /\ d.sink2 = c.sink2
    PROVE  /\ Unused(c) /\ d.src1 = c.src1 + 1 /\ d.src2 = c.src2 => Claimed(d)
           /\ InFlight(c) /\ d.src1 = c.src1 - 1 /\ d.src2 = c.src2 - 1
                => Unused(d)
BY DEF Cursors, Unused, Claimed, InFlight

CurFields == {"src1", "src2", "sink1", "sink2"}
LEMMA CursorShape ==
    ASSUME NEW c \in Cursors
    PROVE  /\ c = [f \in CurFields |-> c[f]]
           /\ c.src1 \in Int /\ c.src2 \in Int /\ c.sink1 \in Int
           /\ c.sink2 \in Int
           /\ c.src1 + 1 \in Int /\ c.src1 - 1 \in Int /\ c.src2 - 1 \in Int
BY DEF Cursors, CurFields

LEMMA CursorBuild ==
    ASSUME NEW d, d = [f \in CurFields |-> d[f]], d.src1 \in Int,
           d.src2 \in Int, d.sink1 \in Int, d.sink2 \in Int
    PROVE  d \in Cursors
<1>1. d = [src1 |-> d.src1, src2 |-> d.src2, sink1 |-> d.sink1,
           sink2 |-> d.sink2]
  BY DEF CurFields
<1>. QED
  BY <1>1 DEF Cursors

LEMMA CursorClaim ==
    ASSUME NEW c \in Cursors, Unused(c), NEW d, d = [c EXCEPT !.src1 = c.src1 + 1]
    PROVE  d \in Cursors /\ Claimed(d)
<1>1. /\ d = [f \in CurFields |-> d[f]] /\ d.src1 = c.src1 + 1
      /\ d.src2 = c.src2 /\ d.sink1 = c.sink1 /\ d.sink2 = c.sink2
  BY CursorShape, ZenonT(60) DEF CurFields
<1>2. d \in Cursors
  BY <1>1, CursorShape, CursorBuild, ZenonT(60)
<1>. QED
  BY <1>1, <1>2, CursorMoves, ZenonT(60)

LEMMA CursorUse ==
    ASSUME NEW c \in Cursors, Claimed(c), NEW d, d = [c EXCEPT !.src2 = c.src2 + 1]
    PROVE  d \in Cursors /\ InFlight(d)
BY DEF Cursors, Claimed, InFlight

LEMMA CursorAnswer ==
    ASSUME NEW c \in Cursors, InFlight(c), NEW d,
           d = [c EXCEPT !.sink1 = c.sink1 + 1]
    PROVE  d \in Cursors /\ Answered(d)
BY DEF Cursors, Answered, InFlight

LEMMA CursorTake ==
    ASSUME NEW c \in Cursors, Answered(c), NEW d,
           d = [c EXCEPT !.sink2 = c.sink2 + 1]
    PROVE  d \in Cursors /\ Unused(d)
BY DEF Cursors, Answered, Unused

LEMMA CursorBack ==
    ASSUME NEW c \in Cursors, InFlight(c), NEW d,
           d = [[c EXCEPT !.src1 = c.src1 - 1] EXCEPT !.src2 = c.src2 - 1]
    PROVE  d \in Cursors /\ Unused(d)
<1>1. /\ d = [f \in CurFields |-> d[f]] /\ d.src1 = c.src1 - 1
      /\ d.src2 = c.src2 - 1 /\ d.sink1 = c.sink1 /\ d.sink2 = c.sink2
  BY CursorShape, ZenonT(60) DEF CurFields
<1>2. d \in Cursors
  BY <1>1, CursorShape, CursorBuild, ZenonT(60)
<1>. QED
  BY <1>1, <1>2, CursorMoves, ZenonT(60)

\* A step of one slot leaves the others alone.
LEMMA SlotStep ==
    ASSUME NEW V, NEW f \in [Slots -> V], NEW k \in Slots, NEW v \in V, NEW g,
           g = [f EXCEPT ![k] = v]
    PROVE  /\ g \in [Slots -> V] /\ g[k] = v
           /\ \A m \in Slots : m # k => g[m] = f[m]
OBVIOUS

\* A step of the cursors of slot k.
OnlySlot(c, d, k) ==
    d \in [Slots -> Cursors] /\ \A m \in Slots : m # k => d[m] = c[m]

LEMMA CurSteps ==
    ASSUME NEW c \in [Slots -> Cursors], NEW k \in Slots, NEW d
    PROVE  /\ Unused(c[k]) /\ d = [c EXCEPT ![k].src1 = @ + 1] =>
                 OnlySlot(c, d, k) /\ Claimed(d[k])
           /\ Claimed(c[k]) /\ d = [c EXCEPT ![k].src2 = @ + 1] =>
                 OnlySlot(c, d, k) /\ InFlight(d[k])
           /\ InFlight(c[k]) /\ d = [c EXCEPT ![k].sink1 = @ + 1] =>
                 OnlySlot(c, d, k) /\ Answered(d[k])
           /\ Answered(c[k]) /\ d = [c EXCEPT ![k].sink2 = @ + 1] =>
                 OnlySlot(c, d, k) /\ Unused(d[k])
           /\ InFlight(c[k]) /\ d = [c EXCEPT ![k].src1 = @ - 1,
                                              ![k].src2 = @ - 1] =>
                 OnlySlot(c, d, k) /\ Unused(d[k])
<1>0. c[k] \in Cursors
  OBVIOUS
<1>1. ASSUME NEW e \in Cursors, d = [c EXCEPT ![k] = e]
      PROVE  OnlySlot(c, d, k) /\ d[k] = e
  BY <1>1, SlotStep, Zenon DEF OnlySlot
<1>2. ASSUME Unused(c[k]), d = [c EXCEPT ![k].src1 = @ + 1]
      PROVE  OnlySlot(c, d, k) /\ Claimed(d[k])
  <2>1. PICK e : e = [c[k] EXCEPT !.src1 = c[k].src1 + 1]
    OBVIOUS
  <2>2. e \in Cursors /\ Claimed(e)
    BY <1>0, <1>2, <2>1, CursorClaim, Zenon
  <2>3. d = [c EXCEPT ![k] = e]
    BY <1>2, <2>1, Zenon
  <2>. QED
    BY <1>1, <1>2, <2>2, <2>3, Zenon
<1>3. ASSUME Claimed(c[k]), d = [c EXCEPT ![k].src2 = @ + 1]
      PROVE  OnlySlot(c, d, k) /\ InFlight(d[k])
  <2>1. PICK e : e = [c[k] EXCEPT !.src2 = c[k].src2 + 1]
    OBVIOUS
  <2>2. e \in Cursors /\ InFlight(e)
    BY <1>0, <1>3, <2>1, CursorUse, Zenon
  <2>3. d = [c EXCEPT ![k] = e]
    BY <1>3, <2>1, Zenon
  <2>. QED
    BY <1>1, <1>3, <2>2, <2>3, Zenon
<1>4. ASSUME InFlight(c[k]), d = [c EXCEPT ![k].sink1 = @ + 1]
      PROVE  OnlySlot(c, d, k) /\ Answered(d[k])
  <2>1. PICK e : e = [c[k] EXCEPT !.sink1 = c[k].sink1 + 1]
    OBVIOUS
  <2>2. e \in Cursors /\ Answered(e)
    BY <1>0, <1>4, <2>1, CursorAnswer, Zenon
  <2>3. d = [c EXCEPT ![k] = e]
    BY <1>4, <2>1, Zenon
  <2>. QED
    BY <1>1, <1>4, <2>2, <2>3, Zenon
<1>5. ASSUME Answered(c[k]), d = [c EXCEPT ![k].sink2 = @ + 1]
      PROVE  OnlySlot(c, d, k) /\ Unused(d[k])
  <2>1. PICK e : e = [c[k] EXCEPT !.sink2 = c[k].sink2 + 1]
    OBVIOUS
  <2>2. e \in Cursors /\ Unused(e)
    BY <1>0, <1>5, <2>1, CursorTake, Zenon
  <2>3. d = [c EXCEPT ![k] = e]
    BY <1>5, <2>1, Zenon
  <2>. QED
    BY <1>1, <1>5, <2>2, <2>3, Zenon
<1>6. ASSUME InFlight(c[k]), d = [c EXCEPT ![k].src1 = @ - 1,
                                           ![k].src2 = @ - 1]
      PROVE  OnlySlot(c, d, k) /\ Unused(d[k])
  <2>1. PICK e : e = [[c[k] EXCEPT !.src1 = c[k].src1 - 1]
                       EXCEPT !.src2 = c[k].src2 - 1]
    OBVIOUS
  <2>2. e \in Cursors /\ Unused(e)
    BY <1>0, <1>6, <2>1, CursorBack, Zenon
  <2>3. d = [c EXCEPT ![k] = e]
    BY <1>6, <2>1, Zenon
  <2>. QED
    BY <1>1, <1>6, <2>2, <2>3, Zenon
<1>. QED
  BY <1>2, <1>3, <1>4, <1>5, <1>6, Zenon

\* The pointers follow the cursors.
PtrLent(p, q, k)    == q = [p EXCEPT ![k] = Lend(@)]
PtrCleaned(p, q, k) == q = [p EXCEPT ![k] = Clean(@)]

LEMMA PtrMoves ==
    ASSUME NEW c \in [Slots -> Cursors], NEW d, NEW k \in Slots,
           OnlySlot(c, d, k), NEW p, p = PtrOf(c), NEW q
    PROVE  /\ q = p /\ (Unused(c[k]) <=> Unused(d[k])) => q = PtrOf(d)
           /\ PtrLent(p, q, k) /\ Unused(c[k]) /\ ~Unused(d[k]) =>
                 q = PtrOf(d)
           /\ PtrCleaned(p, q, k) /\ ~Unused(c[k]) /\ Unused(d[k]) =>
                 q = PtrOf(d)
<1>0. /\ p[k] = IF Unused(c[k]) THEN AtRest ELSE Lend(AtRest)
      /\ \A m \in Slots : m # k => d[m] = c[m]
  BY DEF PtrOf, OnlySlot
<1>1. ASSUME q = p, Unused(c[k]) <=> Unused(d[k])
      PROVE  q = PtrOf(d)
  BY <1>0, <1>1 DEF PtrOf
<1>2. ASSUME PtrLent(p, q, k), Unused(c[k]), ~Unused(d[k])
      PROVE  q = PtrOf(d)
  <2>1. q = [p EXCEPT ![k] = Lend(AtRest)]
    BY <1>0, <1>2, Zenon DEF PtrLent
  <2>. QED
    BY <1>0, <1>2, <2>1 DEF PtrOf
<1>3. ASSUME PtrCleaned(p, q, k), ~Unused(c[k]), Unused(d[k])
      PROVE  q = PtrOf(d)
  <2>1. q = [p EXCEPT ![k] = AtRest]
    BY <1>0, <1>3, CleanLend, Zenon DEF PtrCleaned
  <2>. QED
    BY <1>0, <1>3, <2>1 DEF PtrOf
<1>. QED
  BY <1>1, <1>2, <1>3, Zenon

-----------------------------------------------------------------------------
(* The live requests.                                                      *)

LEMMA LiveDef ==
    \A r : r \in Live <=> r \in hw \/ \E k \in Slots : /\ Answered(cur[k])
                                                      /\ r = res[k]
BY DEF Live

LEMMA LiveFact ==
    ASSUME TypeStream, TypeDev, SlotInv
    PROVE  /\ \A r \in Live :
                 /\ r \in Jobs /\ r.slot \in Slots
                 /\ ~Held(r.slot) /\ ~Unused(cur[r.slot])
                 /\ ~Claimed(cur[r.slot])
                 /\ r \in hw <=> InFlight(cur[r.slot])
                 /\ Answered(cur[r.slot]) <=> r \notin hw
                 /\ r \notin hw => r = res[r.slot]
           /\ \A q, r \in Live : q.slot = r.slot => q = r
<1>1. ASSUME NEW r \in hw
      PROVE  /\ r \in Jobs /\ r.slot \in Slots
             /\ ~Held(r.slot) /\ InFlight(cur[r.slot])
  BY DEF TypeDev, SlotInv, Jobs
<1>2. ASSUME NEW k \in Slots, Answered(cur[k])
      PROVE  /\ res[k] \in Jobs /\ ~Held(k) /\ res[k].slot = k
  <2>1. cur[k] \in Cursors /\ res[k] \in Jobs
    BY DEF TypeStream
  <2>2. ~Held(k)
    BY <1>2, <2>1, CursorStates DEF SlotInv
  <2>3. res[k].slot = k
    BY <1>2, <2>1, <2>2, CursorStates DEF SlotInv
  <2>. QED
    BY <2>1, <2>2, <2>3
<1>3. \A k \in Slots : cur[k] \in Cursors
  BY DEF TypeStream
<1>4. ASSUME NEW r \in Live
      PROVE  /\ r \in Jobs /\ r.slot \in Slots
             /\ ~Held(r.slot)
             /\ \/ InFlight(cur[r.slot]) /\ r \in hw
                \/ Answered(cur[r.slot]) /\ r = res[r.slot]
  BY <1>1, <1>2, LiveDef
<1>5. \A r \in Live : InFlight(cur[r.slot]) <=> ~Answered(cur[r.slot])
  BY <1>3, <1>4, CursorStates
<1>6. \A r \in Live : r \in hw <=> InFlight(cur[r.slot])
  BY <1>1, <1>4, <1>5
<1>7. \A q, r \in Live : q.slot = r.slot => q = r
  BY <1>4, <1>5, <1>6 DEF SlotInv
<1>8. \A r \in Live : ~Unused(cur[r.slot]) /\ ~Claimed(cur[r.slot])
  BY <1>3, <1>4, CursorStates
<1>. QED
  BY <1>4, <1>5, <1>6, <1>7, <1>8

\* A slot that is neither held nor live is unused.
LEMMA SlotIdle ==
    ASSUME TypeStream, SlotInv, NEW k \in Slots, ~Held(k),
           \A r \in Live : r.slot # k
    PROVE  Unused(cur[k])
BY LiveDef DEF SlotInv

LEMMA LiveSame ==
    ASSUME hw' = hw, res' = res,
           \A k \in Slots : Answered(cur'[k]) <=> Answered(cur[k])
    PROVE  Live' = Live
BY DEF Live

LEMMA LiveCallback ==
    ASSUME TypeStream, TypeDev, SlotInv, NEW r \in hw, hw' = hw \ {r},
           res' = [res EXCEPT ![r.slot] = r],
           OnlySlot(cur, cur', r.slot), Answered(cur'[r.slot])
    PROVE  Live' = Live
<1>1. r \in Live /\ r.slot \in Slots /\ ~Answered(cur[r.slot])
  BY LiveDef, LiveFact
<1>2. /\ res'[r.slot] = r /\ \A m \in Slots : m # r.slot => res'[m] = res[m]
      /\ \A m \in Slots : m # r.slot => cur'[m] = cur[m]
  BY <1>1 DEF TypeStream, OnlySlot
<1>3. \A q : q \in Live' <=> q \in hw' \/ \E k \in Slots : /\ Answered(cur'[k])
                                                          /\ q = res'[k]
  BY DEF Live
<1>4. \A q : q \in Live' <=> q \in Live
  BY <1>1, <1>2, <1>3, LiveDef
<1>. QED
  BY <1>4

LEMMA LiveTake ==
    ASSUME TypeStream, TypeDev, SlotInv, NEW k \in Slots, hw' = hw, res' = res,
           OnlySlot(cur, cur', k), Answered(cur[k]), ~Answered(cur'[k])
    PROVE  Live' = Live \ {res[k]} /\ res[k] \in Live /\ res[k].slot = k
<1>1. res[k] \in Live
  BY LiveDef
<1>2. \A m \in Slots : Answered(cur[m]) => res[m].slot = m
  <2>1. \A m \in Slots : cur[m] \in Cursors
    BY DEF TypeStream
  <2>. QED
    BY <2>1, CursorStates DEF SlotInv
<1>3. res[k] \notin hw
  BY <1>1, <1>2, LiveFact
<1>4. \A m \in Slots : m # k => cur'[m] = cur[m]
  BY DEF OnlySlot
<1>5. \A q : q \in Live' <=> q \in hw \/ \E m \in Slots : /\ Answered(cur'[m])
                                                         /\ q = res[m]
  BY DEF Live
<1>6. \A q : q \in Live' <=> q \in Live /\ q # res[k]
  BY <1>2, <1>3, <1>4, <1>5, LiveDef
<1>. QED
  BY <1>1, <1>2, <1>6

LEMMA LiveAnswer ==
    ASSUME TypeStream, TypeDev, SlotInv, NEW r \in hw, NEW a,
           hw' = (hw \ {r}) \cup {a}, res' = res, cur' = cur
    PROVE  Live' = (Live \ {r}) \cup {a}
<1>1. \A k \in Slots : Answered(cur[k]) => res[k] # r
  <2>1. \A k \in Slots : cur[k] \in Cursors
    BY DEF TypeStream
  <2>2. \A k \in Slots : Answered(cur[k]) => res[k].slot = k
    BY <2>1, CursorStates DEF SlotInv
  <2>3. InFlight(cur[r.slot])
    BY DEF SlotInv
  <2>. QED
    BY <2>1, <2>2, <2>3, CursorStates
<1>2. \A q : q \in Live' <=> q \in hw' \/ \E m \in Slots : /\ Answered(cur[m])
                                                          /\ q = res[m]
  BY DEF Live
<1>3. \A q : q \in Live' <=> (q \in Live /\ q # r) \/ q = a
  BY <1>1, <1>2, LiveDef
<1>. QED
  BY <1>3

LEMMA LiveSubmit ==
    ASSUME NEW a, hw' = hw \cup {a}, res' = res, cur' = cur
    PROVE  Live' = Live \cup {a}
BY DEF Live

-----------------------------------------------------------------------------
(* What the actions do to the session.                                     *)

\* At most the fields of S have changed.
SessStep(S) == sess' \in Sessions /\ Alike(sess', sess, S)

LEMMA EnterHWFacts ==
    ASSUME TypeSess, EnterHW
    PROVE  /\ sess' \in Sessions
           /\ sess'.seq = 0 /\ sess'.seq_in = 0
           /\ sess'.last_submitted = FALSE /\ sess'.last_processed = FALSE
           /\ sess'.stop_submitting = FALSE /\ sess'.stat = "OK"
           /\ sess'.force_sw = FALSE /\ sess'.in_len = 0 /\ sess'.out_len = 0
           /\ sess'.eos = FALSE /\ sess'.inflate = sess.inflate
<1>1. PICK single \in BOOLEAN :
        sess' = [sess EXCEPT !.seq = 0, !.seq_in = 0, !.last_submitted = FALSE,
                   !.last_processed = FALSE, !.stop_submitting = FALSE,
                   !.stat = "OK", !.force_sw = FALSE, !.in_len = 0,
                   !.out_len = 0, !.eos = FALSE, !.single_thread = single]
  BY Zenon DEF EnterHW
<1>2. sess \in Sessions /\ sess = [f \in Fields |-> sess[f]]
  BY SessShape DEF TypeSess
<1>3. /\ sess' = [f \in Fields |-> sess'[f]]
      /\ sess'.seq = 0 /\ sess'.seq_in = 0
      /\ sess'.last_submitted = FALSE /\ sess'.last_processed = FALSE
      /\ sess'.stop_submitting = FALSE /\ sess'.stat = "OK"
      /\ sess'.force_sw = FALSE /\ sess'.in_len = 0 /\ sess'.out_len = 0
      /\ sess'.eos = FALSE /\ sess'.inflate = sess.inflate
      /\ sess'.ipos = sess.ipos /\ sess'.single_thread = single
  BY <1>1, <1>2, ZenonT(60) DEF Fields
<1>4. sess' \in Sessions
  <2>1. sess.inflate \in InflateStates /\ sess.ipos \in Nat
    BY <1>2, SessTyped
  <2>2. 0 \in Nat /\ FALSE \in BOOLEAN /\ "OK" \in Codes
    BY DEF Codes
  <2>. QED
    BY <1>1, <1>3, <2>1, <2>2, SessBuild, ZenonT(60)
<1>. QED
  BY <1>3, <1>4, Zenon

\* s is what a software call at p that answered r leaves of session q.
SwEffect(s, q, p, r) ==
    /\ s \in Sessions /\ Alike(s, q, {"inflate", "ipos", "force_sw", "eos"})
    /\ s.inflate = r.inflate /\ s.ipos = p + r.n
    /\ s.force_sw <=> q.force_sw \/ Deflate(req.fmt)
    /\ s.eos <=> Deflate(req.fmt) /\ r.rc = "OK" /\ r.inflate = "null"

LEMMA SwSessFact ==
    ASSUME NEW q \in Sessions, NEW p \in Nat, NEW r, r.n \in Nat,
           r.inflate \in InflateStates, NEW s, s = SwSess(q, p, r)
    PROVE  SwEffect(s, q, p, r)
<1>1. PICK f \in BOOLEAN : f <=> q.force_sw \/ Deflate(req.fmt)
  OBVIOUS
<1>2. PICK e \in BOOLEAN :
         e <=> Deflate(req.fmt) /\ r.rc = "OK" /\ r.inflate = "null"
  OBVIOUS
<1>3. PICK n \in Nat : n = p + r.n
  OBVIOUS
<1>4. f = (q.force_sw \/ Deflate(req.fmt))
  <2>1. q.force_sw \in BOOLEAN
    BY SessTyped
  <2>. QED
    BY <1>1, <2>1
<1>5. e = (Deflate(req.fmt) /\ r.rc = "OK" /\ r.inflate = "null")
  BY <1>2
<1>i. PICK i \in InflateStates : i = r.inflate
  OBVIOUS
<1>6. s = [q EXCEPT !.inflate = i, !.ipos = n, !.force_sw = f, !.eos = e]
  BY <1>i, <1>3, <1>4, <1>5, Zenon DEF SwSess
<1>7. /\ s \in Sessions
      /\ Alike(s, q, {"inflate", "ipos", "force_sw", "eos"})
      /\ s.inflate = i /\ s.ipos = n /\ s.force_sw = f /\ s.eos = e
  <2>1. f \in BOOLEAN /\ e \in BOOLEAN /\ n \in Nat
    BY <1>1, <1>2, <1>3
  <2>2. i \in InflateStates
    BY <1>i
  <2>3. q = [g \in Fields |-> q[g]]
    BY SessShape
  <2>4. /\ s = [g \in Fields |-> s[g]]
        /\ Alike(s, q, {"inflate", "ipos", "force_sw", "eos"})
        /\ s.inflate = i /\ s.ipos = n /\ s.force_sw = f /\ s.eos = e
    BY <1>6, <2>3, ZenonT(60) DEF Fields, Alike
  <2>5. s \in Sessions
    BY <2>1, <2>2, <2>4, SessTyped, SessBuild, ZenonT(60) DEF Alike
  <2>. QED
    BY <2>4, <2>5, Zenon
<1>. QED
  BY <1>i, <1>1, <1>2, <1>3, <1>7, Zenon DEF SwEffect

CheckCodes == {"OK", "FORCE_SW", "BUF_ERROR", "FAIL", "DATA_ERROR"}
LEMMA CheckHeaderType ==
    ASSUME NEW p, NEW room PROVE CheckHeader(p, room) \in CheckCodes
BY DEF CheckHeader, CheckCodes

LEMMA InCheckFacts ==
    ASSUME TypeSess, InCheck
    PROVE  LET rc == CheckHeader(pos, req.dest - dptr)
           IN  /\ pcIn = "check" /\ pcIn' \in {"get", "sw", "err"}
               /\ SessStep({"force_sw", "stat"})
               /\ pcIn' = "get" => rc = "OK" /\ sess' = sess
               /\ pcIn' = "sw" => /\ rc \in {"OK", "FORCE_SW"}
                                  /\ sess'.stat = sess.stat
                                  /\ rc = "OK" => sess' = sess
               /\ pcIn' = "err" => /\ rc \notin {"OK", "FORCE_SW"}
                                   /\ sess'.stat = rc
                                   /\ sess'.force_sw = sess.force_sw
               /\ UNCHANGED <<callVars, streamVars, jIn, pos, dptr, tmp,
                              num_retries, outVars, devVars, dst, erred>>
<1>1. PICK rc \in CheckCodes : rc = CheckHeader(pos, req.dest - dptr)
  BY CheckHeaderType
<1>2. sess \in Sessions
  BY DEF TypeSess
<1>3. \/ rc = "OK" /\ pcIn' \in {"get", "sw"} /\ UNCHANGED sess
      \/ /\ rc = "FORCE_SW" /\ pcIn' = "sw"
         /\ sess' = [sess EXCEPT !.force_sw = @ \/ Remembers(pos)]
      \/ /\ rc \notin {"OK", "FORCE_SW"} /\ pcIn' = "err"
         /\ sess' = [sess EXCEPT !.stat = rc]
  BY <1>1, ZenonT(30) DEF InCheck
<1>4. /\ pcIn = "check"
      /\ UNCHANGED <<callVars, streamVars, jIn, pos, dptr, tmp,
                     num_retries, outVars, devVars, dst, erred>>
  BY Zenon DEF InCheck
<1>5. CASE rc = "OK" /\ pcIn' \in {"get", "sw"} /\ UNCHANGED sess
  BY <1>1, <1>2, <1>4, <1>5 DEF SessStep, Alike
<1>6. CASE /\ rc = "FORCE_SW" /\ pcIn' = "sw"
           /\ sess' = [sess EXCEPT !.force_sw = @ \/ Remembers(pos)]
  <2>1. PICK f \in BOOLEAN : f <=> (sess.force_sw \/ Remembers(pos))
    OBVIOUS
  <2>2. f = (sess.force_sw \/ Remembers(pos))
    BY <2>1
  <2>3. sess' = [sess EXCEPT !.force_sw = f]
    BY <1>6, <2>2, Zenon
  <2>4. sess' \in Sessions /\ Alike(sess', sess, {"force_sw"})
    BY <1>2, <2>3, SetForced, Zenon
  <2>5. rc = "FORCE_SW" /\ pcIn' = "sw"
    BY <1>6, Zenon
  <2>. QED
    BY <1>1, <1>4, <2>4, <2>5 DEF SessStep, Alike
<1>7. CASE /\ rc \notin {"OK", "FORCE_SW"} /\ pcIn' = "err"
           /\ sess' = [sess EXCEPT !.stat = rc]
  <2>1. rc \in Codes
    BY <1>1, <1>7 DEF Codes, CheckCodes
  <2>2. sess' \in Sessions /\ Alike(sess', sess, {"stat"}) /\ sess'.stat = rc
    BY <1>2, <1>7, <2>1, SetFailed, Zenon
  <2>3. rc \notin {"OK", "FORCE_SW"} /\ pcIn' = "err"
    BY <1>7, Zenon
  <2>. QED
    BY <1>1, <1>4, <2>2, <2>3 DEF SessStep, Alike
<1>. QED
  BY <1>3, <1>5, <1>6, <1>7, Zenon

\* t is s after so many more units have been counted.
CountEffect(t, s, n, S) ==
    /\ t \in Sessions /\ Alike(t, s, S)
    /\ t.in_len = s.in_len + n /\ t.out_len = s.out_len + n

LEMMA EnterSWFacts ==
    ASSUME TypeCall, TypeSess, EnterSW
    PROVE  /\ caller = "enter" /\ caller' = "idle"
           /\ \E r \in SwResults(SwMulti(req.off, req.dest)) :
                 /\ SwAnswer(r, req.off, req.dest)
                 /\ SwEffect(sess', sess, req.off, r)
                 /\ dst' = Put(dst, 0, req.off, r.n, TRUE)
                 /\ ret' = [rc |-> r.rc, src_len |-> r.n, dest_len |-> r.n]
           /\ UNCHANGED <<calls, req, streamVars, inVars, outVars, devVars,
                          erred>>
<1>1. caller = "enter" /\ calls > 0
  BY Zenon DEF EnterSW, TypeCall
<1>2. /\ req.mem \in Sources /\ req.off \in Nat /\ req.dest \in Nat
      /\ req.off < Total(req.mem) /\ sess \in Sessions
      /\ sess.inflate \in InflateStates
  BY <1>1, SessTyped DEF TypeCall, TypeSess
<1>3. PICK r \in SwResults(SwMulti(req.off, req.dest)) :
         /\ sess' = SwSess(sess, req.off, r)
         /\ dst' = Put(dst, 0, req.off, r.n, TRUE)
         /\ ret' = [rc |-> r.rc, src_len |-> r.n, dest_len |-> r.n]
  BY Zenon DEF EnterSW
<1>4. SwAnswer(r, req.off, req.dest)
  BY <1>2, <1>3, SwMultiFact
<1>5. r.n \in Nat /\ r.inflate \in InflateStates
  BY <1>4 DEF SwAnswer
<1>6. SwEffect(sess', sess, req.off, r)
  BY <1>2, <1>3, <1>5, SwSessFact, ZenonT(30)
<1>. QED
  BY <1>1, <1>3, <1>4, <1>6, Zenon DEF EnterSW

LEMMA EnterRefusedFacts ==
    ASSUME TypeSess, EnterRefused
    PROVE  /\ caller = "enter" /\ caller' = "idle"
           /\ ret' = [rc |-> IF MustGoSW THEN "FAIL" ELSE "NO_INST",
                      src_len |-> 0, dest_len |-> 0]
           /\ SessStep({"eos"})
           /\ UNCHANGED <<calls, req, streamVars, inVars, outVars, devVars,
                          dst, erred>>
<1>1. sess \in Sessions /\ sess' = [sess EXCEPT !.eos = FALSE]
  BY Zenon DEF EnterRefused, TypeSess
<1>2. SessStep({"eos"})
  <2>1. FALSE \in BOOLEAN
    OBVIOUS
  <2>. QED
    BY <1>1, <2>1, SetEnded, Zenon DEF SessStep
<1>. QED
  BY <1>2, Zenon DEF EnterRefused

LEMMA CountedSum ==
    ASSUME NEW q \in Sessions, NEW n \in Nat
    PROVE  /\ q.in_len + n \in Nat /\ q.out_len + n \in Nat
           /\ q.seq_in + 1 \in Nat /\ q.seq + 1 \in Nat
BY SessTyped

LEMMA FinishSWFacts ==
    ASSUME TypeCall, TypeSess, SpaceInv, FinishSW
    PROVE  /\ Joined /\ sess.seq = sess.seq_in /\ NeedsSW
           /\ caller' = "idle"
           /\ ret' = [rc |-> sess'.stat, src_len |-> sess'.in_len,
                      dest_len |-> sess'.out_len]
           /\ LET p == req.off + sess.in_len
                  room == req.dest - sess.out_len
              IN  \/ /\ p = Total(req.mem) /\ UNCHANGED dst
                     /\ SessStep({"stat"}) /\ sess'.stat = "OK"
                  \/ /\ p < Total(req.mem) /\ room \in Nat
                     /\ \E r \in SwResults(SwMulti(p, room)) :
                          /\ SwAnswer(r, p, room)
                          /\ dst' = Put(dst, sess.out_len, p, r.n, TRUE)
                          /\ \/ r.rc # "OK" /\ SwEffect(sess', sess, p, r)
                             \/ /\ r.rc = "OK" /\ sess'.stat = "OK"
                                /\ \E s : /\ SwEffect(s, sess, p, r)
                                          /\ CountEffect(sess', s, r.n,
                                              {"in_len", "out_len", "stat"})
           /\ UNCHANGED <<calls, req, streamVars, inVars, outVars, devVars,
                          erred>>
<1>1. /\ Joined /\ sess.seq = sess.seq_in /\ NeedsSW
      /\ caller' = "idle"
      /\ ret' = [rc |-> sess'.stat, src_len |-> sess'.in_len,
                 dest_len |-> sess'.out_len]
      /\ UNCHANGED <<calls, req, streamVars, inVars, outVars, devVars, erred>>
  BY Zenon DEF FinishSW, Return
<1>2. /\ caller = "run" /\ calls > 0 /\ sess \in Sessions
      /\ req.mem \in Sources
  BY <1>1 DEF Joined, TypeCall, TypeSess
<1>3. /\ sess.in_len \in Nat /\ sess.out_len \in Nat /\ req.off \in Nat
      /\ req.dest \in Nat /\ sess.inflate \in InflateStates
      /\ Total(req.mem) \in Nat
  BY <1>2, SessTyped, TotalType DEF TypeCall
<1>4. PICK p \in Nat : p = req.off + sess.in_len /\ p <= Total(req.mem)
  BY <1>2, <1>3 DEF SpaceInv, SpaceCall, SpaceLive
<1>5. PICK room \in Nat : room = req.dest - sess.out_len
  BY <1>2, <1>3 DEF SpaceInv, SpaceCall, SpaceLive
<1>6. \/ p = Total(req.mem) /\ sess' = [sess EXCEPT !.stat = "OK"]
           /\ UNCHANGED dst
      \/ /\ p # Total(req.mem)
         /\ \E r \in SwResults(SwMulti(p, room)) :
                 /\ dst' = Put(dst, sess.out_len, p, r.n, TRUE)
                 /\ sess' = IF r.rc # "OK" THEN SwSess(sess, p, r)
                            ELSE [SwSess(sess, p, r) EXCEPT
                                    !.in_len = @ + r.n, !.out_len = @ + r.n,
                                    !.stat = "OK"]
  BY <1>4, <1>5, Zenon DEF FinishSW
<1>7. ASSUME p = Total(req.mem), sess' = [sess EXCEPT !.stat = "OK"]
      PROVE  SessStep({"stat"}) /\ sess'.stat = "OK"
  <2>1. "OK" \in Codes
    BY DEF Codes
  <2>. QED
    BY <1>2, <1>7, <2>1, SetFailed, Zenon DEF SessStep
<1>8. ASSUME p # Total(req.mem), NEW r \in SwResults(SwMulti(p, room)),
             sess' = IF r.rc # "OK" THEN SwSess(sess, p, r)
                     ELSE [SwSess(sess, p, r) EXCEPT
                             !.in_len = @ + r.n, !.out_len = @ + r.n,
                             !.stat = "OK"]
      PROVE  /\ p < Total(req.mem) /\ SwAnswer(r, p, room)
             /\ \/ r.rc # "OK" /\ SwEffect(sess', sess, p, r)
                \/ /\ r.rc = "OK" /\ sess'.stat = "OK"
                   /\ \E s : /\ SwEffect(s, sess, p, r)
                             /\ CountEffect(sess', s, r.n,
                                  {"in_len", "out_len", "stat"})
  <2>1. p < Total(req.mem)
    <3>1. p \in Nat /\ p <= Total(req.mem)
      BY <1>4
    <3>2. Total(req.mem) \in Nat
      BY <1>3
    <3>3. p # Total(req.mem)
      BY <1>8, Zenon
    <3>4. ASSUME NEW t \in Nat, p <= t, p # t PROVE p < t
      BY <3>1, <3>4
    <3>. QED
      BY <3>1, <3>2, <3>3, <3>4, Zenon
  <2>2. SwAnswer(r, p, room)
    BY <1>2, <1>3, <1>4, <1>5, <2>1, SwMultiFact, Zenon
  <2>3. r.n \in Nat /\ r.inflate \in InflateStates
    BY <2>2, Zenon DEF SwAnswer
  <2>4. PICK s : s = SwSess(sess, p, r)
    OBVIOUS
  <2>5. SwEffect(s, sess, p, r)
    BY <1>2, <1>4, <2>3, <2>4, SwSessFact, ZenonT(30)
  <2>6. CASE r.rc # "OK"
    BY <1>8, <2>1, <2>2, <2>4, <2>5, <2>6, Zenon
  <2>7. CASE r.rc = "OK"
    <3>1. s \in Sessions
      BY <2>5, Zenon DEF SwEffect
    <3>2. s.in_len + r.n \in Nat /\ s.out_len + r.n \in Nat
      BY <3>1, <2>3, CountedSum, Zenon
    <3>3. "OK" \in Codes
      BY DEF Codes
    <3>a. PICK a \in Nat : a = s.in_len + r.n
      BY <3>2
    <3>b. PICK b \in Nat : b = s.out_len + r.n
      BY <3>2
    <3>4. sess' = CountedOK(s, a, b)
      <4>1. sess' = [SwSess(sess, p, r) EXCEPT
                             !.in_len = @ + r.n, !.out_len = @ + r.n,
                             !.stat = "OK"]
        BY <1>8, <2>7, Zenon
      <4>2. sess' = [s EXCEPT !.in_len = @ + r.n, !.out_len = @ + r.n,
                              !.stat = "OK"]
        BY <4>1, <2>4, Zenon
      <4>. QED
        BY <4>2, <3>1, <3>a, <3>b, SessShape, ZenonT(60) DEF Fields, CountedOK
    <3>5. /\ CountEffect(sess', s, r.n, {"in_len", "out_len", "stat"})
          /\ sess'.stat = "OK"
      <4>1. a \in Nat /\ b \in Nat
        BY <3>a, <3>b
      <4>2. IsCountedOK(sess', s, a, b)
        BY <4>1, <3>1, <3>4, SetCountedOK, Zenon
      <4>. QED
        BY <4>2, <3>a, <3>b, Zenon DEF CountEffect, IsCountedOK
    <3>. QED
      BY <2>1, <2>2, <2>5, <2>7, <3>5, Zenon
  <2>. QED
    BY <2>6, <2>7, Zenon
<1>. QED
  BY <1>1, <1>4, <1>5, <1>6, <1>7, <1>8, Zenon

\* What a step does to the pointers of a buffer.
PtrKept == pcOut # "err" /\ ptr = PtrOf(cur) => ptr' = PtrOf(cur')

LEMMA InGetBufferFacts ==
    ASSUME TypeStream, InGetBuffer
    PROVE  /\ pcIn = "get" /\ pcIn' = "use" /\ ~BatchEnds
           /\ \E k \in Slots :
                 /\ jIn' = k /\ Unused(cur[k]) /\ Claimed(cur'[k])
                 /\ OnlySlot(cur, cur', k)
                 /\ sseq' \in [Slots -> {sess.seq} \cup Int]
                 /\ sseq'[k] = sess.seq
                 /\ \A m \in Slots : m # k => sseq'[m] = sseq[m]
           /\ PtrKept
           /\ tmp' = [src |-> TakesSz(pos), dst |-> GivesSz(pos, req.dest - dptr)]
           /\ UNCHANGED <<callVars, sess, res, pos, dptr, num_retries, outVars,
                          devVars, dst, erred>>
<1>1. PICK k \in Slots :
        /\ FirstUnused(k, jIn)
        /\ jIn' = k
        /\ cur' = [cur EXCEPT ![k].src1 = @ + 1]
        /\ ptr' = [ptr EXCEPT ![k] = Lend(@)]
        /\ sseq' = [sseq EXCEPT ![k] = sess.seq]
  BY Zenon DEF InGetBuffer
<1>2. cur \in [Slots -> Cursors] /\ sseq \in [Slots -> Int] /\ k \in Slots
  BY <1>1 DEF TypeStream
<1>3. Unused(cur[k])
  BY <1>1, Zenon DEF FirstUnused
<1>4. OnlySlot(cur, cur', k) /\ Claimed(cur'[k])
  BY <1>1, <1>2, <1>3, CurSteps, Zenon
<1>5. cur'[k] \in Cursors /\ ~Unused(cur'[k])
  BY <1>2, <1>4, CursorStates DEF OnlySlot
<1>6. ASSUME ptr = PtrOf(cur) PROVE ptr' = PtrOf(cur')
  <2>1. PtrLent(ptr, ptr', k)
    BY <1>1, Zenon DEF PtrLent
  <2>. QED
    BY <1>2, <1>3, <1>4, <1>5, <1>6, <2>1, PtrMoves, Zenon
<1>7. /\ sseq' \in [Slots -> {sess.seq} \cup Int]
      /\ sseq'[k] = sess.seq
      /\ \A m \in Slots : m # k => sseq'[m] = sseq[m]
  <2>1. sseq' = [sseq EXCEPT ![k] = sess.seq]
    BY <1>1, Zenon
  <2>. QED
    BY <1>2, <2>1
<1>8. /\ pcIn = "get" /\ pcIn' = "use" /\ ~BatchEnds
      /\ tmp' = [src |-> TakesSz(pos), dst |-> GivesSz(pos, req.dest - dptr)]
      /\ UNCHANGED <<callVars, sess, res, pos, dptr, num_retries, outVars,
                     devVars, dst, erred>>
  BY Zenon DEF InGetBuffer
<1>. QED
  BY <1>1, <1>2, <1>3, <1>4, <1>6, <1>7, <1>8, Zenon DEF PtrKept

LEMMA InUseFacts ==
    ASSUME TypeStream, TypeIn, SlotInv, InUse
    PROVE  /\ pcIn = "use" /\ pcIn' = "submit"
           /\ Claimed(cur[jIn]) /\ InFlight(cur'[jIn])
           /\ OnlySlot(cur, cur', jIn) /\ PtrKept
           /\ UNCHANGED <<callVars, sess, ptr, sseq, res, jIn, pos, dptr, tmp,
                          num_retries, outVars, devVars, dst, erred>>
<1>1. /\ pcIn = "use" /\ pcIn' = "submit"
      /\ cur' = [cur EXCEPT ![jIn].src2 = @ + 1]
      /\ UNCHANGED <<callVars, sess, ptr, sseq, res, jIn, pos, dptr, tmp,
                     num_retries, outVars, devVars, dst, erred>>
  BY Zenon DEF InUse
<1>2. jIn \in Slots /\ cur \in [Slots -> Cursors]
  BY DEF TypeIn, TypeStream
<1>3. Claimed(cur[jIn])
  <2>1. pcIn = "use"
    BY <1>1
  <2>. QED
    BY <2>1, <1>2 DEF SlotInv, Held
<1>4. OnlySlot(cur, cur', jIn) /\ InFlight(cur'[jIn])
  BY <1>1, <1>2, <1>3, CurSteps, Zenon
<1>5. Unused(cur[jIn]) <=> Unused(cur'[jIn])
  <2>1. cur[jIn] \in Cursors /\ cur'[jIn] \in Cursors
    BY <1>2, <1>4 DEF OnlySlot
  <2>. QED
    BY <2>1, <1>3, <1>4, CursorStates
<1>6. ptr' = ptr
  BY <1>1, Zenon
<1>7. ASSUME ptr = PtrOf(cur) PROVE ptr' = PtrOf(cur')
  BY <1>2, <1>4, <1>5, <1>6, <1>7, PtrMoves, Zenon
<1>. QED
  BY <1>1, <1>3, <1>4, <1>7, Zenon DEF PtrKept

LEMMA InCleanUpFacts ==
    ASSUME TypeStream, TypeIn, SlotInv, InCleanUp
    PROVE  /\ pcIn = "cleanup" /\ pcIn' = "sw"
           /\ InFlight(cur[jIn]) /\ Unused(cur'[jIn])
           /\ OnlySlot(cur, cur', jIn) /\ PtrKept
           /\ UNCHANGED <<callVars, sess, sseq, res, jIn, pos, dptr, tmp,
                          num_retries, outVars, devVars, dst, erred>>
<1>1. /\ pcIn = "cleanup" /\ pcIn' = "sw"
      /\ cur' = [cur EXCEPT ![jIn].src1 = @ - 1, ![jIn].src2 = @ - 1]
      /\ ptr' = [ptr EXCEPT ![jIn] = Clean(@)]
      /\ UNCHANGED <<callVars, sess, sseq, res, jIn, pos, dptr, tmp,
                     num_retries, outVars, devVars, dst, erred>>
  BY Zenon DEF InCleanUp
<1>2. jIn \in Slots /\ cur \in [Slots -> Cursors]
  BY DEF TypeIn, TypeStream
<1>3. InFlight(cur[jIn])
  <2>1. pcIn = "cleanup"
    BY <1>1, Zenon
  <2>. QED
    BY <2>1, <1>2 DEF SlotInv, Held
<1>4. OnlySlot(cur, cur', jIn) /\ Unused(cur'[jIn])
  BY <1>1, <1>2, <1>3, CurSteps, Zenon
<1>5. ~Unused(cur[jIn])
  <2>1. cur[jIn] \in Cursors
    BY <1>2
  <2>. QED
    BY <2>1, <1>3, CursorStates
<1>7. ASSUME ptr = PtrOf(cur) PROVE ptr' = PtrOf(cur')
  <2>1. PtrCleaned(ptr, ptr', jIn)
    BY <1>1, Zenon DEF PtrCleaned
  <2>. QED
    BY <1>2, <1>4, <1>5, <1>7, <2>1, PtrMoves, Zenon
<1>. QED
  BY <1>1, <1>3, <1>4, <1>7, Zenon DEF PtrKept

LEMMA InSWFallbackFacts ==
    ASSUME TypeSess, InSWFallback
    PROVE  /\ pcIn = "sw" /\ SessStep({"stat"})
           /\ \/ /\ ~req.sw_backup \/ sess.single_thread
                 /\ pcIn' = "err" /\ sess'.stat = "FAIL"
              \/ /\ req.sw_backup /\ ~sess.single_thread /\ sess' = sess
                 /\ pcIn' = IF sess.stop_submitting THEN "err" ELSE "swseq"
           /\ UNCHANGED <<callVars, streamVars, jIn, pos, dptr, tmp,
                          num_retries, outVars, devVars, dst, erred>>
<1>1. /\ pcIn = "sw"
      /\ UNCHANGED <<callVars, streamVars, jIn, pos, dptr, tmp,
                     num_retries, outVars, devVars, dst, erred>>
      /\ \/ /\ ~req.sw_backup \/ sess.single_thread
            /\ pcIn' = "err" /\ sess' = [sess EXCEPT !.stat = "FAIL"]
         \/ /\ req.sw_backup /\ ~sess.single_thread /\ sess' = sess
            /\ pcIn' = IF sess.stop_submitting THEN "err" ELSE "swseq"
  BY Zenon DEF InSWFallback
<1>2. sess \in Sessions /\ "FAIL" \in Codes
  BY DEF TypeSess, Codes
<1>3. ASSUME sess' = [sess EXCEPT !.stat = "FAIL"]
      PROVE  SessStep({"stat"}) /\ sess'.stat = "FAIL"
  BY <1>2, <1>3, SetFailed, Zenon DEF SessStep
<1>4. ASSUME sess' = sess PROVE SessStep({"stat"})
  BY <1>2, <1>4 DEF SessStep, Alike
<1>. QED
  BY <1>1, <1>3, <1>4, Zenon

LEMMA InAdvanceFacts ==
    ASSUME TypeSess, InAdvance
    PROVE  /\ pcIn = "adv" /\ pos' = pos + tmp.src /\ dptr' = dptr + tmp.dst
           /\ SessStep({"seq", "last_submitted"})
           /\ sess'.seq = sess.seq + 1
           /\ LET last == \/ pos' = Total(req.mem) \/ req.stop
                          \/ sess.stop_submitting
              IN  /\ sess'.last_submitted <=> sess.last_submitted \/ last
                  /\ pcIn' = IF last THEN "done" ELSE "check"
           /\ UNCHANGED <<callVars, streamVars, jIn, tmp, num_retries, outVars,
                          devVars, dst, erred>>
<1>1. PICK last \in BOOLEAN : last <=> \/ pos' = Total(req.mem) \/ req.stop
                                       \/ sess.stop_submitting
  OBVIOUS
<1>2. /\ pcIn = "adv" /\ pos' = pos + tmp.src /\ dptr' = dptr + tmp.dst
      /\ pcIn' = IF last THEN "done" ELSE "check"
      /\ UNCHANGED <<callVars, streamVars, jIn, tmp, num_retries, outVars,
                     devVars, dst, erred>>
  BY <1>1, Zenon DEF InAdvance
<1>3. sess \in Sessions /\ sess.last_submitted \in BOOLEAN
  BY SessTyped DEF TypeSess
<1>4. PICK a \in Nat : a = sess.seq + 1
  BY <1>3, SessTyped
<1>5. PICK b \in BOOLEAN : b <=> sess.last_submitted \/ last
  OBVIOUS
<1>6. /\ last = (\/ pos' = Total(req.mem) \/ req.stop
                 \/ sess.stop_submitting)
  <2>1. req.stop \/ sess.stop_submitting \/ pos' = Total(req.mem) <=>
           last
    BY <1>1
  <2>. QED
    BY <1>1, <2>1
<1>7. b = (sess.last_submitted \/ last)
  BY <1>3, <1>5
<1>8. sess' = Numbered(sess, a, b)
  <2>1. sess' = [sess EXCEPT !.seq = @ + 1,
                             !.last_submitted = @ \/ last]
    BY <1>6, Zenon DEF InAdvance
  <2>2. sess = [f \in Fields |-> sess[f]]
    BY <1>3, SessShape
  <2>. QED
    BY <2>1, <2>2, <1>4, <1>7, ZenonT(60) DEF Fields, Numbered
<1>9. /\ sess' \in Sessions /\ Alike(sess', sess, {"seq", "last_submitted"})
      /\ sess'.seq = a /\ sess'.last_submitted = b
  <2>1. a \in Nat /\ b \in BOOLEAN
    BY <1>4, <1>5
  <2>2. IsNumbered(sess', sess, a, b)
    BY <1>3, <1>8, <2>1, SetNumbered, Zenon
  <2>. QED
    BY <2>2, Zenon DEF IsNumbered
<1>10. sess'.last_submitted <=> sess.last_submitted \/ last
  BY <1>5, <1>9
<1>11. SessStep({"seq", "last_submitted"}) /\ sess'.seq = sess.seq + 1
  BY <1>4, <1>9, Zenon DEF SessStep
<1>. QED
  BY <1>1, <1>2, <1>10, <1>11, Zenon

LEMMA InErrExitFacts ==
    ASSUME TypeSess, InErrExit
    PROVE  /\ pcIn = "err" /\ pcIn' = "done"
           /\ SessStep({"stop_submitting", "last_submitted"})
           /\ sess'.stop_submitting = TRUE /\ sess'.last_submitted = TRUE
           /\ UNCHANGED <<callVars, streamVars, jIn, pos, dptr, tmp,
                          num_retries, outVars, devVars, dst, erred>>
<1>1. /\ pcIn = "err" /\ pcIn' = "done"
      /\ sess' = [sess EXCEPT !.stop_submitting = TRUE,
                              !.last_submitted = TRUE]
      /\ UNCHANGED <<callVars, streamVars, jIn, pos, dptr, tmp,
                     num_retries, outVars, devVars, dst, erred>>
  BY Zenon DEF InErrExit
<1>2. sess \in Sessions /\ TRUE \in BOOLEAN
  BY DEF TypeSess
<1>3. /\ SessStep({"stop_submitting", "last_submitted"})
      /\ sess'.stop_submitting = TRUE /\ sess'.last_submitted = TRUE
  BY <1>1, <1>2, SetStopped, Zenon DEF SessStep
<1>. QED
  BY <1>1, <1>3, Zenon

LEMMA InSWDecompressFacts ==
    ASSUME TypeCall, TypeSess, TypeIn, StageInv, SpaceInv, InSWDecompress
    PROVE  /\ pcIn = "swdec" /\ caller = "run" /\ pos < Total(req.mem)
           /\ req.dest - dptr \in Nat \ {0} /\ sess' \in Sessions
           /\ \E r \in SwResults(SwOne(pos, req.dest - dptr)) :
                /\ SwAnswer(r, pos, req.dest - dptr)
                /\ dst' = Put(dst, dptr, pos, r.n, TRUE)
                /\ tmp' = [src |-> r.n, dst |-> r.n]
                /\ sess'.inflate = r.inflate /\ sess'.ipos = pos + r.n
                /\ sess'.force_sw <=> sess.force_sw \/ Deflate(req.fmt)
                /\ sess'.eos <=> /\ Deflate(req.fmt) /\ r.rc = "OK"
                                 /\ r.inflate = "null"
                /\ \/ /\ r.rc = "OK" /\ pcIn' = "adv"
                      /\ Alike(sess', sess, {"inflate", "ipos", "force_sw",
                                  "eos", "seq_in", "in_len", "out_len"})
                      /\ sess'.seq_in = sess.seq_in + 1
                      /\ sess'.in_len = sess.in_len + r.n
                      /\ sess'.out_len = sess.out_len + r.n
                   \/ /\ r.rc # "OK" /\ pcIn' = "err" /\ sess'.stat = "FAIL"
                      /\ Alike(sess', sess, {"inflate", "ipos", "force_sw",
                                  "eos", "stat"})
           /\ UNCHANGED <<callVars, streamVars, jIn, pos, dptr, num_retries,
                          outVars, devVars, erred>>
<1>1. /\ pcIn = "swdec"
      /\ UNCHANGED <<callVars, streamVars, jIn, pos, dptr, num_retries, outVars,
                     devVars, erred>>
  BY Zenon DEF InSWDecompress
<1>2. caller = "run" /\ calls > 0
  BY <1>1 DEF StageInv, TypeCall
<1>3. /\ sess \in Sessions /\ sess.inflate \in InflateStates
      /\ req.mem \in Sources /\ pos \in Nat /\ dptr \in Nat /\ req.dest \in Nat
  BY <1>2, SessTyped DEF TypeSess, TypeCall, TypeIn
<1>4. pos < Total(req.mem) /\ dptr < req.dest
  BY <1>1 DEF SpaceInv, SpaceCall, SpaceLive, Busy
<1>5. PICK room \in Nat : room = req.dest - dptr /\ room # 0
  BY <1>3, <1>4
<1>6. PICK r \in SwResults(SwOne(pos, room)) :
        /\ dst' = Put(dst, dptr, pos, r.n, TRUE)
        /\ tmp' = [src |-> r.n, dst |-> r.n]
        /\ IF r.rc = "OK"
           THEN /\ sess' = [SwSess(sess, pos, r) EXCEPT
                              !.seq_in = @ + 1,
                              !.in_len = @ + r.n, !.out_len = @ + r.n]
                /\ pcIn' = "adv"
           ELSE /\ sess' = [SwSess(sess, pos, r) EXCEPT !.stat = "FAIL"]
                /\ pcIn' = "err"
  BY <1>5, Zenon DEF InSWDecompress
<1>7. SwAnswer(r, pos, room)
  BY <1>3, <1>4, <1>5, <1>6, SwOneFact, Zenon
<1>8. r.n \in Nat /\ r.inflate \in InflateStates
  BY <1>7 DEF SwAnswer
<1>9. PICK s : s = SwSess(sess, pos, r)
  OBVIOUS
<1>10. SwEffect(s, sess, pos, r)
  BY <1>3, <1>8, <1>9, SwSessFact, ZenonT(30)
<1>11. s \in Sessions
  BY <1>10 DEF SwEffect
<1>12. CASE r.rc = "OK"
  <2>1. PICK a \in Nat : a = s.seq_in + 1
    BY <1>11, SessTyped
  <2>2. PICK b \in Nat : b = s.in_len + r.n
    BY <1>8, <1>11, CountedSum
  <2>3. PICK c \in Nat : c = s.out_len + r.n
    BY <1>8, <1>11, CountedSum
  <2>4. sess' = CountedIn(s, a, b, c)
    <3>1. sess' = [s EXCEPT !.seq_in = @ + 1,
                            !.in_len = @ + r.n, !.out_len = @ + r.n]
      BY <1>6, <1>9, <1>12, Zenon
    <3>2. s = [f \in Fields |-> s[f]]
      BY <1>11, SessShape
    <3>. QED
      BY <2>1, <2>2, <2>3, <3>1, <3>2, ZenonT(60) DEF Fields, CountedIn
  <2>5. IsCountedIn(sess', s, a, b, c)
    <3>1. a \in Nat /\ b \in Nat /\ c \in Nat
      BY <2>1, <2>2, <2>3
    <3>. QED
      BY <1>11, <2>4, <3>1, SetCountedIn, Zenon
  <2>6. /\ dst' = Put(dst, dptr, pos, r.n, TRUE)
        /\ tmp' = [src |-> r.n, dst |-> r.n] /\ pcIn' = "adv"
    BY <1>6, <1>12, Zenon
  <2>7. /\ sess' \in Sessions /\ sess'.inflate = r.inflate
        /\ sess'.ipos = pos + r.n
        /\ sess'.force_sw <=> sess.force_sw \/ Deflate(req.fmt)
        /\ sess'.eos <=> /\ Deflate(req.fmt) /\ r.rc = "OK"
                         /\ r.inflate = "null"
        /\ Alike(sess', sess, {"inflate", "ipos", "force_sw",
                                  "eos", "seq_in", "in_len", "out_len"})
        /\ sess'.seq_in = sess.seq_in + 1
        /\ sess'.in_len = sess.in_len + r.n
        /\ sess'.out_len = sess.out_len + r.n
    BY <1>10, <2>1, <2>2, <2>3, <2>5 DEF SwEffect, IsCountedIn, Alike
  <2>. QED
    BY <1>1, <1>2, <1>4, <1>5, <1>6, <1>7, <1>12, <2>6, <2>7, Zenon
<1>13. CASE r.rc # "OK"
  <2>1. sess' = [s EXCEPT !.stat = "FAIL"]
    BY <1>6, <1>9, <1>13, Zenon
  <2>2. "FAIL" \in Codes
    BY DEF Codes
  <2>3. sess' \in Sessions /\ Alike(sess', s, {"stat"}) /\ sess'.stat = "FAIL"
    BY <1>11, <2>1, <2>2, SetFailed, Zenon
  <2>6. /\ dst' = Put(dst, dptr, pos, r.n, TRUE)
        /\ tmp' = [src |-> r.n, dst |-> r.n] /\ pcIn' = "err"
    BY <1>6, <1>13, Zenon
  <2>7. /\ sess' \in Sessions /\ sess'.inflate = r.inflate
        /\ sess'.ipos = pos + r.n
        /\ sess'.force_sw <=> sess.force_sw \/ Deflate(req.fmt)
        /\ sess'.eos <=> /\ Deflate(req.fmt) /\ r.rc = "OK"
                         /\ r.inflate = "null"
        /\ Alike(sess', sess, {"inflate", "ipos", "force_sw", "eos", "stat"})
        /\ sess'.stat = "FAIL"
    BY <1>10, <2>3 DEF SwEffect, Alike
  <2>. QED
    BY <1>1, <1>2, <1>4, <1>5, <1>6, <1>7, <1>13, <2>6, <2>7, Zenon
<1>. QED
  BY <1>12, <1>13, Zenon

LEMMA OutCallbackFacts ==
    ASSUME TypeStream, TypeDev, SlotInv, OutCallback
    PROVE  /\ pcOut = "poll"
           /\ \E r \in hw :
                /\ r.st # "pending" /\ r \in Jobs /\ r.slot \in Slots
                /\ hw' = hw \ {r} /\ res' = [res EXCEPT ![r.slot] = r]
                /\ InFlight(cur[r.slot]) /\ Answered(cur'[r.slot])
                /\ OnlySlot(cur, cur', r.slot)
           /\ PtrKept
           /\ UNCHANGED <<callVars, sess, ptr, sseq, inVars, outVars,
                          heartbeat, events, dst, erred>>
<1>1. /\ pcOut = "poll"
      /\ UNCHANGED <<callVars, sess, ptr, sseq, inVars, outVars, heartbeat,
                     events, dst, erred>>
  BY Zenon DEF OutCallback
<1>2. PICK r \in hw :
        /\ r.st # "pending"
        /\ hw' = hw \ {r}
        /\ res' = [res EXCEPT ![r.slot] = r]
        /\ cur' = IF InFlight(cur[r.slot])
                  THEN [cur EXCEPT ![r.slot].sink1 = @ + 1] ELSE cur
  BY Zenon DEF OutCallback
<1>3. /\ r \in Jobs /\ r.slot \in Slots /\ InFlight(cur[r.slot])
      /\ cur \in [Slots -> Cursors]
  BY <1>2 DEF TypeDev, TypeStream, Jobs, SlotInv
<1>4. cur' = [cur EXCEPT ![r.slot].sink1 = @ + 1]
  BY <1>2, <1>3, Zenon
<1>5. OnlySlot(cur, cur', r.slot) /\ Answered(cur'[r.slot])
  BY <1>3, <1>4, CurSteps, Zenon
<1>6. Unused(cur[r.slot]) <=> Unused(cur'[r.slot])
  <2>1. cur[r.slot] \in Cursors /\ cur'[r.slot] \in Cursors
    BY <1>3, <1>5 DEF OnlySlot
  <2>. QED
    BY <2>1, <1>3, <1>5, CursorStates
<1>7. ptr' = ptr
  BY <1>1, Zenon
<1>8. ASSUME ptr = PtrOf(cur) PROVE ptr' = PtrOf(cur')
  BY <1>3, <1>5, <1>6, <1>7, <1>8, PtrMoves, Zenon
<1>. QED
  BY <1>1, <1>2, <1>3, <1>5, <1>8, Zenon DEF PtrKept

\* A buffer is taken off.
Responded(s) ==
    /\ Answered(cur[jOut]) /\ Unused(cur'[jOut])
    /\ OnlySlot(cur, cur', jOut) /\ PtrKept
    /\ sess' \in Sessions /\ Alike(sess', s, {"seq_in"})
    /\ sess'.seq_in = s.seq_in + 1
    /\ UNCHANGED <<sseq, res>>

LEMMA RespondFacts ==
    ASSUME TypeStream, jOut \in Slots, Answered(cur[jOut]),
           NEW s \in Sessions, Respond(s)
    PROVE  Responded(s)
<1>1. /\ ptr' = [ptr EXCEPT ![jOut] = Clean(@)]
      /\ cur' = [cur EXCEPT ![jOut].sink2 = @ + 1]
      /\ sess' = [s EXCEPT !.seq_in = @ + 1]
      /\ UNCHANGED <<sseq, res>>
  BY Zenon DEF Respond
<1>2. cur \in [Slots -> Cursors]
  BY DEF TypeStream
<1>3. OnlySlot(cur, cur', jOut) /\ Unused(cur'[jOut])
  BY <1>1, <1>2, CurSteps, Zenon
<1>4. ~Unused(cur[jOut])
  <2>1. cur[jOut] \in Cursors
    BY <1>2
  <2>. QED
    BY <2>1, CursorStates
<1>5. ASSUME ptr = PtrOf(cur) PROVE ptr' = PtrOf(cur')
  <2>1. PtrCleaned(ptr, ptr', jOut)
    BY <1>1, Zenon DEF PtrCleaned
  <2>. QED
    BY <1>2, <1>3, <1>4, <1>5, <2>1, PtrMoves, Zenon
<1>6. PICK a \in Nat : a = s.seq_in + 1
  BY CountedSum
<1>7. sess' = [s EXCEPT !.seq_in = a]
  <2>1. s = [f \in Fields |-> s[f]]
    BY SessShape
  <2>. QED
    BY <1>1, <1>6, <2>1, ZenonT(60) DEF Fields
<1>8. sess' \in Sessions /\ Alike(sess', s, {"seq_in"}) /\ sess'.seq_in = a
  <2>1. a \in Nat
    BY <1>6
  <2>. QED
    BY <1>7, <2>1, SetTaken, Zenon
<1>. QED
  BY <1>1, <1>3, <1>5, <1>6, <1>8, Zenon DEF Responded, PtrKept

LEMMA OutSkipFacts ==
    ASSUME TypeStream, TypeSess, TypeOut, SeqInv, OutSkip
    PROVE  /\ pcOut = "skip" /\ pcOut' = "scan" /\ jOut \in Slots
           /\ jOut' = jOut + 1 /\ Responded(sess)
           /\ UNCHANGED <<callVars, inVars, devVars, dst, erred>>
<1>1. /\ pcOut = "skip" /\ pcOut' = "scan" /\ jOut' = jOut + 1
      /\ Respond(sess)
      /\ UNCHANGED <<callVars, inVars, devVars, dst, erred>>
  BY Zenon DEF OutSkip
<1>2. jOut \in Slots /\ Answered(cur[jOut]) /\ sess \in Sessions
  BY <1>1 DEF TypeOut, SeqInv, SeqLive, SeqPlace, TypeSess
<1>. QED
  BY <1>1, <1>2, RespondFacts, Zenon

LEMMA OutSWFacts ==
    ASSUME TypeCall, TypeStream, TypeSess, TypeOut, TypeDev, StageInv, SlotInv,
           SeqInv, JobInv, SpaceInv, OutSW
    PROVE  LET p == req.off + sess.in_len
               room == res[jOut].room
           IN  /\ pcOut = "sw" /\ caller = "run" /\ jOut \in Slots
               /\ res[jOut] \in Live /\ p \in Nat /\ p < Total(req.mem)
               /\ Answered(cur[jOut]) /\ room \in Nat
               /\ \/ \E r \in SwResults(SwOne(p, room)) :
                     /\ SwAnswer(r, p, room) /\ req.sw_backup
                     /\ dst' = Put(dst, sess.out_len, p, r.n, TRUE)
                     /\ sess' \in Sessions
                     /\ sess'.inflate = r.inflate /\ sess'.ipos = p + r.n
                     /\ sess'.force_sw <=> sess.force_sw \/ Deflate(req.fmt)
                     /\ sess'.eos <=> /\ Deflate(req.fmt) /\ r.rc = "OK"
                                      /\ r.inflate = "null"
                     /\ \/ /\ r.rc = "OK" /\ pcOut' = "test"
                           /\ Alike(sess', sess, {"inflate", "ipos", "force_sw",
                                       "eos", "seq_in", "in_len", "out_len"})
                           /\ sess'.seq_in = sess.seq_in + 1
                           /\ sess'.in_len = sess.in_len + r.n
                           /\ sess'.out_len = sess.out_len + r.n
                           /\ OnlySlot(cur, cur', jOut) /\ Unused(cur'[jOut])
                           /\ PtrKept
                        \/ /\ r.rc # "OK" /\ pcOut' = "err" /\ cur' = cur
                           /\ Alike(sess', sess, {"inflate", "ipos", "force_sw",
                                       "eos"})
                  \/ pcOut' = "err" /\ UNCHANGED <<sess, cur, dst>>
               /\ UNCHANGED <<callVars, inVars, jOut, sseq, res, devVars, erred>>
<1>1. /\ pcOut = "sw"
      /\ UNCHANGED <<callVars, inVars, jOut, devVars, erred>>
  BY Zenon DEF OutSW
<1>2. /\ caller = "run" /\ calls > 0
  BY <1>1 DEF StageInv, TypeCall
<1>3. /\ sess \in Sessions /\ sess.inflate \in InflateStates
      /\ req.mem \in Sources /\ req.dest \in Nat
      /\ jOut \in Slots /\ Answered(cur[jOut])
  BY <1>1, <1>2, SessTyped DEF TypeSess, TypeCall, TypeOut, SeqInv, SeqLive, SeqPlace
<1>4. res[jOut] \in Live /\ res[jOut].room \in Nat /\ res[jOut].pos \in Nat
  <2>1. res[jOut] \in Jobs
    BY <1>3 DEF TypeStream
  <2>. QED
    BY <1>3, <2>1, LiveDef DEF Jobs
<1>5. PICK p \in Nat : p = req.off + sess.in_len /\ p < Total(req.mem)
  <2>1. /\ req.off \in Nat /\ sess.in_len \in Nat /\ Total(req.mem) \in Nat
    BY <1>3, SessTyped, TotalType DEF TypeCall
  <2>2. /\ req.off + sess.in_len <= res[jOut].pos
        /\ res[jOut].pos < Total(req.mem)
    BY <1>4 DEF SpaceInv, SpaceCall, SpaceLive, JobInv, JobOK
  <2>. QED
    BY <1>4, <2>1, <2>2
<1>6. PICK room \in Nat : room = res[jOut].room
  BY <1>4
<1>7. \/ /\ req.sw_backup
         /\ \E r \in SwResults(SwOne(p, room)) :
             /\ dst' = Put(dst, sess.out_len, p, r.n, TRUE)
             /\ IF r.rc = "OK"
                THEN /\ Respond([SwSess(sess, p, r) EXCEPT
                                   !.in_len = @ + r.n, !.out_len = @ + r.n])
                     /\ pcOut' = "test"
                ELSE /\ sess' = SwSess(sess, p, r)
                     /\ pcOut' = "err"
                     /\ UNCHANGED <<cur, sseq, res>>
      \/ pcOut' = "err" /\ UNCHANGED <<sess, cur, sseq, res, dst>>
  BY <1>5, <1>6, Zenon DEF OutSW
<1>8. ASSUME NEW r \in SwResults(SwOne(p, room))
      PROVE  /\ SwAnswer(r, p, room)
             /\ r.n \in Nat /\ r.inflate \in InflateStates
  <2>1. SwAnswer(r, p, room)
    BY <1>3, <1>5, <1>6, SwOneFact, Zenon
  <2>. QED
    BY <2>1 DEF SwAnswer
<1>9. ASSUME NEW r \in SwResults(SwOne(p, room)), r.rc # "OK",
             sess' = SwSess(sess, p, r)
      PROVE  /\ sess' \in Sessions
             /\ sess'.inflate = r.inflate /\ sess'.ipos = p + r.n
             /\ sess'.force_sw <=> sess.force_sw \/ Deflate(req.fmt)
             /\ sess'.eos <=> /\ Deflate(req.fmt) /\ r.rc = "OK"
                              /\ r.inflate = "null"
             /\ Alike(sess', sess, {"inflate", "ipos", "force_sw", "eos"})
  <2>1. SwEffect(sess', sess, p, r)
    BY <1>3, <1>5, <1>8, <1>9, SwSessFact, ZenonT(30)
  <2>. QED
    BY <2>1, Zenon DEF SwEffect
<1>10. ASSUME NEW r \in SwResults(SwOne(p, room)),
              Respond([SwSess(sess, p, r) EXCEPT
                         !.in_len = @ + r.n, !.out_len = @ + r.n])
       PROVE  /\ sess' \in Sessions
              /\ sess'.inflate = r.inflate /\ sess'.ipos = p + r.n
              /\ sess'.force_sw <=> sess.force_sw \/ Deflate(req.fmt)
              /\ sess'.eos <=> /\ Deflate(req.fmt) /\ r.rc = "OK"
                               /\ r.inflate = "null"
              /\ Alike(sess', sess, {"inflate", "ipos", "force_sw",
                          "eos", "seq_in", "in_len", "out_len"})
              /\ sess'.seq_in = sess.seq_in + 1
              /\ sess'.in_len = sess.in_len + r.n
              /\ sess'.out_len = sess.out_len + r.n
              /\ OnlySlot(cur, cur', jOut) /\ Unused(cur'[jOut])
              /\ PtrKept /\ UNCHANGED <<sseq, res>>
  <2>1. PICK s : s = SwSess(sess, p, r)
    OBVIOUS
  <2>2. SwEffect(s, sess, p, r)
    BY <1>3, <1>5, <1>8, <2>1, SwSessFact, ZenonT(30)
  <2>3. s \in Sessions
    BY <2>2 DEF SwEffect
  <2>4. PICK b \in Nat : b = s.in_len + r.n
    BY <1>8, <2>3, CountedSum
  <2>5. PICK c \in Nat : c = s.out_len + r.n
    BY <1>8, <2>3, CountedSum
  <2>6. PICK t : t = Counted(s, b, c)
    OBVIOUS
  <2>7. t = [SwSess(sess, p, r) EXCEPT !.in_len = @ + r.n, !.out_len = @ + r.n]
    <3>1. s = [f \in Fields |-> s[f]]
      BY <2>3, SessShape
    <3>2. t = [s EXCEPT !.in_len = @ + r.n, !.out_len = @ + r.n]
      BY <2>4, <2>5, <2>6, <3>1, ZenonT(60) DEF Fields, Counted
    <3>. QED
      BY <2>1, <3>2, Zenon
  <2>8. IsCounted(t, s, b, c)
    <3>1. b \in Nat /\ c \in Nat
      BY <2>4, <2>5
    <3>. QED
      BY <2>3, <2>6, <3>1, SetCounted, Zenon
  <2>9. t \in Sessions
    BY <2>8, Zenon DEF IsCounted
  <2>10. Respond(t)
    BY <1>10, <2>7, Zenon
  <2>11. Responded(t)
    BY <1>3, <2>9, <2>10, RespondFacts, Zenon
  <2>12. /\ sess' \in Sessions /\ Alike(sess', t, {"seq_in"})
         /\ sess'.seq_in = t.seq_in + 1
         /\ OnlySlot(cur, cur', jOut) /\ Unused(cur'[jOut])
         /\ PtrKept /\ UNCHANGED <<sseq, res>>
    BY <2>11, Zenon DEF Responded
  <2>. QED
    BY <2>2, <2>4, <2>5, <2>8, <2>12 DEF SwEffect, IsCounted, Alike
<1>11. CASE pcOut' = "err" /\ UNCHANGED <<sess, cur, sseq, res, dst>>
  BY <1>1, <1>2, <1>3, <1>4, <1>5, <1>6, <1>11, Zenon
<1>12. ASSUME req.sw_backup, NEW r \in SwResults(SwOne(p, room)),
             /\ dst' = Put(dst, sess.out_len, p, r.n, TRUE)
             /\ IF r.rc = "OK"
                THEN /\ Respond([SwSess(sess, p, r) EXCEPT
                                   !.in_len = @ + r.n, !.out_len = @ + r.n])
                     /\ pcOut' = "test"
                ELSE /\ sess' = SwSess(sess, p, r)
                     /\ pcOut' = "err"
                     /\ UNCHANGED <<cur, sseq, res>>
       PROVE  /\ SwAnswer(r, p, room) /\ req.sw_backup
              /\ dst' = Put(dst, sess.out_len, p, r.n, TRUE)
              /\ sess' \in Sessions
              /\ sess'.inflate = r.inflate /\ sess'.ipos = p + r.n
              /\ sess'.force_sw <=> sess.force_sw \/ Deflate(req.fmt)
              /\ sess'.eos <=> /\ Deflate(req.fmt) /\ r.rc = "OK"
                               /\ r.inflate = "null"
              /\ \/ /\ r.rc = "OK" /\ pcOut' = "test"
                    /\ Alike(sess', sess, {"inflate", "ipos", "force_sw",
                                "eos", "seq_in", "in_len", "out_len"})
                    /\ sess'.seq_in = sess.seq_in + 1
                    /\ sess'.in_len = sess.in_len + r.n
                    /\ sess'.out_len = sess.out_len + r.n
                    /\ OnlySlot(cur, cur', jOut) /\ Unused(cur'[jOut])
                    /\ PtrKept
                 \/ /\ r.rc # "OK" /\ pcOut' = "err" /\ cur' = cur
                    /\ Alike(sess', sess, {"inflate", "ipos", "force_sw",
                                "eos"})
              /\ UNCHANGED <<sseq, res>>
  <2>1. CASE r.rc = "OK"
    BY <1>8, <1>10, <1>12, <2>1, Zenon
  <2>2. CASE r.rc # "OK"
    BY <1>8, <1>9, <1>12, <2>2, Zenon
  <2>. QED
    BY <2>1, <2>2, Zenon
<1>. QED
  BY <1>1, <1>2, <1>3, <1>4, <1>5, <1>6, <1>7, <1>11, <1>12, Zenon

LEMMA ZlibFact ==
    ASSUME NEW q \in Sessions, NEW r, NEW s, s = ZlibGoesOn(q, r)
    PROVE  /\ s \in Sessions /\ Alike(s, q, {"last_submitted"})
           /\ s.last_submitted <=>
                 IF req.fmt # "zlib" THEN q.last_submitted
                 ELSE \/ r.n = r.src
                      \/ q.last_submitted /\ ~(q.single_thread /\ ~req.stop)
<1>0. TRUE \in BOOLEAN /\ FALSE \in BOOLEAN
  OBVIOUS
<1>a. q \in Sessions /\ Alike(q, q, {"last_submitted"})
  BY DEF Alike
<1>1. CASE req.fmt # "zlib"
  <2>1. s = q
    BY <1>1, Zenon DEF ZlibGoesOn
  <2>. QED
    BY <1>a, <1>1, <2>1, Zenon
<1>2. CASE req.fmt = "zlib" /\ r.n = r.src
  <2>1. s = [q EXCEPT !.last_submitted = TRUE]
    BY <1>2, Zenon DEF ZlibGoesOn
  <2>2. /\ s \in Sessions /\ Alike(s, q, {"last_submitted"})
        /\ s.last_submitted = TRUE
    BY <1>0, <2>1, SetSubmitted, Zenon
  <2>. QED
    BY <1>2, <2>2, Zenon
<1>3. CASE /\ req.fmt = "zlib" /\ r.n # r.src
           /\ q.single_thread /\ ~req.stop
  <2>1. s = [q EXCEPT !.last_submitted = FALSE]
    BY <1>3, Zenon DEF ZlibGoesOn
  <2>2. /\ s \in Sessions /\ Alike(s, q, {"last_submitted"})
        /\ s.last_submitted = FALSE
    BY <1>0, <2>1, SetSubmitted, Zenon
  <2>. QED
    BY <1>3, <2>2, Zenon
<1>4. CASE /\ req.fmt = "zlib" /\ r.n # r.src
           /\ ~(q.single_thread /\ ~req.stop)
  <2>1. s = q
    BY <1>4, Zenon DEF ZlibGoesOn
  <2>. QED
    BY <1>a, <1>4, <2>1, Zenon
<1>. QED
  BY <1>1, <1>2, <1>3, <1>4, Zenon

LEMMA OutCopyFacts ==
    ASSUME TypeStream, TypeSess, TypeOut, StageInv, SeqInv, OutCopy
    PROVE  LET r == res[jOut]
           IN  /\ pcOut = "copy" /\ caller = "run" /\ jOut \in Slots
               /\ r \in Live /\ r \in Jobs /\ Answered(cur[jOut])
               /\ dst' = IF r.lent THEN dst
                         ELSE Put(dst, sess.out_len, r.pos, r.n, r.st = "ok")
               /\ sess' \in Sessions
               /\ sess'.seq_in = sess.seq_in + 1
               /\ Alike(sess', sess, {"last_submitted", "seq_in", "in_len",
                           "out_len", "eos"})
               /\ sess'.last_submitted <=>
                     IF req.fmt # "zlib" THEN sess.last_submitted
                     ELSE \/ r.n = r.src
                          \/ /\ sess.last_submitted
                             /\ ~(sess.single_thread /\ ~req.stop)
               /\ OnlySlot(cur, cur', jOut) /\ Unused(cur'[jOut]) /\ PtrKept
               /\ \/ /\ Matches(r) /\ pcOut' = "test"
                     /\ sess'.in_len = sess.in_len + r.n
                     /\ sess'.out_len = sess.out_len + r.n
                     /\ sess'.eos = TRUE
                  \/ /\ ~Matches(r) /\ pcOut' = "stop"
                     /\ sess'.in_len = sess.in_len
                     /\ sess'.out_len = sess.out_len
                     /\ sess'.eos = sess.eos
               /\ UNCHANGED <<callVars, inVars, jOut, sseq, res, devVars, erred>>
<1>1. /\ pcOut = "copy"
      /\ UNCHANGED <<callVars, inVars, jOut, devVars, erred>>
  BY Zenon DEF OutCopy
<1>2. /\ caller = "run" /\ sess \in Sessions
      /\ jOut \in Slots /\ Answered(cur[jOut])
  BY <1>1 DEF TypeSess, TypeOut, SeqInv, SeqLive, SeqPlace, StageInv
<1>3. PICK r \in Jobs : r = res[jOut] /\ r \in Live
  BY <1>2, LiveDef DEF TypeStream
<1>4. PICK s : s = ZlibGoesOn(sess, r)
  OBVIOUS
<1>5. /\ s \in Sessions /\ Alike(s, sess, {"last_submitted"})
      /\ s.last_submitted <=>
                 IF req.fmt # "zlib" THEN sess.last_submitted
                 ELSE \/ r.n = r.src
                      \/ /\ sess.last_submitted
                         /\ ~(sess.single_thread /\ ~req.stop)
  BY <1>2, <1>4, ZlibFact, Zenon
<1>6. /\ dst' = IF r.lent THEN dst
                ELSE Put(dst, sess.out_len, r.pos, r.n, r.st = "ok")
      /\ \/ /\ Matches(r)
            /\ Respond([s EXCEPT !.in_len = @ + r.n, !.out_len = @ + r.n,
                                 !.eos = TRUE])
            /\ pcOut' = "test"
         \/ ~Matches(r) /\ Respond(s) /\ pcOut' = "stop"
  BY <1>3, <1>4, Zenon DEF OutCopy
<1>7. ASSUME Respond([s EXCEPT !.in_len = @ + r.n, !.out_len = @ + r.n,
                               !.eos = TRUE])
      PROVE  /\ \E t : /\ Responded(t)
                       /\ IsCountedEnd(t, s, s.in_len + r.n, s.out_len + r.n,
                                       TRUE)
  <2>0. r.n \in Nat
    BY <1>3 DEF Jobs
  <2>4. PICK b \in Nat : b = s.in_len + r.n
    BY <1>5, <2>0, CountedSum
  <2>5. PICK c \in Nat : c = s.out_len + r.n
    BY <1>5, <2>0, CountedSum
  <2>6. PICK t : t = CountedEnd(s, b, c, TRUE)
    OBVIOUS
  <2>7. t = [s EXCEPT !.in_len = @ + r.n, !.out_len = @ + r.n, !.eos = TRUE]
    <3>1. s = [f \in Fields |-> s[f]]
      BY <1>5, SessShape
    <3>. QED
      BY <2>4, <2>5, <2>6, <3>1, ZenonT(60) DEF Fields, CountedEnd
  <2>8. IsCountedEnd(t, s, b, c, TRUE)
    <3>1. b \in Nat /\ c \in Nat /\ TRUE \in BOOLEAN /\ s \in Sessions
      BY <1>5, <2>4, <2>5
    <3>. QED
      BY <2>6, <3>1, SetCountedEnd, Zenon
  <2>9. t \in Sessions
    BY <2>8, Zenon DEF IsCountedEnd
  <2>10. Respond(t)
    BY <1>7, <2>7, Zenon
  <2>11. Responded(t)
    BY <1>2, <2>9, <2>10, RespondFacts, Zenon
  <2>. QED
    BY <2>4, <2>5, <2>8, <2>11, Zenon
<1>8. CASE /\ Matches(r) /\ pcOut' = "test"
           /\ Respond([s EXCEPT !.in_len = @ + r.n, !.out_len = @ + r.n,
                                !.eos = TRUE])
  <2>1. PICK t : /\ Responded(t)
                 /\ IsCountedEnd(t, s, s.in_len + r.n, s.out_len + r.n, TRUE)
    BY <1>7, <1>8, Zenon
  <2>2. /\ sess' \in Sessions /\ Alike(sess', t, {"seq_in"})
        /\ sess'.seq_in = t.seq_in + 1
        /\ OnlySlot(cur, cur', jOut) /\ Unused(cur'[jOut])
        /\ PtrKept /\ UNCHANGED <<sseq, res>>
    BY <2>1, Zenon DEF Responded
  <2>3. /\ t.in_len = s.in_len + r.n /\ t.out_len = s.out_len + r.n
        /\ t.eos = TRUE /\ Alike(t, s, {"in_len", "out_len", "eos"})
    BY <2>1, Zenon DEF IsCountedEnd
  <2>4. /\ sess'.seq_in = sess.seq_in + 1
        /\ Alike(sess', sess, {"last_submitted", "seq_in", "in_len",
                    "out_len", "eos"})
        /\ sess'.last_submitted = s.last_submitted
        /\ sess'.in_len = sess.in_len + r.n
        /\ sess'.out_len = sess.out_len + r.n
        /\ sess'.eos = TRUE
    BY <1>5, <2>2, <2>3 DEF Alike
  <2>5. Matches(r) /\ pcOut' = "test"
    BY <1>8, Zenon
  <2>6. sess'.last_submitted <=>
                 IF req.fmt # "zlib" THEN sess.last_submitted
                 ELSE \/ r.n = r.src
                      \/ /\ sess.last_submitted
                         /\ ~(sess.single_thread /\ ~req.stop)
    BY <1>5, <2>4, Zenon
  <2>. QED
    BY <1>1, <1>2, <1>3, <1>6, <2>2, <2>4, <2>5, <2>6, Zenon
<1>9. CASE ~Matches(r) /\ Respond(s) /\ pcOut' = "stop"
  <2>1. Responded(s)
    BY <1>2, <1>5, <1>9, RespondFacts, Zenon
  <2>2. /\ sess' \in Sessions /\ Alike(sess', s, {"seq_in"})
        /\ sess'.seq_in = s.seq_in + 1
        /\ OnlySlot(cur, cur', jOut) /\ Unused(cur'[jOut])
        /\ PtrKept /\ UNCHANGED <<sseq, res>>
    BY <2>1, Zenon DEF Responded
  <2>4. /\ sess'.seq_in = sess.seq_in + 1
        /\ Alike(sess', sess, {"last_submitted", "seq_in", "in_len",
                    "out_len", "eos"})
        /\ sess'.last_submitted = s.last_submitted
        /\ sess'.in_len = sess.in_len
        /\ sess'.out_len = sess.out_len
        /\ sess'.eos = sess.eos
    BY <1>5, <2>2 DEF Alike
  <2>5. ~Matches(r) /\ pcOut' = "stop"
    BY <1>9, Zenon
  <2>6. sess'.last_submitted <=>
                 IF req.fmt # "zlib" THEN sess.last_submitted
                 ELSE \/ r.n = r.src
                      \/ /\ sess.last_submitted
                         /\ ~(sess.single_thread /\ ~req.stop)
    BY <1>5, <2>4, Zenon
  <2>. QED
    BY <1>1, <1>2, <1>3, <1>6, <2>2, <2>4, <2>5, <2>6, Zenon
<1>. QED
  BY <1>6, <1>8, <1>9, Zenon

LEMMA OutStopFacts ==
    ASSUME TypeSess, OutStop
    PROVE  /\ pcOut = "stop" /\ pcOut' = "scan" /\ jOut' = jOut + 1
           /\ SessStep({"stop_submitting", "stat"})
           /\ sess'.stop_submitting = TRUE /\ sess'.stat = "DATA_ERROR"
           /\ UNCHANGED <<callVars, streamVars, inVars, devVars, dst, erred>>
<1>1. /\ pcOut = "stop" /\ pcOut' = "scan" /\ jOut' = jOut + 1
      /\ sess' = [sess EXCEPT !.stop_submitting = TRUE, !.stat = "DATA_ERROR"]
      /\ UNCHANGED <<callVars, streamVars, inVars, devVars, dst, erred>>
  BY Zenon DEF OutStop
<1>2. sess \in Sessions /\ TRUE \in BOOLEAN /\ "DATA_ERROR" \in Codes
  BY DEF TypeSess, Codes
<1>3. /\ SessStep({"stop_submitting", "stat"})
      /\ sess'.stop_submitting = TRUE /\ sess'.stat = "DATA_ERROR"
  <2>1. sess' = Refused(sess, TRUE, "DATA_ERROR")
    BY <1>1, Zenon DEF Refused
  <2>2. IsRefused(sess', sess, TRUE, "DATA_ERROR")
    BY <1>2, <2>1, SetRefused, Zenon
  <2>. QED
    BY <2>2, Zenon DEF IsRefused, SessStep
<1>. QED
  BY <1>1, <1>3, Zenon

LEMMA OutTestFacts ==
    ASSUME TypeSess, OutTest
    PROVE  /\ pcOut = "test" /\ SessStep({"last_processed"})
           /\ \/ /\ sess.seq = sess.seq_in
                 /\ sess.single_thread \/ sess.last_submitted
                 /\ pcOut' = "done"
                 /\ sess'.last_processed = sess.last_submitted
              \/ pcOut' = "poll" /\ sess' = sess
           /\ UNCHANGED <<callVars, streamVars, inVars, jOut, devVars, dst,
                          erred>>
<1>1. /\ pcOut = "test"
      /\ \/ /\ sess.seq = sess.seq_in
            /\ sess.single_thread \/ sess.last_submitted
            /\ pcOut' = "done"
            /\ sess' = [sess EXCEPT !.last_processed = sess.last_submitted]
         \/ pcOut' = "poll" /\ UNCHANGED sess
      /\ UNCHANGED <<callVars, streamVars, inVars, jOut, devVars, dst, erred>>
  BY Zenon DEF OutTest
<1>2. sess \in Sessions /\ sess.last_submitted \in BOOLEAN
  BY SessTyped DEF TypeSess
<1>3. ASSUME sess' = [sess EXCEPT !.last_processed = sess.last_submitted]
      PROVE  /\ SessStep({"last_processed"})
             /\ sess'.last_processed = sess.last_submitted
  BY <1>2, <1>3, SetProcessed, Zenon DEF SessStep
<1>4. ASSUME sess' = sess PROVE SessStep({"last_processed"})
  BY <1>2, <1>4 DEF SessStep, Alike
<1>. QED
  BY <1>1, <1>3, <1>4, Zenon

\* The answer to a request.
JobFields == {"slot", "call", "st", "pos", "sz", "kind", "at", "src", "room",
              "n", "lent"}
AnswerTo(a, r) ==
    /\ a \in Jobs /\ a.slot = r.slot /\ a.pos = r.pos /\ a.sz = r.sz
    /\ a.kind = r.kind /\ a.at = r.at /\ a.src = r.src /\ a.room = r.room
    /\ a.lent = r.lent

LEMMA JobBuild ==
    ASSUME NEW r \in Jobs, NEW a, a = [f \in JobFields |-> a[f]],
           a.slot = r.slot, a.call = r.call, a.pos = r.pos, a.sz = r.sz,
           a.kind = r.kind, a.at = r.at, a.src = r.src, a.room = r.room,
           a.lent = r.lent, a.st \in JobStates, a.n \in Nat
    PROVE  AnswerTo(a, r)
<1>1. a = [slot |-> a.slot, call |-> a.call, st |-> a.st, pos |-> a.pos,
           sz |-> a.sz, kind |-> a.kind, at |-> a.at, src |-> a.src,
           room |-> a.room, n |-> a.n, lent |-> a.lent]
  BY DEF JobFields
<1>. QED
  BY <1>1 DEF Jobs, AnswerTo

LEMMA JobShape ==
    ASSUME NEW r \in Jobs PROVE r = [f \in JobFields |-> r[f]]
BY DEF Jobs, JobFields

HwCompleteEffect(r, a) ==
    /\ r \in Jobs /\ AnswerTo(a, r) /\ r.st = "pending"
    /\ hw' = (hw \ {r}) \cup {a}
    /\ \/ /\ r.kind \in {"ok", "bad"} /\ r.sz <= r.room /\ a.n = r.sz
          /\ a.st = IF r.kind = "ok" THEN "ok" ELSE "crc"
          /\ dst' = IF r.lent
                    THEN Put(dst, r.at, r.pos, r.sz, r.kind = "ok")
                    ELSE dst
       \/ a.n = r.n /\ a.st = "err" /\ dst' = dst

LEMMA HwCompleteFacts ==
    ASSUME TypeDev, HwComplete
    PROVE  /\ \E r \in hw : \E a : HwCompleteEffect(r, a)
           /\ UNCHANGED <<callVars, sess, streamVars, inVars, outVars,
                          heartbeat, events, erred>>
<1>1. PICK r \in hw :
        /\ r.st = "pending"
        /\ \/ /\ r.kind \in {"ok", "bad"} /\ r.sz <= r.room
              /\ hw' = (hw \ {r}) \cup
                     {[r EXCEPT !.n = r.sz,
                                !.st = IF r.kind = "ok" THEN "ok" ELSE "crc"]}
              /\ dst' = IF r.lent
                        THEN Put(dst, r.at, r.pos, r.sz, r.kind = "ok")
                        ELSE dst
           \/ /\ hw' = (hw \ {r}) \cup {[r EXCEPT !.st = "err"]}
              /\ dst' = dst
  BY Zenon DEF HwComplete
<1>2. r \in Jobs
  BY <1>1 DEF TypeDev
<1>3. r = [f \in JobFields |-> r[f]] /\ r.sz \in Nat /\ r.n \in Nat
  BY <1>2, JobShape DEF Jobs
<1>4. \E a : HwCompleteEffect(r, a)
  <2>1. CASE /\ r.kind \in {"ok", "bad"} /\ r.sz <= r.room
             /\ hw' = (hw \ {r}) \cup
                     {[r EXCEPT !.n = r.sz,
                                !.st = IF r.kind = "ok" THEN "ok" ELSE "crc"]}
             /\ dst' = IF r.lent
                       THEN Put(dst, r.at, r.pos, r.sz, r.kind = "ok")
                       ELSE dst
    <3>1. PICK v \in JobStates : v = IF r.kind = "ok" THEN "ok" ELSE "crc"
      BY DEF JobStates
    <3>2. PICK a : a = [r EXCEPT !.n = r.sz, !.st = v]
      OBVIOUS
    <3>3. /\ a = [f \in JobFields |-> a[f]] /\ a.n = r.sz /\ a.st = v
          /\ a.slot = r.slot /\ a.call = r.call /\ a.pos = r.pos
          /\ a.sz = r.sz /\ a.kind = r.kind /\ a.at = r.at /\ a.src = r.src
          /\ a.room = r.room /\ a.lent = r.lent
      BY <1>3, <3>2, ZenonT(60) DEF JobFields
    <3>4. AnswerTo(a, r)
      <4>1. v \in JobStates
        BY <3>1
      <4>. QED
        BY <1>2, <1>3, <3>3, <4>1, JobBuild, ZenonT(30)
    <3>5. hw' = (hw \ {r}) \cup {a}
      BY <2>1, <3>1, <3>2, Zenon
    <3>. QED
      BY <1>1, <1>2, <2>1, <3>1, <3>3, <3>4, <3>5, Zenon DEF HwCompleteEffect
  <2>2. CASE hw' = (hw \ {r}) \cup {[r EXCEPT !.st = "err"]} /\ dst' = dst
    <3>2. PICK a : a = [r EXCEPT !.st = "err"]
      OBVIOUS
    <3>3. /\ a = [f \in JobFields |-> a[f]] /\ a.n = r.n /\ a.st = "err"
          /\ a.slot = r.slot /\ a.call = r.call /\ a.pos = r.pos
          /\ a.sz = r.sz /\ a.kind = r.kind /\ a.at = r.at /\ a.src = r.src
          /\ a.room = r.room /\ a.lent = r.lent
      BY <1>3, <3>2, ZenonT(60) DEF JobFields
    <3>4. AnswerTo(a, r)
      <4>1. "err" \in JobStates
        BY DEF JobStates
      <4>. QED
        BY <1>2, <1>3, <3>3, <4>1, JobBuild, ZenonT(30)
    <3>5. hw' = (hw \ {r}) \cup {a}
      BY <2>2, <3>2, Zenon
    <3>. QED
      BY <1>1, <1>2, <2>2, <3>3, <3>4, <3>5, Zenon DEF HwCompleteEffect
  <2>. QED
    BY <1>1, <2>1, <2>2, Zenon
<1>. QED
  BY <1>1, <1>4, Zenon DEF HwComplete

-----------------------------------------------------------------------------
(* Type correctness.                                                       *)

LEMMA KeptType ==
    /\ TypeCall /\ callVars' = callVars /\ DOMAIN dst' = DOMAIN dst => TypeCall'
    /\ TypeSess /\ sess' = sess => TypeSess'
    /\ TypeStream /\ streamVars' = streamVars => TypeStream'
    /\ TypeIn /\ inVars' = inVars => TypeIn'
    /\ TypeOut /\ outVars' = outVars => TypeOut'
    /\ TypeDev /\ devVars' = devVars => TypeDev'
<1>1. TypeCall /\ callVars' = callVars /\ DOMAIN dst' = DOMAIN dst => TypeCall'
  BY DEF TypeCall, callVars, Intact
<1>2. TypeStream /\ streamVars' = streamVars => TypeStream'
  BY DEF TypeStream, streamVars
<1>3. TypeIn /\ inVars' = inVars => TypeIn'
  BY DEF TypeIn, inVars
<1>4. TypeOut /\ outVars' = outVars => TypeOut'
  BY DEF TypeOut, outVars
<1>5. TypeDev /\ devVars' = devVars => TypeDev'
  BY DEF TypeDev, devVars
<1>. QED
  BY <1>1, <1>2, <1>3, <1>4, <1>5 DEF TypeSess

LEMMA TotalPositive ==
    ASSUME NEW m \in Sources PROVE 0 < Total(m)
<1>1. Len(m) \in Nat \ {0} /\ 1 \in 1..Len(m) /\ 1 \in 0..Len(m)
      /\ Len(m) \in 0..Len(m)
  BY SourceType
<1>2. EndOf(m)[1] = EndOf(m)[0] + m[1].sz /\ EndOf(m)[0] = 0
  <2>1. EndOf(m)[1] = EndOf(m)[1-1] + m[1].sz
    BY <1>1, EndOfStep
  <2>. QED
    BY <2>1, EndOfStep
<1>3. m[1].sz \in Nat \ {0}
  BY <1>1, SourceType DEF Member
<1>4. EndOf(m)[1] <= Total(m) /\ Total(m) \in Nat /\ EndOf(m)[1] \in Nat
  BY <1>1, EndOfMonotone, TotalType, EndOfType DEF Total
<1>. QED
  BY <1>2, <1>3, <1>4

LEMMA CallType ==
    ASSUME NEW r, Call(r), TypeCall,
           r.mem \in Sources, r.off \in Nat, r.off < Total(r.mem),
           r.dest \in Nat, r.mode[1] \in FormatNames,
           r.mode[2] \subseteq {"src", "dst"},
           r.sw_backup \in BOOLEAN, r.stop \in BOOLEAN,
           r.mode[1] \in {"4b", "raw"} =>
               \A i \in 1..Len(r.mem) : r.mem[i].kind # "bad"
    PROVE  TypeCall'
<1>1. /\ caller' = "enter" /\ calls' = calls + 1 /\ calls \in Nat /\ ret' = ret
      /\ req' = [mem |-> r.mem, off |-> r.off, dest |-> r.dest,
               fmt |-> r.mode[1], pin |-> r.mode[2],
               sw_backup |-> r.sw_backup, stop |-> r.stop]
      /\ dst' = [i \in 1..(r.dest + HwBuffSz) |-> 0]
  BY DEF Call, TypeCall
<1>2. /\ req'.mem = r.mem /\ req'.off = r.off /\ req'.dest = r.dest
      /\ req'.fmt = r.mode[1] /\ req'.pin = r.mode[2]
      /\ req'.sw_backup = r.sw_backup /\ req'.stop = r.stop
  BY <1>1, Zenon
<1>3. DOMAIN dst' = 1..(req'.dest + HwBuffSz)
  BY <1>1, <1>2
<1>4. req'.sw_backup \in BOOLEAN /\ req'.stop \in BOOLEAN
  BY <1>2, Zenon
<1>5. req'.fmt \in {"4b", "raw"} => Intact'
  BY <1>2 DEF Intact
<1>6. /\ req'.pin \subseteq {"src", "dst"}
      /\ req'.fmt \in FormatNames
      /\ req'.off \in Nat /\ req'.dest \in Nat
      /\ req'.mem \in Sources /\ req'.off < Total(req'.mem)
  BY <1>2, Zenon
<1>7. ret'.rc \in Codes /\ ret'.src_len \in Nat /\ ret'.dest_len \in Nat
  BY <1>1 DEF TypeCall
<1>8. calls' \in Nat /\ calls' > 0
  BY <1>1
<1>. QED
  BY <1>1, <1>3, <1>4, <1>5, <1>6, <1>7, <1>8, Zenon DEF TypeCall

LEMMA CallNewType ==
    ASSUME TypeCall, CallNew PROVE TypeCall'
<1>1. PICK r \in Requests : Call(r)
  BY DEF CallNew
<1>2. /\ r \in [mem : Sources, off : {0}, dest : DestSizes, mode : Modes,
                sw_backup : SwBackups, stop : Stops]
      /\ r.mode[1] \in {"4b", "raw"} =>
           \A i \in 1..Len(r.mem) : r.mem[i].kind # "bad"
  BY <1>1 DEF Requests
<1>3. /\ r.mem \in Sources /\ r.off = 0 /\ r.dest \in DestSizes
      /\ r.mode \in Modes /\ r.sw_backup \in SwBackups /\ r.stop \in Stops
  BY <1>2
<1>4. /\ r.dest \in Nat /\ r.mode \in FormatNames \X SUBSET {"src", "dst"}
      /\ r.sw_backup \in BOOLEAN /\ r.stop \in BOOLEAN
  BY <1>3, DecompressAssumption
<1>5. r.mode[1] \in FormatNames /\ r.mode[2] \subseteq {"src", "dst"}
  BY <1>4
<1>6. r.off \in Nat /\ r.off < Total(r.mem)
  BY <1>3, TotalPositive
<1>. QED
  BY <1>1, <1>2, <1>3, <1>4, <1>5, <1>6, CallType, Zenon

LEMMA CallOnType ==
    ASSUME TypeCall, CallOn PROVE TypeCall'
<1>1. PICK d \in DestSizes :
          Call([mem |-> req.mem, off |-> req.off + ret.src_len, dest |-> d,
                mode |-> <<req.fmt, req.pin>>, sw_backup |-> req.sw_backup,
                stop |-> req.stop])
  BY DEF CallOn
<1>2. /\ calls > 0 /\ req.off + ret.src_len < Total(req.mem)
  BY DEF CallOn
<1>3. PICK r : r = [mem |-> req.mem, off |-> req.off + ret.src_len, dest |-> d,
                mode |-> <<req.fmt, req.pin>>, sw_backup |-> req.sw_backup,
                stop |-> req.stop]
  OBVIOUS
<1>4. /\ r.mem = req.mem /\ r.off = req.off + ret.src_len /\ r.dest = d
      /\ r.mode = <<req.fmt, req.pin>>
      /\ r.sw_backup = req.sw_backup /\ r.stop = req.stop
  BY <1>3, Zenon
<1>5. r.mode[1] = req.fmt /\ r.mode[2] = req.pin
  BY <1>4
<1>6. /\ req.mem \in Sources /\ d \in Nat /\ req.off \in Nat
      /\ ret.src_len \in Nat /\ req.fmt \in FormatNames
      /\ req.pin \subseteq {"src", "dst"}
  BY <1>1, <1>2, DecompressAssumption DEF TypeCall
<1>7. req.sw_backup \in BOOLEAN /\ req.stop \in BOOLEAN
  BY DEF TypeCall
<1>8. req.fmt \in {"4b", "raw"} =>
           \A i \in 1..Len(req.mem) : req.mem[i].kind # "bad"
  BY <1>2 DEF TypeCall, Intact
<1>9. r.off \in Nat /\ r.off < Total(r.mem) /\ r.dest \in Nat
  BY <1>2, <1>4, <1>6
<1>10. Call(r)
  BY <1>1, <1>3, Zenon
<1>11. /\ r.mem \in Sources /\ r.mode[1] \in FormatNames
       /\ r.mode[2] \subseteq {"src", "dst"}
       /\ r.sw_backup \in BOOLEAN /\ r.stop \in BOOLEAN
       /\ r.mode[1] \in {"4b", "raw"} =>
            \A i \in 1..Len(r.mem) : r.mem[i].kind # "bad"
  BY <1>4, <1>5, <1>6, <1>7, <1>8, Zenon
<1>. QED
  BY <1>9, <1>10, <1>11, CallType, Zenon

-----------------------------------------------------------------------------
(* Types.                                                                  *)

\* The error exit is the only step that sets erred, and none takes it back.
LEMMA ErredKept ==
    ASSUME Next PROVE erred' = erred \/ OutErrExit
<1>1. CASE CallNew
  BY <1>1, Zenon DEF CallNew, Call
<1>2. CASE CallOn
  BY <1>2, Zenon DEF CallOn, Call
<1>3. CASE EnterHW
  BY <1>3, Zenon DEF EnterHW
<1>4. CASE EnterSW
  BY <1>4, Zenon DEF EnterSW
<1>5. CASE EnterRefused
  BY <1>5, Zenon DEF EnterRefused
<1>6. CASE NextBatch
  BY <1>6, Zenon DEF NextBatch
<1>7. CASE FinishMismatch
  BY <1>7, Zenon DEF FinishMismatch, Return
<1>8. CASE FinishSW
  BY <1>8, Zenon DEF FinishSW, Return
<1>9. CASE Finish
  BY <1>9, Zenon DEF Finish, Return
<1>10. CASE InStart
  BY <1>10, Zenon DEF InStart
<1>11. CASE InCheck
  BY <1>11, Zenon DEF InCheck
<1>12. CASE InBatchEnd
  BY <1>12, Zenon DEF InBatchEnd
<1>13. CASE InGetBuffer
  BY <1>13, Zenon DEF InGetBuffer
<1>14. CASE InNoBuffer
  BY <1>14, Zenon DEF InNoBuffer
<1>15. CASE InUse
  BY <1>15, Zenon DEF InUse
<1>16. CASE InSubmit
  BY <1>16, Zenon DEF InSubmit
<1>17. CASE InCleanUp
  BY <1>17, Zenon DEF InCleanUp
<1>18. CASE InSWFallback
  BY <1>18, Zenon DEF InSWFallback
<1>19. CASE InSWPending
  BY <1>19, Zenon DEF InSWPending
<1>20. CASE InSWDecompress
  BY <1>20, Zenon DEF InSWDecompress
<1>21. CASE InAdvance
  BY <1>21, Zenon DEF InAdvance
<1>22. CASE InErrExit
  BY <1>22, Zenon DEF InErrExit
<1>23. CASE OutStart
  BY <1>23, Zenon DEF OutStart
<1>24. CASE OutCallback
  BY <1>24, Zenon DEF OutCallback
<1>25. CASE OutPolled
  BY <1>25, Zenon DEF OutPolled
<1>26. CASE OutPollFail
  BY <1>26, Zenon DEF OutPollFail
<1>27. CASE OutScan
  BY <1>27, Zenon DEF OutScan
<1>28. CASE OutSkip
  BY <1>28, Zenon DEF OutSkip
<1>29. CASE OutSW
  BY <1>29, Zenon DEF OutSW
<1>30. CASE OutCopy
  BY <1>30, Zenon DEF OutCopy
<1>31. CASE OutStop
  BY <1>31, Zenon DEF OutStop
<1>32. CASE OutTest
  BY <1>32, Zenon DEF OutTest
<1>33. CASE HwComplete
  BY <1>33, Zenon DEF HwComplete
<1>34. CASE FatalError
  BY <1>34, Zenon DEF FatalError
<1>35. CASE Restarted
  BY <1>35, Zenon DEF Restarted
<1>36. CASE Idle
  BY <1>36, Zenon DEF Idle, vars
<1>37. CASE OutReset
  BY <1>37, Zenon DEF OutReset
<1>. QED
  BY <1>1, <1>2, <1>3, <1>4, <1>5, <1>6, <1>7, <1>8, <1>9, <1>10, <1>11,
     <1>12, <1>13, <1>14, <1>15, <1>16, <1>17, <1>18, <1>19, <1>20, <1>21,
     <1>22, <1>23, <1>24, <1>25, <1>26, <1>27, <1>28, <1>29, <1>30, <1>31,
     <1>32, <1>33, <1>34, <1>35, <1>36, <1>37, Zenon
     DEF Next, CallerNext, InNext, OutNext

\* The steps that leave the error exit untaken.
LEMMA NextCases ==
    ASSUME Next, ~erred', TypeOut
    PROVE  /\ ~erred
           /\ \/ CallNew \/ CallOn \/ CallerNext \/ InNext \/ OutStart
              \/ OutCallback \/ OutPolled \/ OutPollFail \/ OutScan \/ OutSkip
              \/ OutSW \/ OutCopy \/ OutStop \/ OutTest \/ HwComplete
              \/ FatalError \/ Restarted \/ Idle
<1>1. ~OutErrExit
  BY Zenon DEF OutErrExit
<1>2. ~OutReset
  BY Zenon DEF OutReset, TypeOut
<1>3. erred' = erred
  BY <1>1, ErredKept
<1>. QED
  BY <1>1, <1>2, <1>3 DEF Next, OutNext

LEMMA CallerType ==
    ASSUME TypeInv, SpaceInv, CallerNext
    PROVE  TypeCall' /\ TypeSess'
<1>. USE DEF TypeInv
<1>1. CASE EnterHW
  <2>1. TypeSess'
    BY <1>1, EnterHWFacts DEF TypeSess
  <2>2. caller = "enter" /\ caller' = "run" /\ UNCHANGED <<calls, req, ret, dst>>
    BY <1>1, Zenon DEF EnterHW
  <2>. QED
    BY <2>1, <2>2 DEF TypeCall, Intact
<1>2. CASE EnterSW
  <2>1. PICK r \in SwResults(SwMulti(req.off, req.dest)) :
              /\ SwAnswer(r, req.off, req.dest)
              /\ SwEffect(sess', sess, req.off, r)
              /\ dst' = Put(dst, 0, req.off, r.n, TRUE)
              /\ ret' = [rc |-> r.rc, src_len |-> r.n, dest_len |-> r.n]
    BY <1>2, EnterSWFacts
  <2>2. /\ caller = "enter" /\ caller' = "idle"
        /\ UNCHANGED <<calls, req>>
    BY <1>2, EnterSWFacts
  <2>3. DOMAIN dst' = DOMAIN dst
    BY <2>1 DEF Put
  <2>4. ret'.rc \in Codes /\ ret'.src_len \in Nat /\ ret'.dest_len \in Nat
    BY <2>1 DEF SwAnswer, Codes
  <2>5. TypeCall'
    BY <2>2, <2>3, <2>4 DEF TypeCall, Intact
  <2>. QED
    BY <2>1, <2>5 DEF SwEffect, TypeSess
<1>3. CASE EnterRefused
  <2>1. /\ caller = "enter" /\ caller' = "idle"
        /\ ret' = [rc |-> IF MustGoSW THEN "FAIL" ELSE "NO_INST",
                   src_len |-> 0, dest_len |-> 0]
        /\ SessStep({"eos"}) /\ UNCHANGED <<calls, req, dst>>
    BY <1>3, EnterRefusedFacts
  <2>. QED
    BY <2>1 DEF TypeCall, Intact, TypeSess, SessStep, Codes
<1>4. CASE NextBatch
  BY <1>4, KeptType DEF NextBatch
<1>5. CASE FinishMismatch \/ Finish
  <2>1. /\ caller' = "idle" /\ UNCHANGED <<calls, req, sess, dst>>
        /\ \/ ret' = [rc |-> sess.stat, src_len |-> 0, dest_len |-> 0]
           \/ ret' = [rc |-> sess.stat, src_len |-> sess.in_len,
                      dest_len |-> sess.out_len]
    BY <1>5 DEF FinishMismatch, Finish, Return
  <2>2. sess.stat \in Codes /\ sess.in_len \in Nat /\ sess.out_len \in Nat
    BY SessTyped DEF TypeSess
  <2>3. ret'.rc \in Codes /\ ret'.src_len \in Nat /\ ret'.dest_len \in Nat
    BY <2>1, <2>2
  <2>. QED
    BY <2>1, <2>3 DEF TypeCall, Intact, TypeSess
<1>6. CASE FinishSW
  <2>1. /\ caller' = "idle" /\ UNCHANGED <<calls, req>>
        /\ ret' = [rc |-> sess'.stat, src_len |-> sess'.in_len,
                   dest_len |-> sess'.out_len]
    BY <1>6, FinishSWFacts
  <2> DEFINE p == req.off + sess.in_len
             room == req.dest - sess.out_len
  <2>5. \/ UNCHANGED dst /\ SessStep({"stat"})
        \/ \E r \in SwResults(SwMulti(p, room)) :
              /\ dst' = Put(dst, sess.out_len, p, r.n, TRUE)
              /\ \/ SwEffect(sess', sess, p, r)
                 \/ \E s : CountEffect(sess', s, r.n,
                                      {"in_len", "out_len", "stat"})
    BY <1>6, FinishSWFacts
  <2>6. DOMAIN dst' = DOMAIN dst
    BY <2>5 DEF Put
  <2>7. sess' \in Sessions
    BY <2>5 DEF SessStep, SwEffect, CountEffect
  <2>2. sess' \in Sessions /\ DOMAIN dst' = DOMAIN dst
    BY <2>6, <2>7
  <2>3. sess'.stat \in Codes /\ sess'.in_len \in Nat /\ sess'.out_len \in Nat
    BY <2>2, SessTyped
  <2>4. ret'.rc \in Codes /\ ret'.src_len \in Nat /\ ret'.dest_len \in Nat
    BY <2>1, <2>3
  <2>. QED
    BY <2>1, <2>2, <2>4 DEF TypeCall, Intact, TypeSess
<1>. QED
  BY <1>1, <1>2, <1>3, <1>4, <1>5, <1>6 DEF CallerNext

\* The sizes of a request, while the call lasts.
LEMMA SizesType ==
    ASSUME TypeCall, NEW p \in Nat, NEW room \in Nat, calls > 0,
           p < Total(req.mem)
    PROVE  /\ TakesSz(p) \in Nat /\ p + TakesSz(p) <= Total(req.mem)
           /\ GivesSz(p, room) \in Nat
           /\ TakesSz(p) = IF Whole THEN Total(req.mem) - p ELSE Rest(req.mem, p)
           /\ req.fmt \in {"ext", "gzip", "lz4"} => GivesSz(p, room) = TakesSz(p)
<1>1. /\ req.mem \in Sources /\ req.fmt \in FormatNames /\ req.dest \in Nat
      /\ HwBuffSz \in Nat
  BY DecompressAssumption DEF TypeCall
<1>2. /\ Total(req.mem) \in Nat /\ Rest(req.mem, p) \in Nat
      /\ p + Rest(req.mem, p) <= Total(req.mem)
  BY <1>1, TotalType, RestFact
<1>3. TakesSz(p) = IF Whole THEN Total(req.mem) - p ELSE Rest(req.mem, p)
  BY DEF TakesSz, Whole
<1>4. Min({HwBuffSz, room}) \in Nat
  BY <1>1, MinPair
<1>5. GivesSz(p, room) \in Nat
  BY <1>1, <1>2, <1>4 DEF GivesSz, FormatNames
<1>6. req.fmt \in {"ext", "gzip", "lz4"} => GivesSz(p, room) = TakesSz(p)
  BY DEF GivesSz, TakesSz
<1>. QED
  BY <1>2, <1>3, <1>5, <1>6

LEMMA InType ==
    ASSUME TypeInv, StageInv, SlotInv, SpaceInv, InNext
    PROVE  TypeInv'
<1>. USE DEF TypeInv
<1>0. pcIn # "done" => caller = "run"
  BY DEF StageInv
<1>1. CASE InStart
  <2>1. /\ pos' = req.off + sess.in_len /\ dptr' = sess.out_len
        /\ jIn' = 0 /\ pcIn' = "check"
        /\ UNCHANGED <<callVars, sess, streamVars, tmp, outVars, devVars, dst>>
    BY <1>1 DEF InStart
  <2>2. req.off \in Nat /\ sess.in_len \in Nat /\ sess.out_len \in Nat
    BY SessTyped DEF TypeCall, TypeSess
  <2>3. TypeIn'
    BY <2>1, <2>2, SlotsFact DEF TypeIn
  <2>. QED
    BY <2>1, <2>3, KeptType
<1>2. CASE InCheck
  <2>1. /\ pcIn' \in {"get", "sw", "err"} /\ sess' \in Sessions
        /\ UNCHANGED <<callVars, streamVars, jIn, pos, dptr, tmp, outVars,
                       devVars, dst>>
    BY <1>2, InCheckFacts DEF SessStep
  <2>2. TypeIn'
    BY <2>1 DEF TypeIn
  <2>. QED
    BY <2>1, <2>2, KeptType DEF TypeSess
<1>3. CASE InBatchEnd \/ InNoBuffer \/ InSWPending
  <2>1. /\ pcIn' \in {"done", "get", "check", "swdec"} /\ jIn' \in {0, jIn}
        /\ UNCHANGED <<callVars, sess, streamVars, pos, dptr, tmp, outVars,
                       devVars, dst>>
    BY <1>3 DEF InBatchEnd, InNoBuffer, InSWPending
  <2>2. TypeIn'
    BY <2>1, SlotsFact DEF TypeIn
  <2>. QED
    BY <2>1, <2>2, KeptType
<1>4. CASE InGetBuffer
  <2>1. /\ pcIn = "get" /\ pcIn' = "use"
        /\ tmp' = [src |-> TakesSz(pos), dst |-> GivesSz(pos, req.dest - dptr)]
        /\ UNCHANGED <<callVars, sess, res, pos, dptr, outVars, devVars, dst>>
    BY <1>4, InGetBufferFacts
  <2>2. PICK k \in Slots :
          /\ jIn' = k /\ OnlySlot(cur, cur', k)
          /\ sseq' \in [Slots -> {sess.seq} \cup Int]
    BY <1>4, InGetBufferFacts
  <2>3. sess.seq \in Int /\ calls > 0 /\ pos < Total(req.mem) /\ pos \in Nat
        /\ req.dest - dptr \in Nat
    <3>1. sess.seq \in Int
      BY SessTyped DEF TypeSess
    <3>2. pos \in Nat /\ dptr \in Nat /\ req.dest \in Nat /\ pcIn = "get"
      BY <2>1 DEF TypeCall, TypeIn
    <3>3. pos < Total(req.mem) /\ dptr < req.dest
      BY <3>2 DEF SpaceInv, SpaceCall, Busy
    <3>4. calls > 0
      BY <1>0, <3>2 DEF TypeCall
    <3>. QED
      BY <3>1, <3>2, <3>3, <3>4
  <2>4. tmp' \in [src : Nat, dst : Nat]
    BY <2>1, <2>3, SizesType
  <2>5. {sess.seq} \cup Int = Int
    BY <2>3
  <2>6. TypeStream'
    BY <2>1, <2>2, <2>5 DEF TypeStream, OnlySlot
  <2>7. TypeIn'
    BY <2>1, <2>2, <2>4 DEF TypeIn
  <2>. QED
    BY <2>1, <2>6, <2>7, KeptType
<1>5. CASE InUse \/ InCleanUp
  <2>1. /\ pcIn' \in {"submit", "sw"}
        /\ cur' \in [Slots -> Cursors]
        /\ UNCHANGED <<callVars, sess, sseq, res, jIn, pos, dptr, tmp, outVars,
                       devVars, dst>>
    BY <1>5, InUseFacts, InCleanUpFacts DEF OnlySlot
  <2>2. TypeIn' /\ TypeStream'
    BY <2>1 DEF TypeIn, TypeStream
  <2>. QED
    BY <2>1, <2>2, KeptType
<1>6. CASE InSubmit
  <2>1. /\ pcIn = "submit" /\ pcIn' \in {"adv", "cleanup", pcIn}
        /\ hw' \in {hw, hw \cup {Job(jIn)}}
        /\ UNCHANGED <<callVars, sess, streamVars, jIn, pos, dptr, tmp, outVars,
                       dst>>
    BY <1>6 DEF InSubmit
  <2>2. TypeIn'
    BY <2>1 DEF TypeIn
  <2>3. Job(jIn) \in Jobs
    <3>1. /\ req.mem \in Sources /\ pos \in Nat /\ pos < Total(req.mem)
          /\ calls \in Int
      BY <1>0, <2>1 DEF TypeCall, TypeIn, SpaceInv, SpaceCall, Busy
    <3>2. req.mem[MemberAt(req.mem, pos)] \in Member
      BY <3>1, MemberAtFact, SourceType
    <3>3. PICK m \in Member : m = req.mem[MemberAt(req.mem, pos)]
      BY <3>2
    <3>4. /\ m.sz \in Nat /\ m.kind \in Kinds /\ "nohdr" \in Kinds
          /\ "pending" \in JobStates
      BY DEF Member, Kinds, JobStates
    <3>5. /\ jIn \in Slots /\ dptr \in Nat /\ tmp.src \in Nat /\ tmp.dst \in Nat
      BY DEF TypeIn
    <3>. QED
      BY <3>1, <3>3, <3>4, <3>5 DEF Job, Jobs
  <2>4. TypeDev'
    BY <2>1, <2>3 DEF TypeDev
  <2>. QED
    BY <2>1, <2>2, <2>4, KeptType
<1>7. CASE InSWFallback
  <2>1. /\ pcIn' \in {"err", "swseq"} /\ sess' \in Sessions
        /\ UNCHANGED <<callVars, streamVars, jIn, pos, dptr, tmp, outVars,
                       devVars, dst>>
    BY <1>7, InSWFallbackFacts DEF SessStep
  <2>2. TypeIn'
    BY <2>1 DEF TypeIn
  <2>. QED
    BY <2>1, <2>2, KeptType DEF TypeSess
<1>8. CASE InSWDecompress
  <2>1. PICK r \in SwResults(SwOne(pos, req.dest - dptr)) :
          /\ SwAnswer(r, pos, req.dest - dptr)
          /\ dst' = Put(dst, dptr, pos, r.n, TRUE)
          /\ tmp' = [src |-> r.n, dst |-> r.n]
          /\ pcIn' \in {"adv", "err"}
    BY <1>8, InSWDecompressFacts
  <2>2. /\ sess' \in Sessions
        /\ UNCHANGED <<callVars, streamVars, jIn, pos, dptr, outVars, devVars>>
    BY <1>8, InSWDecompressFacts
  <2>3. DOMAIN dst' = DOMAIN dst
    BY <2>1 DEF Put
  <2>4. TypeIn'
    BY <2>1, <2>2 DEF TypeIn, SwAnswer
  <2>. QED
    BY <2>2, <2>3, <2>4, KeptType DEF TypeSess
<1>9. CASE InAdvance
  <2>1. /\ pos' = pos + tmp.src /\ dptr' = dptr + tmp.dst
        /\ pcIn' \in {"done", "check"} /\ sess' \in Sessions
        /\ UNCHANGED <<callVars, streamVars, jIn, tmp, outVars, devVars, dst>>
    BY <1>9, InAdvanceFacts DEF SessStep
  <2>2. TypeIn'
    BY <2>1 DEF TypeIn
  <2>. QED
    BY <2>1, <2>2, KeptType DEF TypeSess
<1>10. CASE InErrExit
  <2>1. /\ pcIn' = "done" /\ sess' \in Sessions
        /\ UNCHANGED <<callVars, streamVars, jIn, pos, dptr, tmp, outVars,
                       devVars, dst>>
    BY <1>10, InErrExitFacts DEF SessStep
  <2>2. TypeIn'
    BY <2>1 DEF TypeIn
  <2>. QED
    BY <2>1, <2>2, KeptType DEF TypeSess
<1>. QED
  BY <1>1, <1>2, <1>3, <1>4, <1>5, <1>6, <1>7, <1>8, <1>9, <1>10 DEF InNext

\* The steps of doDecompressOut before its error exit.
OutStep == OutStart \/ OutCallback \/ OutPolled \/ OutPollFail \/ OutScan
           \/ OutSkip \/ OutSW \/ OutCopy \/ OutStop \/ OutTest

LEMMA OutType ==
    ASSUME Inv, OutStep
    PROVE  TypeInv'
<1>. USE DEF Inv, TypeInv, ProtocolInv
<1>1. CASE OutStart \/ OutPolled \/ OutPollFail \/ OutScan
  <2>1. /\ pcOut' \in {"poll", "scan", "err", "test", "skip", "sw", "copy"}
        /\ jOut' \in {0, jOut} \cup Slots
        /\ pcOut' \in {"skip", "sw", "copy"} => jOut' \in Slots
        /\ UNCHANGED <<callVars, sess, streamVars, inVars, devVars, dst>>
    BY <1>1, SlotsFact DEF OutStart, OutPolled, OutPollFail, OutScan
  <2>2. TypeOut'
    BY <2>1, SlotsFact DEF TypeOut
  <2>. QED
    BY <2>1, <2>2, KeptType
<1>2. CASE OutCallback
  <2>1. PICK r \in hw : /\ r \in Jobs /\ r.slot \in Slots /\ hw' = hw \ {r}
                        /\ res' = [res EXCEPT ![r.slot] = r]
                        /\ OnlySlot(cur, cur', r.slot)
    BY <1>2, OutCallbackFacts
  <2>2. UNCHANGED <<callVars, sess, sseq, inVars, outVars, dst>>
    BY <1>2, OutCallbackFacts
  <2>3. TypeStream' /\ TypeDev'
    BY <2>1, <2>2 DEF TypeStream, TypeDev, OnlySlot
  <2>. QED
    BY <2>2, <2>3, KeptType
<1>3. CASE OutSkip
  <2>1. /\ pcOut' = "scan" /\ jOut \in Slots /\ jOut' = jOut + 1
        /\ sess' \in Sessions /\ cur' \in [Slots -> Cursors]
        /\ UNCHANGED <<callVars, inVars, devVars, dst, sseq, res>>
    BY <1>3, OutSkipFacts DEF Responded, OnlySlot
  <2>2. TypeOut' /\ TypeStream'
    BY <2>1, SlotsFact DEF TypeOut, TypeStream
  <2>. QED
    BY <2>1, <2>2, KeptType DEF TypeSess
<1>4. CASE OutSW
  <2>1. /\ pcOut = "sw"
        /\ UNCHANGED <<callVars, inVars, jOut, sseq, res, devVars>>
    BY <1>4, OutSWFacts
  <2>2. \/ \E at, p, n : /\ dst' = Put(dst, at, p, n, TRUE)
                         /\ sess' \in Sessions /\ pcOut' \in {"test", "err"}
                         /\ cur' = cur \/ OnlySlot(cur, cur', jOut)
        \/ pcOut' = "err" /\ UNCHANGED <<sess, cur, dst>>
    BY <1>4, OutSWFacts
  <2>3. DOMAIN dst' = DOMAIN dst /\ pcOut' \in {"test", "err"}
    BY <2>2 DEF Put
  <2>4. TypeSess'
    BY <2>2 DEF TypeSess
  <2>5. TypeStream' /\ TypeOut'
    BY <2>1, <2>2, <2>3 DEF TypeStream, TypeOut, OnlySlot
  <2>. QED
    BY <2>1, <2>3, <2>4, <2>5, KeptType
<1>5. CASE OutCopy
  <2>1. /\ pcOut' \in {"test", "stop"} /\ OnlySlot(cur, cur', jOut)
        /\ sess' \in Sessions
        /\ UNCHANGED <<callVars, inVars, jOut, sseq, res, devVars>>
    BY <1>5, OutCopyFacts
  <2>2. LET r == res[jOut]
        IN  dst' = IF r.lent THEN dst
                   ELSE Put(dst, sess.out_len, r.pos, r.n, r.st = "ok")
    BY <1>5, OutCopyFacts
  <2>3. DOMAIN dst' = DOMAIN dst
    BY <2>2 DEF Put
  <2>4. TypeStream' /\ TypeOut'
    BY <2>1 DEF TypeStream, TypeOut, OnlySlot
  <2>. QED
    BY <2>1, <2>3, <2>4, KeptType DEF TypeSess
<1>6. CASE OutStop
  <2>1. /\ pcOut' = "scan" /\ jOut' = jOut + 1 /\ sess' \in Sessions
        /\ UNCHANGED <<callVars, streamVars, inVars, devVars, dst>>
    BY <1>6, OutStopFacts DEF SessStep
  <2>2. TypeOut'
    BY <2>1 DEF TypeOut
  <2>. QED
    BY <2>1, <2>2, KeptType DEF TypeSess
<1>7. CASE OutTest
  <2>1. /\ pcOut' \in {"done", "poll"} /\ sess' \in Sessions
        /\ UNCHANGED <<callVars, streamVars, inVars, jOut, devVars, dst>>
    BY <1>7, OutTestFacts DEF SessStep
  <2>2. TypeOut'
    BY <2>1 DEF TypeOut
  <2>. QED
    BY <2>1, <2>2, KeptType DEF TypeSess
<1>. QED
  BY <1>1, <1>2, <1>3, <1>4, <1>5, <1>6, <1>7 DEF OutStep

\* The device and its event thread.
DevStep == HwComplete \/ FatalError \/ Restarted \/ UNCHANGED vars

LEMMA DevType ==
    ASSUME TypeInv, DevStep
    PROVE  TypeInv'
<1>. USE DEF TypeInv
<1>1. CASE HwComplete
  <2>1. UNCHANGED <<callVars, sess, streamVars, inVars, outVars>>
    BY <1>1, HwCompleteFacts
  <2>2. PICK r \in hw : \E a : HwCompleteEffect(r, a)
    BY <1>1, HwCompleteFacts
  <2>3. PICK a : HwCompleteEffect(r, a)
    BY <2>2
  <2>4. TypeDev'
    BY <2>3 DEF HwCompleteEffect, AnswerTo, TypeDev
  <2>6. DOMAIN dst' = DOMAIN dst
    BY <2>3 DEF HwCompleteEffect, Put
  <2>. QED
    BY <2>1, <2>4, <2>6, KeptType
<1>2. CASE FatalError \/ Restarted
  <2>1. UNCHANGED <<callVars, sess, streamVars, inVars, outVars, hw, dst>>
    BY <1>2 DEF FatalError, Restarted
  <2>. QED
    BY <2>1, KeptType DEF TypeDev
<1>3. CASE UNCHANGED vars
  BY <1>3, KeptType DEF vars, TypeDev, devVars
<1>. QED
  BY <1>1, <1>2, <1>3 DEF DevStep

\* Calls and their ends.
CallStep == CallNew \/ CallOn \/ CallerNext

LEMMA CallStepType ==
    ASSUME Inv, CallStep
    PROVE  TypeInv'
<1>. USE DEF Inv, TypeInv, ProtocolInv
<1>1. CASE CallNew \/ CallOn
  <2>1. UNCHANGED <<sess, streamVars, inVars, outVars, devVars>>
    BY <1>1 DEF CallNew, CallOn, Call
  <2>. QED
    BY <1>1, <2>1, CallNewType, CallOnType, KeptType
<1>2. CASE CallerNext
  <2>1. UNCHANGED <<streamVars, devVars, jIn, pos, dptr, tmp, jOut>>
    <3>1. CASE EnterHW
      BY <3>1, Zenon DEF EnterHW
    <3>2. CASE EnterSW
      BY <3>2, EnterSWFacts DEF inVars, outVars
    <3>3. CASE EnterRefused
      BY <3>3, EnterRefusedFacts DEF inVars, outVars
    <3>4. CASE NextBatch
      BY <3>4 DEF NextBatch
    <3>5. CASE FinishMismatch \/ Finish
      BY <3>5 DEF FinishMismatch, Finish, Return, inVars, outVars
    <3>6. CASE FinishSW
      BY <3>6, FinishSWFacts DEF inVars, outVars
    <3>. QED
      BY <1>2, <3>1, <3>2, <3>3, <3>4, <3>5, <3>6 DEF CallerNext
  <2>2. pcIn' \in {pcIn, "start"} /\ pcOut' \in {pcOut, "start"}
    <3>1. CASE EnterHW
      BY <3>1, Zenon DEF EnterHW
    <3>2. CASE EnterSW
      BY <3>2, EnterSWFacts DEF inVars, outVars
    <3>3. CASE EnterRefused
      BY <3>3, EnterRefusedFacts DEF inVars, outVars
    <3>4. CASE NextBatch
      BY <3>4 DEF NextBatch
    <3>5. CASE FinishMismatch \/ Finish
      BY <3>5 DEF FinishMismatch, Finish, Return, inVars, outVars
    <3>6. CASE FinishSW
      BY <3>6, FinishSWFacts DEF inVars, outVars
    <3>. QED
      BY <1>2, <3>1, <3>2, <3>3, <3>4, <3>5, <3>6 DEF CallerNext
  <2>3. TypeIn' /\ TypeOut'
    BY <2>1, <2>2 DEF TypeIn, TypeOut
  <2>. QED
    BY <1>2, <2>1, <2>3, KeptType, CallerType
<1>. QED
  BY <1>1, <1>2 DEF CallStep

-----------------------------------------------------------------------------
(* What a step may leave alone.                                            *)

HeldStages == {"use", "submit", "cleanup"}

LEMMA NextType ==
    ASSUME TypeInv
    PROVE  /\ sess.seq \in Nat /\ sess.seq_in \in Nat
           /\ sess.in_len \in Nat /\ sess.out_len \in Nat
           /\ NextSeq \in Nat /\ NextPos \in Nat /\ NextDst \in Nat
<1>1. /\ sess.seq \in Nat /\ sess.seq_in \in Nat
      /\ sess.in_len \in Nat /\ sess.out_len \in Nat
  BY SessTyped DEF TypeInv, TypeSess
<1>2. pos \in Nat /\ dptr \in Nat /\ tmp.src \in Nat /\ tmp.dst \in Nat
  BY DEF TypeInv, TypeIn
<1>. QED
  BY <1>1, <1>2 DEF NextSeq, NextPos, NextDst

\* When every number given out has been taken back nothing is live.
LEMMA NoneLive ==
    ASSUME TypeInv, SeqLive, sess.seq_in = NextSeq
    PROVE  Live = {}
<1>1. SUFFICES ASSUME NEW r \in Live PROVE FALSE
  OBVIOUS
<1>2. sess.seq_in <= sseq[r.slot] /\ sseq[r.slot] < NextSeq
  BY DEF SeqLive
<1>3. r.slot \in Slots /\ sseq[r.slot] \in Int
  BY <1>1 DEF Live, TypeInv, TypeDev, TypeStream, Jobs
<1>. QED
  BY <1>2, <1>3, NextType

\* Outside a call nothing is live, and no buffer is used.
LEMMA NothingUsed ==
    ASSUME TypeInv, SlotInv, Live = {}, pcIn \notin HeldStages
    PROVE  hw = {} /\ \A k \in Slots : Unused(cur[k])
<1>1. hw = {}
  BY DEF Live
<1>2. \A k \in Slots : ~Held(k)
  BY DEF Held, HeldStages
<1>. QED
  BY <1>1, <1>2, SlotIdle DEF TypeInv

LEMMA Resting ==
    ASSUME TypeInv, StageInv, SlotInv, SeqLive, PtrInv, pcOut = "done"
    PROVE  /\ Live = {} /\ hw = {} /\ pcIn = "done"
           /\ \A k \in Slots : Unused(cur[k]) /\ ptr[k] = AtRest
<1>1. pcIn = "done" /\ sess.seq = sess.seq_in
  BY DEF StageInv
<1>2. Live = {}
  BY <1>1, NoneLive DEF NextSeq
<1>3. hw = {} /\ \A k \in Slots : Unused(cur[k])
  BY <1>1, <1>2, NothingUsed DEF HeldStages
<1>4. ptr = PtrOf(cur)
  BY DEF PtrInv
<1>. QED
  BY <1>1, <1>2, <1>3, <1>4 DEF PtrOf

\* Where nothing is live before and after a step, every relation between
\* the live requests holds.
LEMMA EmptyKept ==
    ASSUME Live' = {}, sess'.seq_in \in Nat, NextSeq' = sess'.seq_in
    PROVE  SeqLive' /\ JobInv' /\ SpaceLive'
<1>1. SeqLive'
  BY DEF SeqLive
<1>. QED
  BY <1>1 DEF JobInv, SpaceLive

\* A step that touches neither the live requests nor the counters.
Still ==
    /\ Live' = Live /\ \A r \in Live : sseq'[r.slot] = sseq[r.slot]
    /\ req' = req /\ sess'.seq_in = sess.seq_in
    /\ sess'.in_len = sess.in_len /\ sess'.out_len = sess.out_len
    /\ NextSeq' = NextSeq /\ NextPos' = NextPos /\ NextDst' = NextDst

LEMMA StillKept ==
    ASSUME SeqLive, JobInv, SpaceLive, Still
    PROVE  SeqLive' /\ JobInv' /\ SpaceLive'
<1>. USE DEF Still
<1>1. SeqLive'
  BY DEF SeqLive
<1>2. JobInv'
  BY DEF JobInv, JobOK, Whole
<1>3. SpaceLive'
  BY DEF SpaceLive
<1>. QED
  BY <1>1, <1>2, <1>3

\* A request is submitted where the last one ends.
Submitted(a) ==
    /\ a \in Jobs /\ Live' = Live \cup {a} /\ a.st = "pending"
    /\ \A r \in Live : r.slot \in Slots /\ sseq[r.slot] \in Int
                       /\ sseq[r.slot] < NextSeq
    /\ UNCHANGED <<req, sess, sseq, dst>>
    /\ sseq[a.slot] = NextSeq /\ NextSeq' = NextSeq + 1
    /\ a.pos = NextPos /\ NextPos' = a.pos + a.src
    /\ a.at = NextDst /\ NextDst' = a.at + a.room

\* The answer to seq_in is taken off.
Took ==
    /\ Live' = Live \ {res[jOut]}
    /\ UNCHANGED <<caller, req, sseq, pcIn>>
    /\ sess'.seq_in = sess.seq_in + 1
    /\ NextSeq' = NextSeq /\ NextPos' = NextPos /\ NextDst' = NextDst

\* With nothing live, n units are decompressed by doDecompressIn itself.
Softly(n) ==
    /\ Live = {} /\ Live' = {} /\ NextPos = pos /\ NextDst = dptr
    /\ UNCHANGED <<caller, req>>
    /\ NextPos' = pos + n /\ NextDst' = dptr + n
    /\ sess'.in_len = sess.in_len + n /\ sess'.out_len = sess.out_len + n

\* The device answers request r with a.
AnsweredWith(r, a) ==
    /\ r \in Live /\ a \in Jobs /\ Live' = (Live \ {r}) \cup {a}
    /\ a.slot = r.slot /\ a.pos = r.pos /\ a.src = r.src
    /\ a.at = r.at /\ a.room = r.room /\ r.st = "pending"
    /\ UNCHANGED <<caller, req, sess, sseq, pcIn, pcOut, jOut>>
    /\ NextSeq' = NextSeq /\ NextPos' = NextPos /\ NextDst' = NextDst

\* A step that leaves the buffers alone.
LEMMA SlotKept ==
    ASSUME SlotInv, cur' = cur, hw' = hw, res' = res,
           \A k \in Slots : Held(k)' <=> Held(k),
           \A r \in hw : r.slot \in Slots,
           pcIn' = "use" <=> pcIn = "use"
    PROVE  SlotInv' /\ Live' = Live
<1>1. Live' = Live
  BY LiveSame
<1>2. SlotInv'
  BY DEF SlotInv
<1>. QED
  BY <1>1, <1>2

LEMMA PtrSame ==
    ASSUME PtrInv, PtrKept, req' = req, pcOut' # "err" => pcOut # "err"
    PROVE  PtrInv'
<1>1. PtrOf(cur)' = PtrOf(cur')
  BY DEF PtrOf, Lend
<1>. QED
  BY <1>1 DEF PtrInv, PtrKept

LEMMA PtrStill ==
    ASSUME PtrInv, cur' = cur, ptr' = ptr, req' = req,
           pcOut' # "err" => pcOut # "err"
    PROVE  PtrInv'
BY PtrSame DEF PtrKept

-----------------------------------------------------------------------------
(* doDecompressIn, the steps that leave the stream buffers alone.          *)

\* The invariant but for the types.
RelInv == ProtocolInv /\ JobInv /\ SpaceInv /\ FitInv

\* What holds in every step of doDecompressIn, and what its quiet steps keep.
LEMMA Running ==
    ASSUME Inv, pcIn # "done"
    PROVE  /\ caller = "run" /\ pcOut # "done" /\ calls > 0
           /\ sess.last_processed = FALSE
           /\ sess.single_thread => pcOut = "start"
<1>1. caller = "run" /\ pcOut # "done"
  BY DEF Inv, ProtocolInv, StageInv
<1>2. calls > 0 /\ sess.last_processed \in BOOLEAN
  BY <1>1, SessTyped DEF Inv, TypeInv, TypeCall, TypeSess
<1>. QED
  BY <1>1, <1>2 DEF Inv, ProtocolInv, StageInv

LEMMA QuietIn ==
    ASSUME Inv, pcIn # "done", pcIn \notin HeldStages, pcIn' \notin HeldStages,
           UNCHANGED <<streamVars, outVars, devVars, req>>
    PROVE  /\ Live' = Live /\ SlotInv' /\ PtrInv'
           /\ dst' = dst => FitInv'
           /\ \A k \in Slots : ~Held(k) /\ ~Held(k)'
           /\ UNCHANGED <<cur, ptr, sseq, res, pcOut, jOut, hw>>
<1>1. UNCHANGED <<cur, ptr, sseq, res, pcOut, jOut, hw>>
  BY DEF streamVars, outVars, devVars
<1>2. \A k \in Slots : ~Held(k) /\ ~Held(k)'
  BY DEF Held, HeldStages
<1>3. \A r \in hw : r.slot \in Slots
  BY DEF Inv, TypeInv, TypeDev, Jobs
<1>4. SlotInv' /\ Live' = Live
  BY <1>1, <1>2, <1>3, SlotKept DEF Inv, ProtocolInv, HeldStages
<1>5. PtrInv'
  BY <1>1, PtrStill DEF Inv, ProtocolInv
<1>6. dst' = dst => FitInv'
  BY DEF Inv, FitInv, FitsDestination
<1>. QED
  BY <1>1, <1>2, <1>4, <1>5, <1>6

LEMMA InStartStep ==
    ASSUME Inv, InStart 
    PROVE  /\ RelInv' /\ Live' = {}
           /\ NextPos' = req'.off + sess'.in_len /\ NextDst' = sess'.out_len
<1>. USE DEF Inv, ProtocolInv
<1>1. /\ pcIn = "start" /\ pcIn' = "check"
      /\ pos' = req.off + sess.in_len /\ dptr' = sess.out_len
      /\ UNCHANGED <<callVars, sess, streamVars, outVars, devVars, dst>>
  BY DEF InStart
<1>2. /\ caller = "run" /\ pcOut # "done" /\ calls > 0
      /\ sess.last_processed = FALSE
      /\ sess.single_thread => pcOut = "start"
  BY <1>1, Running
<1>3. UNCHANGED <<caller, req>>
  BY <1>1 DEF callVars
<1>4. /\ Live' = Live /\ SlotInv' /\ PtrInv' /\ FitInv'
      /\ \A k \in Slots : ~Held(k) /\ ~Held(k)'
      /\ UNCHANGED <<cur, ptr, sseq, res, pcOut, jOut, hw>>
  BY <1>1, <1>3, QuietIn DEF HeldStages
<1>5. sess.seq = sess.seq_in
  BY <1>1 DEF SeqInv, SeqPlace
<1>6. Live = {} /\ sess.seq_in \in Nat
  BY <1>1, <1>5, NoneLive, NextType DEF NextSeq, SeqInv
<1>7. SeqLive' /\ JobInv' /\ SpaceLive'
  BY <1>1, <1>4, <1>5, <1>6, EmptyKept DEF NextSeq
<1>8. SeqPlace'
  BY <1>1, <1>4 DEF SeqInv, SeqPlace
<1>9. StageInv' /\ LastInv'
  BY <1>1, <1>2, <1>3, <1>4 DEF StageInv, LastInv
<1>10. WholeInv'
  BY <1>1, <1>4, <1>6 DEF WholeInv
<1>11. /\ req.off + sess.in_len <= Total(req.mem) /\ sess.out_len <= req.dest
       /\ req.off \in Nat /\ sess.in_len \in Nat /\ sess.out_len \in Nat
  BY <1>2, NextType DEF SpaceInv, SpaceCall, TypeInv, TypeCall
<1>12. SpaceCall'
  BY <1>1, <1>2, <1>3, <1>11 DEF SpaceCall, SpaceInv, Busy, NextPos, NextDst
<1>. QED
  BY <1>1, <1>3, <1>4, <1>6, <1>7, <1>8, <1>9, <1>10, <1>12
     DEF RelInv, NextPos, NextDst, SeqInv, SpaceInv

LEMMA CheckHeaderFact ==
    ASSUME NEW p, NEW room, CheckHeader(p, room) \in {"OK", "FORCE_SW"}
    PROVE  /\ ~(p >= Total(req.mem) \/ room <= 0)
           /\ CheckHeader(p, room) = "OK" => ~(GivesSz(p, room) > room)
<1>1. ~(p >= Total(req.mem) \/ room <= 0)
  BY Zenon DEF CheckHeader
<1>2. ASSUME CheckHeader(p, room) = "OK", GivesSz(p, room) > room PROVE FALSE
  <2> DEFINE m == req.mem[MemberAt(req.mem, p)]
             over == TakesSz(p) > CompLimit \/ GivesSz(p, room) > HwBuffSz
             c1 == sess.force_sw
             c2 == ~sess.force_sw /\ req.fmt \in {"ext", "lz4"}
                   /\ (m.kind = "nohdr" \/ ~AtStart(req.mem, p))
             v == IF m.kind = "trunc" /\ req.fmt = "lz4" THEN "DATA_ERROR"
                    ELSE IF over
                    THEN IF req.sw_backup THEN "FORCE_SW" ELSE "FAIL"
                    ELSE IF m.kind = "trunc" /\ req.fmt \in {"ext", "4b"}
                    THEN "DATA_ERROR"
                    ELSE IF GivesSz(p, room) > room THEN "BUF_ERROR" ELSE "OK"
  <2>1. CheckHeader(p, room) = CASE c1 -> "FORCE_SW" [] c2 -> "FAIL"
                                 [] OTHER -> v
    BY <1>1 DEF CheckHeader
  <2>2. v # "OK"
    BY <1>2
  <2>. HIDE DEF c1, c2, v
  <2>. QED
    BY <1>2, <2>1, <2>2
<1>. QED
  BY <1>1, <1>2

LEMMA InCheckStep ==
    ASSUME Inv, InCheck PROVE RelInv' /\ Still
<1>. USE DEF Inv, ProtocolInv
<1>1. /\ pcIn = "check" /\ pcIn' \in {"get", "sw", "err"}
      /\ SessStep({"force_sw", "stat"})
      /\ UNCHANGED <<callVars, streamVars, jIn, pos, dptr, tmp, outVars,
                     devVars, dst>>
      /\ pcIn' = "get" => CheckHeader(pos, req.dest - dptr) = "OK"
      /\ pcIn' = "sw" => CheckHeader(pos, req.dest - dptr) \in {"OK", "FORCE_SW"}
  BY InCheckFacts DEF TypeInv
<1>2. /\ caller = "run" /\ pcOut # "done" /\ calls > 0
      /\ sess.last_processed = FALSE
      /\ sess.single_thread => pcOut = "start"
  BY <1>1, Running
<1>3. UNCHANGED <<caller, req>>
  BY <1>1 DEF callVars
<1>4. /\ Live' = Live /\ SlotInv' /\ PtrInv' /\ FitInv'
      /\ \A k \in Slots : ~Held(k) /\ ~Held(k)'
      /\ UNCHANGED <<cur, ptr, sseq, res, pcOut, jOut, hw>>
  BY <1>1, <1>3, QuietIn DEF HeldStages
<1>5. /\ sess'.seq = sess.seq /\ sess'.seq_in = sess.seq_in
      /\ sess'.in_len = sess.in_len /\ sess'.out_len = sess.out_len
      /\ sess'.last_submitted = sess.last_submitted
      /\ sess'.last_processed = sess.last_processed
      /\ sess'.single_thread = sess.single_thread
  BY <1>1 DEF SessStep, Alike
<1>6. Still
  BY <1>1, <1>3, <1>4, <1>5 DEF Still, NextSeq, NextPos, NextDst
<1>7. SeqLive' /\ JobInv' /\ SpaceLive'
  BY <1>6, StillKept DEF SeqInv, SpaceInv
<1>8. SeqPlace'
  BY <1>1, <1>4, <1>5 DEF SeqInv, SeqPlace
<1>9. StageInv' /\ LastInv'
  BY <1>1, <1>2, <1>3, <1>4, <1>5 DEF StageInv, LastInv
<1>10. WholeInv'
  BY <1>1, <1>3, <1>4 DEF WholeInv, Whole
<1>11. pcIn' \in {"get", "sw"} => pos < Total(req.mem) /\ dptr < req.dest
  <2>1. pos \in Nat /\ dptr \in Nat /\ req.dest \in Nat /\ Total(req.mem) \in Nat
    BY <1>2, TotalType DEF TypeInv, TypeIn, TypeCall
  <2>2. pcIn' \in {"get", "sw"} =>
            ~(pos >= Total(req.mem) \/ req.dest - dptr <= 0)
    BY <1>1, CheckHeaderFact
  <2>. QED
    BY <2>1, <2>2
<1>12. pcIn' = "get" => dptr + GivesSz(pos, req.dest - dptr) <= req.dest
  <2>1. ASSUME pcIn' = "get" PROVE dptr + GivesSz(pos, req.dest - dptr) <= req.dest
    <3>1. /\ pos \in Nat /\ dptr \in Nat /\ req.dest \in Nat
          /\ dptr < req.dest /\ pos < Total(req.mem)
      BY <1>11, <2>1 DEF TypeInv, TypeIn, TypeCall
    <3>2. ~(GivesSz(pos, req.dest - dptr) > req.dest - dptr)
      BY <1>1, <2>1, CheckHeaderFact
    <3>3. GivesSz(pos, req.dest - dptr) \in Nat
      BY <1>2, <3>1, SizesType DEF TypeInv
    <3>. QED
      BY <3>1, <3>2, <3>3
  <2>. QED
    BY <2>1
<1>13. GivesSz(pos, req.dest - dptr)' = GivesSz(pos, req.dest - dptr)
  BY <1>1, <1>3, Zenon DEF GivesSz
<1>14. SpaceCall'
  BY <1>1, <1>2, <1>3, <1>5, <1>11, <1>12, <1>13
     DEF SpaceCall, SpaceInv, Busy, NextPos, NextDst, Settled
<1>. QED
  BY <1>6, <1>4, <1>7, <1>8, <1>9, <1>10, <1>14 DEF RelInv, SeqInv, SpaceInv

LEMMA InBatchEndStep ==
    ASSUME Inv, InBatchEnd \/ InNoBuffer \/ InSWPending PROVE RelInv' /\ Still
<1>. USE DEF Inv, ProtocolInv
<1>1. /\ pcIn \in {"get", "swseq"}
      /\ pcIn' \in {"done", "get", "check", "swdec"}
      /\ pcIn' = "done" => sess.single_thread
      /\ pcIn' = "get" => pcIn = "get"
      /\ pcIn' = "swdec" => sess.seq = sess.seq_in /\ pcIn = "swseq"
      /\ UNCHANGED <<callVars, sess, streamVars, pos, dptr, tmp, outVars,
                     devVars, dst>>
  BY DEF InBatchEnd, InNoBuffer, InSWPending, BatchEnds
<1>2. /\ caller = "run" /\ pcOut # "done" /\ calls > 0
      /\ sess.last_processed = FALSE
      /\ sess.single_thread => pcOut = "start"
  BY <1>1, Running
<1>3. UNCHANGED <<caller, req>>
  BY <1>1 DEF callVars
<1>4. /\ Live' = Live /\ SlotInv' /\ PtrInv' /\ FitInv'
      /\ \A k \in Slots : ~Held(k) /\ ~Held(k)'
      /\ UNCHANGED <<cur, ptr, sseq, res, pcOut, jOut, hw>>
  BY <1>1, <1>3, QuietIn DEF HeldStages
<1>6. Still
  BY <1>1, <1>3, <1>4 DEF Still, NextSeq, NextPos, NextDst
<1>7. SeqLive' /\ JobInv' /\ SpaceLive'
  BY <1>6, StillKept DEF SeqInv, SpaceInv
<1>8. SeqPlace'
  BY <1>1, <1>4 DEF SeqInv, SeqPlace
<1>9. StageInv' /\ LastInv'
  BY <1>1, <1>2, <1>3, <1>4 DEF StageInv, LastInv
<1>10. WholeInv'
  BY <1>1, <1>3, <1>4 DEF WholeInv, Whole
<1>13. GivesSz(pos, req.dest - dptr)' = GivesSz(pos, req.dest - dptr)
  BY <1>1, <1>3, Zenon DEF GivesSz
<1>14. SpaceCall'
  BY <1>1, <1>2, <1>3, <1>13
     DEF SpaceCall, SpaceInv, Busy, NextPos, NextDst, Settled
<1>. QED
  BY <1>6, <1>4, <1>7, <1>8, <1>9, <1>10, <1>14 DEF RelInv, SeqInv, SpaceInv

LEMMA InSWFallbackStep ==
    ASSUME Inv, InSWFallback \/ InErrExit PROVE RelInv' /\ Still
<1>. USE DEF Inv, ProtocolInv
<1>1. /\ pcIn \in {"sw", "err"} /\ pcIn' \in {"err", "swseq", "done"}
      /\ pcIn' = "swseq" => pcIn = "sw"
      /\ pcIn' # "done" => SessStep({"stat"})
      /\ SessStep({"stat", "stop_submitting", "last_submitted"})
      /\ UNCHANGED <<callVars, streamVars, jIn, pos, dptr, tmp, outVars,
                     devVars, dst>>
  <2>1. CASE InSWFallback
    BY <2>1, InSWFallbackFacts DEF TypeInv, SessStep, Alike
  <2>2. CASE InErrExit
    BY <2>2, InErrExitFacts DEF TypeInv, SessStep, Alike
  <2>. QED
    BY <2>1, <2>2
<1>2. /\ caller = "run" /\ pcOut # "done" /\ calls > 0
      /\ sess.last_processed = FALSE
      /\ sess.single_thread => pcOut = "start"
  BY <1>1, Running
<1>3. UNCHANGED <<caller, req>>
  BY <1>1 DEF callVars
<1>4. /\ Live' = Live /\ SlotInv' /\ PtrInv' /\ FitInv'
      /\ \A k \in Slots : ~Held(k) /\ ~Held(k)'
      /\ UNCHANGED <<cur, ptr, sseq, res, pcOut, jOut, hw>>
  BY <1>1, <1>3, QuietIn DEF HeldStages
<1>5. /\ sess'.seq = sess.seq /\ sess'.seq_in = sess.seq_in
      /\ sess'.in_len = sess.in_len /\ sess'.out_len = sess.out_len
      /\ sess'.last_processed = sess.last_processed
      /\ sess'.single_thread = sess.single_thread
      /\ pcIn' # "done" => sess'.last_submitted = sess.last_submitted
  BY <1>1 DEF SessStep, Alike
<1>6. Still
  BY <1>1, <1>3, <1>4, <1>5 DEF Still, NextSeq, NextPos, NextDst
<1>7. SeqLive' /\ JobInv' /\ SpaceLive'
  BY <1>6, StillKept DEF SeqInv, SpaceInv
<1>8. SeqPlace'
  BY <1>1, <1>4, <1>5 DEF SeqInv, SeqPlace
<1>9. StageInv' /\ LastInv'
  BY <1>1, <1>2, <1>3, <1>4, <1>5 DEF StageInv, LastInv
<1>10. WholeInv'
  BY <1>1, <1>3, <1>4 DEF WholeInv, Whole
<1>14. SpaceCall'
  BY <1>1, <1>2, <1>3, <1>5
     DEF SpaceCall, SpaceInv, Busy, NextPos, NextDst, Settled
<1>. QED
  BY <1>6, <1>4, <1>7, <1>8, <1>9, <1>10, <1>14 DEF RelInv, SeqInv, SpaceInv

LEMMA InAdvanceStep ==
    ASSUME Inv, InAdvance PROVE RelInv' /\ Still
<1>. USE DEF Inv, ProtocolInv
<1>0. LET last == \/ pos' = Total(req.mem) \/ req.stop
                  \/ sess.stop_submitting
      IN  /\ sess'.last_submitted <=> sess.last_submitted \/ last
          /\ pcIn' = IF last THEN "done" ELSE "check"
  BY InAdvanceFacts DEF TypeInv
<1>1. /\ pcIn = "adv" /\ pcIn' \in {"done", "check"}
      /\ pos' = pos + tmp.src /\ dptr' = dptr + tmp.dst
      /\ SessStep({"seq", "last_submitted"}) /\ sess'.seq = sess.seq + 1
      /\ pos' = Total(req.mem) => pcIn' = "done"
      /\ pcIn' # "done" /\ sess'.last_submitted => sess.last_submitted
      /\ UNCHANGED <<callVars, streamVars, outVars, devVars, dst>>
  BY <1>0, InAdvanceFacts DEF TypeInv
<1>2. /\ caller = "run" /\ pcOut # "done" /\ calls > 0
      /\ sess.last_processed = FALSE
      /\ sess.single_thread => pcOut = "start"
  BY <1>1, Running
<1>3. UNCHANGED <<caller, req>>
  BY <1>1 DEF callVars
<1>4. /\ Live' = Live /\ SlotInv' /\ PtrInv' /\ FitInv'
      /\ \A k \in Slots : ~Held(k) /\ ~Held(k)'
      /\ UNCHANGED <<cur, ptr, sseq, res, pcOut, jOut, hw>>
  BY <1>1, <1>3, QuietIn DEF HeldStages
<1>5. /\ sess'.seq_in = sess.seq_in
      /\ sess'.in_len = sess.in_len /\ sess'.out_len = sess.out_len
      /\ sess'.last_processed = sess.last_processed
      /\ sess'.single_thread = sess.single_thread
  BY <1>1 DEF SessStep, Alike
<1>6. Still
  BY <1>1, <1>3, <1>4, <1>5 DEF Still, NextSeq, NextPos, NextDst
<1>7. SeqLive' /\ JobInv' /\ SpaceLive'
  BY <1>6, StillKept DEF SeqInv, SpaceInv
<1>8. SeqPlace'
  BY <1>1, <1>4, <1>5 DEF SeqInv, SeqPlace
<1>9. StageInv' /\ LastInv'
  BY <1>1, <1>2, <1>3, <1>4, <1>5 DEF StageInv, LastInv, NextPos
<1>10. WholeInv'
  BY <1>1, <1>3, <1>4 DEF WholeInv, Whole, NextPos
<1>14. SpaceCall'
  BY <1>1, <1>2, <1>3, <1>5
     DEF SpaceCall, SpaceInv, Busy, NextPos, NextDst, Settled
<1>. QED
  BY <1>6, <1>4, <1>7, <1>8, <1>9, <1>10, <1>14 DEF RelInv, SeqInv, SpaceInv

-----------------------------------------------------------------------------
(* doDecompressIn, the steps that claim, submit or give back a buffer.     *)

LEMMA InGetBufferStep ==
    ASSUME Inv, InGetBuffer PROVE RelInv' /\ Still
<1>. USE DEF Inv, ProtocolInv
<1>1. /\ pcIn = "get" /\ pcIn' = "use" /\ PtrKept
      /\ tmp' = [src |-> TakesSz(pos), dst |-> GivesSz(pos, req.dest - dptr)]
      /\ UNCHANGED <<callVars, sess, res, pos, dptr, outVars, devVars, dst>>
  BY InGetBufferFacts DEF TypeInv
<1>2. /\ caller = "run" /\ pcOut # "done" /\ calls > 0
      /\ sess.last_processed = FALSE
      /\ sess.single_thread => pcOut = "start"
  BY <1>1, Running
<1>3. UNCHANGED <<caller, req, pcOut, jOut, hw>>
  BY <1>1 DEF callVars, outVars, devVars
<1>4. PICK k \in Slots :
          /\ jIn' = k /\ Unused(cur[k]) /\ Claimed(cur'[k])
          /\ OnlySlot(cur, cur', k)
          /\ sseq'[k] = sess.seq
          /\ \A m \in Slots : m # k => sseq'[m] = sseq[m]
  BY InGetBufferFacts DEF TypeInv
<1>5. /\ cur[k] \in Cursors /\ cur'[k] \in Cursors
      /\ ~InFlight(cur[k]) /\ ~Answered(cur[k])
      /\ ~InFlight(cur'[k]) /\ ~Answered(cur'[k])
  BY <1>4, CursorStates DEF TypeInv, TypeStream, OnlySlot
<1>6. \A m \in Slots : ~Held(m) /\ (Held(m)' <=> m = k)
  BY <1>1, <1>4 DEF Held
<1>7. Live' = Live
  BY <1>1, <1>3, <1>4, <1>5, LiveSame DEF OnlySlot
<1>8. \A r \in hw : r.slot \in Slots /\ r.slot # k
  BY <1>5 DEF SlotInv, TypeInv, TypeDev, Jobs
<1>9. SlotInv'
  <2>1. \A m \in Slots \ {k} :
           /\ cur'[m] = cur[m]
           /\ \/ Unused(cur[m])
              \/ InFlight(cur[m]) /\ \E r \in hw : r.slot = m
              \/ Answered(cur[m]) /\ res[m].slot = m /\ res[m].st # "pending"
    BY <1>4, <1>6 DEF SlotInv, OnlySlot
  <2>2. \A r \in hw : ~Held(r.slot)' /\ InFlight(cur'[r.slot])
    BY <1>4, <1>6, <1>8 DEF SlotInv, OnlySlot
  <2>. QED
    BY <1>1, <1>3, <1>4, <1>6, <2>1, <2>2 DEF SlotInv
<1>10. \A r \in Live : r.slot \in Slots /\ r.slot # k
  BY <1>4, LiveFact DEF TypeInv
<1>11. Still
  BY <1>1, <1>3, <1>4, <1>7, <1>10 DEF Still, NextSeq, NextPos, NextDst
<1>12. SeqLive' /\ JobInv' /\ SpaceLive'
  BY <1>11, StillKept DEF SeqInv, SpaceInv
<1>13. SeqPlace'
  <2>1. \A m \in Slots : Held(m)' => sseq'[m] = sess.seq
    BY <1>4, <1>6
  <2>2. pcOut \in {"skip", "sw", "copy"} =>
            Answered(cur'[jOut]) /\ sseq'[jOut] = sess.seq_in
    <3>1. pcOut \in {"skip", "sw", "copy"} =>
             /\ jOut \in Slots /\ Answered(cur[jOut])
             /\ sseq[jOut] = sess.seq_in
      BY DEF SeqInv, SeqPlace, TypeInv, TypeOut
    <3>. QED
      BY <1>4, <1>5, <3>1 DEF OnlySlot
  <2>. QED
    BY <1>1, <1>3, <2>1, <2>2 DEF SeqPlace
<1>14. StageInv' /\ LastInv'
  BY <1>1, <1>2, <1>3 DEF StageInv, LastInv
<1>15. tmp'.src = TakesSz(pos) /\ tmp'.dst = GivesSz(pos, req.dest - dptr)
  BY <1>1
<1>16. /\ GivesSz(pos, req.dest - dptr)' = GivesSz(pos, req.dest - dptr)
       /\ TakesSz(pos)' = TakesSz(pos)
  BY <1>1, <1>3, Zenon DEF GivesSz, TakesSz
<1>17. WholeInv'
  <2>1. pos \in Nat /\ pos < Total(req.mem)
    BY <1>1 DEF TypeInv, TypeIn, SpaceInv, SpaceCall, Busy
  <2>2. Whole => TakesSz(pos) = Total(req.mem) - pos
    BY DEF TakesSz, Whole
  <2>3. Total(req.mem) \in Nat
    BY <1>2, TotalType DEF TypeInv, TypeCall
  <2>4. Whole => pos + TakesSz(pos) = Total(req.mem)
    BY <2>1, <2>2, <2>3
  <2>. QED
    BY <1>1, <1>3, <1>7, <1>15, <2>4 DEF WholeInv, Whole
<1>18. PtrInv'
  BY <1>1, <1>3, PtrSame
<1>19. SpaceCall'
  BY <1>1, <1>2, <1>3, <1>15, <1>16
     DEF SpaceCall, SpaceInv, Busy, NextPos, NextDst, Settled
<1>20. FitInv'
  BY <1>1, <1>3 DEF FitInv, FitsDestination
<1>. QED
  BY <1>11, <1>9, <1>12, <1>13, <1>14, <1>17, <1>18, <1>19, <1>20
     DEF RelInv, SeqInv, SpaceInv

LEMMA InUseStep ==
    ASSUME Inv, InUse \/ InCleanUp PROVE RelInv' /\ Still
<1>. USE DEF Inv, ProtocolInv
<1>1. /\ \/ pcIn = "use" /\ pcIn' = "submit" /\ InFlight(cur'[jIn])
            /\ Claimed(cur[jIn])
         \/ pcIn = "cleanup" /\ pcIn' = "sw" /\ Unused(cur'[jIn])
            /\ InFlight(cur[jIn])
      /\ OnlySlot(cur, cur', jIn) /\ PtrKept
      /\ UNCHANGED <<callVars, sess, sseq, res, jIn, pos, dptr, tmp, outVars,
                     devVars, dst>>
  BY InUseFacts, InCleanUpFacts DEF TypeInv
<1>2. /\ caller = "run" /\ pcOut # "done" /\ calls > 0
      /\ sess.last_processed = FALSE
      /\ sess.single_thread => pcOut = "start"
  BY <1>1, Running
<1>3. UNCHANGED <<caller, req, pcOut, jOut, hw>> /\ jIn \in Slots
  BY <1>1 DEF callVars, outVars, devVars, TypeInv, TypeIn
<1>4. Held(jIn) /\ \A m \in Slots : Held(m) <=> m = jIn
  BY <1>1, <1>3 DEF Held
<1>5. /\ cur[jIn] \in Cursors /\ cur'[jIn] \in Cursors
      /\ ~Answered(cur[jIn]) /\ ~Answered(cur'[jIn])
  BY <1>1, <1>3, CursorStates DEF TypeInv, TypeStream, OnlySlot
<1>6. \A m \in Slots : Held(m)' <=> m = jIn /\ pcIn = "use"
  BY <1>1, <1>3 DEF Held
<1>7. Live' = Live
  BY <1>1, <1>3, <1>5, LiveSame DEF OnlySlot
<1>8. \A r \in hw : r.slot \in Slots /\ r.slot # jIn
  BY <1>4 DEF SlotInv, TypeInv, TypeDev, Jobs
<1>9. SlotInv'
  <2>1. \A m \in Slots \ {jIn} :
           /\ cur'[m] = cur[m]
           /\ \/ Unused(cur[m])
              \/ InFlight(cur[m]) /\ \E r \in hw : r.slot = m
              \/ Answered(cur[m]) /\ res[m].slot = m /\ res[m].st # "pending"
    BY <1>1, <1>4 DEF SlotInv, OnlySlot
  <2>2. \A r \in hw : ~Held(r.slot)' /\ InFlight(cur'[r.slot])
    BY <1>1, <1>6, <1>8 DEF SlotInv, OnlySlot
  <2>. QED
    BY <1>1, <1>3, <1>6, <2>1, <2>2 DEF SlotInv
<1>11. Still
  BY <1>1, <1>3, <1>7 DEF Still, NextSeq, NextPos, NextDst
<1>12. SeqLive' /\ JobInv' /\ SpaceLive'
  BY <1>11, StillKept DEF SeqInv, SpaceInv
<1>13. SeqPlace'
  <2>1. \A m \in Slots : Held(m)' => sseq'[m] = sess.seq
    BY <1>1, <1>4, <1>6 DEF SeqInv, SeqPlace
  <2>2. pcOut \in {"skip", "sw", "copy"} =>
            Answered(cur'[jOut]) /\ sseq'[jOut] = sess.seq_in
    <3>1. pcOut \in {"skip", "sw", "copy"} =>
             /\ jOut \in Slots /\ Answered(cur[jOut])
             /\ sseq[jOut] = sess.seq_in
      BY DEF SeqInv, SeqPlace, TypeInv, TypeOut
    <3>. QED
      BY <1>1, <1>5, <3>1 DEF OnlySlot
  <2>. QED
    BY <1>1, <1>3, <2>1, <2>2 DEF SeqPlace
<1>14. StageInv' /\ LastInv'
  BY <1>1, <1>2, <1>3 DEF StageInv, LastInv
<1>16. /\ GivesSz(pos, req.dest - dptr)' = GivesSz(pos, req.dest - dptr)
       /\ TakesSz(pos)' = TakesSz(pos)
  BY <1>1, <1>3, Zenon DEF GivesSz, TakesSz
<1>17. WholeInv'
  BY <1>1, <1>3, <1>7 DEF WholeInv, Whole
<1>18. PtrInv'
  BY <1>1, <1>3, PtrSame
<1>19. SpaceCall'
  BY <1>1, <1>2, <1>3, <1>16
     DEF SpaceCall, SpaceInv, Busy, NextPos, NextDst, Settled
<1>20. FitInv'
  BY <1>1, <1>3 DEF FitInv, FitsDestination
<1>. QED
  BY <1>11, <1>9, <1>12, <1>13, <1>14, <1>17, <1>18, <1>19, <1>20
     DEF RelInv, SeqInv, SpaceInv

\* The request that is submitted.
LEMMA JobFact ==
    ASSUME Inv, pcIn = "submit", NEW a, a = Job(jIn)
    PROVE  /\ a \in Jobs /\ a.slot = jIn /\ a.st = "pending" /\ a.n = 0
           /\ a.pos = pos /\ a.src = tmp.src /\ a.at = dptr /\ a.room = tmp.dst
           /\ JobOK(a)
           /\ pos + tmp.src <= Total(req.mem) /\ dptr + tmp.dst <= req.dest
           /\ Whole => pos + tmp.src = Total(req.mem)
<1>. USE DEF Inv, ProtocolInv
<1>1. /\ caller = "run" /\ calls > 0
  BY Running
<1>2. /\ req.mem \in Sources /\ pos \in Nat /\ pos < Total(req.mem)
      /\ calls \in Int
  BY <1>1 DEF TypeInv, TypeCall, TypeIn, SpaceInv, SpaceCall, Busy
<1>3. /\ dptr \in Nat /\ dptr < req.dest /\ req.dest \in Nat
      /\ tmp.src = TakesSz(pos) /\ tmp.dst = GivesSz(pos, req.dest - dptr)
      /\ dptr + tmp.dst <= req.dest /\ jIn \in Slots
      /\ tmp.src \in Nat /\ tmp.dst \in Nat
  BY DEF TypeInv, TypeCall, TypeIn, SpaceInv, SpaceCall, Busy
<1>4. PICK m \in Member : m = req.mem[MemberAt(req.mem, pos)]
  BY <1>2, MemberAtFact, SourceType
<1>5. PICK kind \in Kinds : kind = IF AtStart(req.mem, pos) THEN m.kind
                                   ELSE "nohdr"
  BY DEF Member, Kinds
<1>7. a = [slot |-> jIn, call |-> calls, st |-> "pending", pos |-> pos,
           sz |-> m.sz, kind |-> kind, at |-> dptr, src |-> tmp.src,
           room |-> tmp.dst, n |-> 0, lent |-> "dst" \in req.pin]
  BY <1>4, <1>5, Zenon DEF Job
<1>8. m.sz \in Nat /\ "pending" \in JobStates
  BY DEF Member, JobStates
<1>9. a \in Jobs
  BY <1>2, <1>3, <1>7, <1>8 DEF Jobs
<1>10. /\ a.slot = jIn /\ a.st = "pending" /\ a.n = 0 /\ a.kind = kind
       /\ a.pos = pos /\ a.src = tmp.src /\ a.at = dptr /\ a.room = tmp.dst
       /\ a.sz = m.sz
  BY <1>7
<1>12. /\ TakesSz(pos) = IF Whole THEN Total(req.mem) - pos ELSE Rest(req.mem, pos)
       /\ pos + TakesSz(pos) <= Total(req.mem)
       /\ req.fmt \in {"ext", "gzip", "lz4"} =>
             GivesSz(pos, req.dest - dptr) = TakesSz(pos)
  BY <1>1, <1>2, <1>3, SizesType DEF TypeInv
<1>13. kind \in {"ok", "bad"} =>
          AtStart(req.mem, pos) /\ kind = m.kind /\ m.sz = Rest(req.mem, pos)
  <2>1. AtStart(req.mem, pos) => m.sz = Rest(req.mem, pos)
    BY <1>2, <1>4, StartRest
  <2>. QED
    BY <1>5, <2>1
<1>14. JobOK(a)
  BY <1>2, <1>3, <1>4, <1>10, <1>12, <1>13 DEF JobOK
<1>15. Whole => pos + tmp.src = Total(req.mem)
  BY <1>2, <1>3, <1>12, TotalType
<1>. QED
  BY <1>3, <1>9, <1>10, <1>12, <1>14, <1>15

LEMMA InSubmitStep ==
    ASSUME Inv, InSubmit 
    PROVE  RelInv' /\ (Still \/ (pcIn' = "adv" /\ \E a : Submitted(a)))
<1>. USE DEF Inv, ProtocolInv
<1>1. /\ pcIn = "submit"
      /\ \/ pcIn' = "adv" /\ hw' = hw \cup {Job(jIn)}
         \/ pcIn' \in {"submit", "cleanup"} /\ hw' = hw
      /\ UNCHANGED <<callVars, sess, streamVars, jIn, pos, dptr, tmp, outVars,
                     dst>>
  BY DEF InSubmit
<1>2. /\ caller = "run" /\ pcOut # "done" /\ calls > 0
      /\ sess.last_processed = FALSE
      /\ sess.single_thread => pcOut = "start"
  BY <1>1, Running
<1>3. UNCHANGED <<caller, req, pcOut, jOut, cur, ptr, sseq, res>> /\ jIn \in Slots
  BY <1>1 DEF callVars, outVars, streamVars, TypeInv, TypeIn
<1>4. Held(jIn) /\ \A m \in Slots : Held(m) <=> m = jIn
  BY <1>1, <1>3 DEF Held
<1>5. \A r \in hw : r.slot \in Slots /\ r.slot # jIn
  BY <1>4 DEF SlotInv, TypeInv, TypeDev, Jobs
<1>6. StageInv' /\ LastInv'
  BY <1>1, <1>2, <1>3 DEF StageInv, LastInv
<1>7. PtrInv'
  BY <1>3, PtrStill
<1>8. FitInv'
  BY <1>1, <1>3 DEF FitInv, FitsDestination
<1>9. SeqPlace'
  BY <1>1, <1>3 DEF SeqInv, SeqPlace, Held
<1>10. /\ GivesSz(pos, req.dest - dptr)' = GivesSz(pos, req.dest - dptr)
       /\ TakesSz(pos)' = TakesSz(pos)
  BY <1>1, <1>3, Zenon DEF GivesSz, TakesSz
<1>11. ASSUME pcIn' \in {"submit", "cleanup"}, hw' = hw PROVE RelInv' /\ Still
  <2>1. \A k \in Slots : Held(k)' <=> Held(k)
    BY <1>1, <1>11 DEF Held
  <2>2. SlotInv' /\ Live' = Live
    BY <1>1, <1>3, <1>5, <1>11, <2>1, SlotKept
  <2>3. Still
    BY <1>1, <1>3, <1>11, <2>2 DEF Still, NextSeq, NextPos, NextDst
  <2>4. SeqLive' /\ JobInv' /\ SpaceLive'
    BY <2>3, StillKept DEF SeqInv, SpaceInv
  <2>5. WholeInv'
    BY <1>1, <1>3, <1>11, <2>2 DEF WholeInv, Whole
  <2>6. SpaceCall'
    BY <1>1, <1>2, <1>3, <1>10, <1>11
       DEF SpaceCall, SpaceInv, Busy, NextPos, NextDst, Settled
  <2>. QED
    BY <1>6, <1>7, <1>8, <1>9, <2>2, <2>3, <2>4, <2>5, <2>6
       DEF RelInv, SeqInv, SpaceInv
<1>12. ASSUME pcIn' = "adv", hw' = hw \cup {Job(jIn)}
      PROVE  RelInv' /\ \E a : Submitted(a)
  <2>1. PICK a : a = Job(jIn)
    OBVIOUS
  <2>2. /\ a \in Jobs /\ a.slot = jIn /\ a.st = "pending" /\ a.n = 0
        /\ a.pos = pos /\ a.src = tmp.src /\ a.at = dptr /\ a.room = tmp.dst
        /\ JobOK(a)
        /\ pos + tmp.src <= Total(req.mem) /\ dptr + tmp.dst <= req.dest
        /\ Whole => pos + tmp.src = Total(req.mem)
    BY <1>1, <2>1, JobFact
  <2>3. Live' = Live \cup {a}
    BY <1>3, <1>12, <2>1, LiveSubmit
  <2>4. \A r \in Live : r \in Jobs /\ r.slot \in Slots /\ r.slot # jIn
    BY <1>4, LiveFact DEF TypeInv
  <2>5. SlotInv'
    <3>1. \A m \in Slots : ~Held(m)'
      BY <1>12 DEF Held
    <3>2. InFlight(cur[jIn])
      BY <1>1, <1>3, <1>4 DEF SlotInv
    <3>3. \A m \in Slots \ {jIn} :
             \/ Unused(cur[m])
             \/ InFlight(cur[m]) /\ \E r \in hw : r.slot = m
             \/ Answered(cur[m]) /\ res[m].slot = m /\ res[m].st # "pending"
      BY <1>4 DEF SlotInv
    <3>4. hw' = hw \cup {a}
      BY <1>12, <2>1
    <3>5. \A r \in hw' : ~Held(r.slot)' /\ InFlight(cur[r.slot])
      BY <1>3, <1>5, <2>2, <3>1, <3>2, <3>4 DEF SlotInv
    <3>6. \A q, r \in hw' : q.slot = r.slot => q = r
      BY <1>5, <2>2, <3>4 DEF SlotInv
    <3>. QED
      BY <1>3, <2>2, <3>1, <3>2, <3>3, <3>4, <3>5, <3>6 DEF SlotInv
  <2>6. /\ NextSeq = sess.seq /\ NextSeq' = sess.seq + 1 /\ sess' = sess
        /\ NextPos = pos /\ NextPos' = pos + tmp.src
        /\ NextDst = dptr /\ NextDst' = dptr + tmp.dst
        /\ sess.seq \in Nat /\ sess.seq_in \in Nat /\ sess.seq_in <= sess.seq
        /\ pos \in Nat /\ dptr \in Nat /\ tmp.src \in Nat /\ tmp.dst \in Nat
    BY <1>1, <1>12, NextType
       DEF NextSeq, NextPos, NextDst, SeqInv, SeqLive, TypeInv, TypeIn
  <2>7. sseq[a.slot] = sess.seq
    BY <1>3, <1>4, <2>2 DEF SeqInv, SeqPlace
  <2>8. \A r \in Live : /\ sess.seq_in <= sseq[r.slot] /\ sseq[r.slot] < sess.seq
                        /\ sseq[r.slot] \in Int
    BY <2>4, <2>6 DEF SeqInv, SeqLive, TypeInv, TypeStream
  <2>9. SeqLive'
    <3>1. \A r \in Live' : sess.seq_in <= sseq[r.slot] /\ sseq[r.slot] < sess.seq + 1
      BY <2>3, <2>6, <2>7, <2>8
    <3>2. \A q, r \in Live' : sseq[q.slot] = sseq[r.slot] => q = r
      BY <2>3, <2>6, <2>7, <2>8 DEF SeqInv, SeqLive
    <3>3. \A n \in sess.seq_in..sess.seq : \E r \in Live' : sseq[r.slot] = n
      <4>1. SUFFICES ASSUME NEW n \in sess.seq_in..sess.seq
                     PROVE  \E r \in Live' : sseq[r.slot] = n
        OBVIOUS
      <4>2. CASE n = sess.seq
        BY <2>3, <2>7, <4>2
      <4>3. CASE n # sess.seq
        <5>1. n \in sess.seq_in..(NextSeq - 1)
          BY <2>6, <4>3
        <5>2. \E r \in Live : sseq[r.slot] = n
          BY <5>1 DEF SeqInv, SeqLive
        <5>. QED
          BY <2>3, <5>2
      <4>. QED
        BY <4>2, <4>3
    <3>4. sess.seq_in..(NextSeq' - 1) = sess.seq_in..sess.seq
      BY <2>6
    <3>. QED
      BY <1>3, <2>6, <3>1, <3>2, <3>3, <3>4 DEF SeqLive
  <2>10. JobInv'
    BY <1>3, <2>2, <2>3 DEF JobInv, JobOK, Whole
  <2>11. SpaceLive'
    <3>1. \A r \in Live : /\ r.pos \in Nat /\ r.src \in Nat /\ r.at \in Nat
                          /\ r.room \in Nat
      BY <2>4 DEF Jobs
    <3>2. \A r \in Live : /\ req.off + sess.in_len <= r.pos
                          /\ r.pos + r.src <= pos
                          /\ sess.out_len <= r.at /\ r.at + r.room <= dptr
      BY <2>6 DEF SpaceInv, SpaceLive
    <3>3. /\ req.off + sess.in_len <= pos /\ sess.out_len <= dptr
      BY <1>1, <1>2, <2>6 DEF SpaceInv, SpaceCall, Settled
    <3>4. \A r \in Live' : /\ req.off + sess.in_len <= r.pos
                           /\ r.pos + r.src <= pos + tmp.src
                           /\ sess.out_len <= r.at
                           /\ r.at + r.room <= dptr + tmp.dst
      BY <2>2, <2>3, <2>6, <3>1, <3>2, <3>3
    <3>5. \A q, r \in Live' : sseq[q.slot] < sseq[r.slot] =>
              q.pos + q.src <= r.pos /\ q.at + q.room <= r.at
      <4>1. \A q, r \in Live : sseq[q.slot] < sseq[r.slot] =>
                q.pos + q.src <= r.pos /\ q.at + q.room <= r.at
        BY DEF SpaceInv, SpaceLive
      <4>. QED
        BY <2>2, <2>3, <2>6, <2>7, <2>8, <3>2, <4>1
    <3>. QED
      BY <1>3, <2>6, <3>4, <3>5 DEF SpaceLive
  <2>12. WholeInv'
    <3>1. Whole => Live = {}
      BY <1>1 DEF WholeInv
    <3>2. Live = {} => sess.seq_in = sess.seq
      <4>1. ASSUME Live = {}, sess.seq_in # sess.seq PROVE FALSE
        <5>1. sess.seq_in \in sess.seq_in..(NextSeq - 1)
          BY <2>6, <4>1
        <5>. QED
          BY <4>1, <5>1 DEF SeqInv, SeqLive
      <4>. QED
        BY <4>1
    <3>. QED
      BY <1>3, <1>12, <2>2, <2>6, <3>1, <3>2 DEF WholeInv, Whole
  <2>13. SpaceCall'
    <3>1. /\ req.off \in Nat /\ sess.in_len \in Nat /\ sess.out_len \in Nat
      BY NextType DEF TypeInv, TypeCall
    <3>2. /\ req.off + sess.in_len <= pos /\ sess.out_len <= dptr
      BY <1>1, <1>2, <2>6 DEF SpaceInv, SpaceCall, Settled
    <3>3. /\ req.off + sess.in_len <= pos + tmp.src
          /\ sess.out_len <= dptr + tmp.dst
      BY <2>6, <3>1, <3>2
    <3>. QED
      BY <1>1, <1>2, <1>3, <1>12, <2>2, <2>6, <3>3
         DEF SpaceCall, SpaceInv, Busy, Settled
  <2>14. Submitted(a)
    BY <1>1, <1>3, <2>2, <2>3, <2>4, <2>6, <2>7, <2>8 DEF Submitted
  <2>. QED
    BY <1>6, <1>7, <1>8, <1>9, <2>5, <2>9, <2>10, <2>11, <2>12, <2>13, <2>14
       DEF RelInv, SeqInv, SpaceInv
<1>. QED
  BY <1>1, <1>11, <1>12

LEMMA InSWDecompressStep ==
    ASSUME Inv, InSWDecompress 
    PROVE  RelInv' /\ (IF pcIn' = "adv" THEN \E n \in Nat : Softly(n) ELSE Still)
<1>. USE DEF Inv, ProtocolInv
<1>1. /\ pcIn = "swdec" /\ pos < Total(req.mem)
      /\ UNCHANGED <<callVars, streamVars, jIn, pos, dptr, outVars, devVars>>
  BY InSWDecompressFacts DEF TypeInv
<1>2. /\ caller = "run" /\ pcOut # "done" /\ calls > 0
      /\ sess.last_processed = FALSE
      /\ sess.single_thread => pcOut = "start"
  BY <1>1, Running
<1>3. UNCHANGED <<caller, req>>
  BY <1>1 DEF callVars
<1>4. PICK n \in Nat :
        /\ n <= req.dest - dptr /\ pos + n <= Total(req.mem)
        /\ dst' = Put(dst, dptr, pos, n, TRUE)
        /\ tmp' = [src |-> n, dst |-> n]
        /\ sess' \in Sessions
        /\ \/ /\ pcIn' = "adv"
              /\ Alike(sess', sess, {"inflate", "ipos", "force_sw",
                          "eos", "seq_in", "in_len", "out_len"})
              /\ sess'.seq_in = sess.seq_in + 1
              /\ sess'.in_len = sess.in_len + n
              /\ sess'.out_len = sess.out_len + n
           \/ /\ pcIn' = "err"
              /\ Alike(sess', sess, {"inflate", "ipos", "force_sw",
                          "eos", "stat"})
  <2>1. PICK r : /\ SwAnswer(r, pos, req.dest - dptr)
                 /\ dst' = Put(dst, dptr, pos, r.n, TRUE)
                 /\ tmp' = [src |-> r.n, dst |-> r.n]
                 /\ sess' \in Sessions
                 /\ \/ /\ pcIn' = "adv"
                       /\ Alike(sess', sess, {"inflate", "ipos", "force_sw",
                                   "eos", "seq_in", "in_len", "out_len"})
                       /\ sess'.seq_in = sess.seq_in + 1
                       /\ sess'.in_len = sess.in_len + r.n
                       /\ sess'.out_len = sess.out_len + r.n
                    \/ /\ pcIn' = "err"
                       /\ Alike(sess', sess, {"inflate", "ipos", "force_sw",
                                   "eos", "stat"})
    BY InSWDecompressFacts DEF TypeInv
  <2>2. r.n \in Nat /\ r.n <= req.dest - dptr /\ pos + r.n <= Total(req.mem)
    BY <2>1 DEF SwAnswer
  <2>. QED
    BY <2>1, <2>2
<1>5. pcIn' \in {"adv", "err"} /\ tmp'.src = n /\ tmp'.dst = n
  BY <1>4
<1>6. /\ Live' = Live /\ SlotInv' /\ PtrInv'
      /\ \A k \in Slots : ~Held(k) /\ ~Held(k)'
      /\ UNCHANGED <<cur, ptr, sseq, res, pcOut, jOut, hw>>
  BY <1>1, <1>3, <1>5, QuietIn DEF HeldStages
<1>7. sess.seq = sess.seq_in /\ sess.seq \in Nat
  BY <1>1, NextType DEF SeqInv, SeqPlace
<1>8. Live = {}
  BY <1>1, <1>7, NoneLive DEF NextSeq, SeqInv
<1>9. pcOut \notin {"skip", "sw", "copy"}
  BY <1>8 DEF Live, SeqInv, SeqPlace, TypeInv, TypeOut
<1>10. /\ pos \in Nat /\ dptr \in Nat /\ req.dest \in Nat /\ dptr < req.dest
       /\ Total(req.mem) \in Nat /\ req.off \in Nat
       /\ sess.in_len \in Nat /\ sess.out_len \in Nat
       /\ req.off + sess.in_len <= pos /\ sess.out_len <= dptr
       /\ sess.in_len = sess.out_len
  <2>1. NextPos = pos /\ NextDst = dptr
    BY <1>1 DEF NextPos, NextDst
  <2>2. req.off + sess.in_len <= pos /\ sess.out_len <= dptr
    BY <1>1, <1>2, <2>1 DEF SpaceInv, SpaceCall, Settled
  <2>. QED
    BY <1>1, <1>2, <2>2, TotalType, NextType
       DEF TypeInv, TypeIn, TypeCall, SpaceInv, SpaceCall, Busy
<1>11. FitInv'
  <2>1. DOMAIN dst = 1..(req.dest + HwBuffSz) /\ HwBuffSz \in Nat
    BY <1>2, DecompressAssumption DEF TypeInv, TypeCall
  <2>2. \A i \in DOMAIN dst : i > req.dest => dst'[i] = dst[i]
    BY <1>4, <1>10, <2>1 DEF Put
  <2>3. DOMAIN dst' = DOMAIN dst
    BY <1>4 DEF Put
  <2>. QED
    BY <1>3, <2>2, <2>3 DEF FitInv, FitsDestination
<1>12. CASE pcIn' = "adv"
  <2>1. /\ sess'.seq_in = sess.seq_in + 1 /\ sess'.seq = sess.seq
        /\ sess'.in_len = sess.in_len + n /\ sess'.out_len = sess.out_len + n
        /\ sess'.last_submitted = sess.last_submitted
        /\ sess'.last_processed = sess.last_processed
        /\ sess'.single_thread = sess.single_thread
    BY <1>4, <1>12 DEF Alike
  <2>2. NextSeq' = sess'.seq_in /\ sess'.seq_in \in Nat
    BY <1>7, <1>12, <2>1 DEF NextSeq
  <2>3. SeqLive' /\ JobInv' /\ SpaceLive'
    BY <1>6, <1>8, <2>2, EmptyKept
  <2>4. SeqPlace'
    BY <1>6, <1>9, <1>12 DEF SeqPlace
  <2>5. StageInv' /\ LastInv'
    BY <1>1, <1>2, <1>3, <1>6, <1>12, <2>1 DEF StageInv, LastInv
  <2>6. WholeInv'
    BY <1>6, <1>8, <1>12 DEF WholeInv
  <2>7. NextPos' = pos + n /\ NextDst' = dptr + n
    BY <1>1, <1>5, <1>12 DEF NextPos, NextDst
  <2>8. SpaceCall'
    BY <1>2, <1>3, <1>4, <1>10, <1>12, <2>1, <2>7 DEF SpaceCall, Busy, Settled
  <2>9. Softly(n)
    BY <1>1, <1>3, <1>6, <1>8, <2>1, <2>7 DEF Softly, NextPos, NextDst
  <2>. QED
    BY <1>6, <1>11, <1>12, <2>3, <2>4, <2>5, <2>6, <2>8, <2>9
       DEF RelInv, SeqInv, SpaceInv
<1>13. CASE pcIn' = "err"
  <2>1. /\ sess'.seq_in = sess.seq_in /\ sess'.seq = sess.seq
        /\ sess'.in_len = sess.in_len /\ sess'.out_len = sess.out_len
        /\ sess'.last_submitted = sess.last_submitted
        /\ sess'.last_processed = sess.last_processed
        /\ sess'.single_thread = sess.single_thread
    BY <1>4, <1>13 DEF Alike
  <2>2. Still
    BY <1>1, <1>3, <1>6, <1>13, <2>1 DEF Still, NextSeq, NextPos, NextDst
  <2>3. SeqLive' /\ JobInv' /\ SpaceLive'
    BY <2>2, StillKept DEF SeqInv, SpaceInv
  <2>4. SeqPlace'
    BY <1>6, <1>9, <1>13 DEF SeqPlace
  <2>5. StageInv' /\ LastInv'
    BY <1>1, <1>2, <1>3, <1>6, <1>13, <2>1 DEF StageInv, LastInv
  <2>6. WholeInv'
    BY <1>6, <1>8, <1>13 DEF WholeInv
  <2>8. SpaceCall'
    BY <1>1, <1>2, <1>3, <1>13, <2>1
       DEF SpaceCall, SpaceInv, Busy, Settled, NextPos, NextDst
  <2>. QED
    BY <1>6, <1>11, <1>13, <2>2, <2>3, <2>4, <2>5, <2>6, <2>8
       DEF RelInv, SeqInv, SpaceInv
<1>. QED
  BY <1>5, <1>12, <1>13

-----------------------------------------------------------------------------
(* doDecompressOut and the device.                                         *)

LEMMA RunningOut ==
    ASSUME Inv, pcOut # "done"
    PROVE  /\ caller = "run" /\ calls > 0 /\ sess.last_processed = FALSE
           /\ sess.single_thread => pcIn = "done" \/ pcOut = "start"
<1>1. caller = "run"
  BY DEF Inv, ProtocolInv, StageInv
<1>2. calls > 0 /\ sess.last_processed \in BOOLEAN
  BY <1>1, SessTyped DEF Inv, TypeInv, TypeCall, TypeSess
<1>. QED
  BY <1>1, <1>2 DEF Inv, ProtocolInv, StageInv

LEMMA OutQuietStep ==
    ASSUME Inv, OutStart \/ OutPolled \/ OutPollFail \/ OutScan \/ OutStop \/ OutTest
    PROVE  RelInv' /\ Still
<1>. USE DEF Inv, ProtocolInv
<1>1. /\ pcOut \notin {"done", "err"}
      /\ pcOut' \notin {"start", "done"} \/ OutTest
      /\ pcOut = "start" => (sess.single_thread => pcIn = "done")
      /\ pcOut' = "done" => /\ sess.seq = sess.seq_in
                            /\ sess.single_thread \/ sess.last_submitted
                            /\ sess'.last_processed = sess.last_submitted
                            /\ pcOut # "start"
      /\ pcOut' # "done" => sess'.last_processed = sess.last_processed
      /\ SessStep({"last_processed", "stop_submitting", "stat"})
      /\ UNCHANGED <<callVars, streamVars, inVars, devVars, dst>>
      /\ pcOut' \in {"skip", "sw", "copy"} =>
           Answered(cur[jOut']) /\ sseq[jOut'] = sess.seq_in
  <2>1. CASE OutStart \/ OutPolled \/ OutPollFail
    BY <2>1 DEF OutStart, OutPolled, OutPollFail, SessStep, Alike, TypeInv, TypeSess
  <2>2. CASE OutScan
    <3>1. /\ pcOut = "scan" /\ pcOut' \in {"test", "skip", "sw", "copy"}
          /\ UNCHANGED <<callVars, sess, streamVars, inVars, devVars, dst>>
          /\ pcOut' \in {"skip", "sw", "copy"} => Ready(jOut')
      BY <2>2 DEF OutScan
    <3>. QED
      BY <3>1 DEF SessStep, Alike, TypeInv, TypeSess, Ready
  <2>3. CASE OutStop
    BY <2>3, OutStopFacts DEF SessStep, Alike, TypeInv
  <2>4. CASE OutTest
    BY <2>4, OutTestFacts DEF SessStep, Alike, TypeInv, TypeSess
  <2>. QED
    BY <2>1, <2>2, <2>3, <2>4
<1>2. /\ caller = "run" /\ calls > 0 /\ sess.last_processed = FALSE
      /\ sess.single_thread => pcIn = "done" \/ pcOut = "start"
  BY <1>1, RunningOut
<1>3. /\ UNCHANGED <<caller, req, cur, ptr, sseq, res, hw, pcIn, jIn, pos, dptr, tmp>>
  BY <1>1 DEF callVars, streamVars, inVars, devVars
<1>4. /\ sess'.seq = sess.seq /\ sess'.seq_in = sess.seq_in
      /\ sess'.in_len = sess.in_len /\ sess'.out_len = sess.out_len
      /\ sess'.last_submitted = sess.last_submitted
      /\ sess'.single_thread = sess.single_thread
  BY <1>1 DEF SessStep, Alike
<1>5. \A k \in Slots : Held(k)' <=> Held(k)
  BY <1>3 DEF Held
<1>6. \A r \in hw : r.slot \in Slots
  BY DEF TypeInv, TypeDev, Jobs
<1>7. SlotInv' /\ Live' = Live
  BY <1>3, <1>5, <1>6, SlotKept
<1>8. Still
  BY <1>3, <1>4, <1>7 DEF Still, NextSeq, NextPos, NextDst
<1>9. SeqLive' /\ JobInv' /\ SpaceLive'
  BY <1>8, StillKept DEF SeqInv, SpaceInv
<1>10. SeqPlace'
  BY <1>1, <1>3, <1>4, <1>5 DEF SeqInv, SeqPlace
<1>11. PtrInv'
  BY <1>1, <1>3, PtrStill
<1>12. pcOut' = "done" => pcIn = "done" /\ sess.last_submitted \in BOOLEAN
  <2>1. sess.last_submitted \in BOOLEAN
    BY SessTyped DEF TypeInv, TypeSess
  <2>2. sess.seq # sess.seq + 1
    BY NextType
  <2>. QED
    BY <1>1, <1>2, <2>1, <2>2 DEF LastInv
<1>13. StageInv'
  BY <1>1, <1>2, <1>3, <1>4, <1>12 DEF StageInv
<1>14. LastInv'
  BY <1>3, <1>4 DEF LastInv, NextPos
<1>15. WholeInv'
  BY <1>3, <1>4, <1>7 DEF WholeInv, Whole, NextPos
<1>16. SpaceCall'
  BY <1>3, <1>4 DEF SpaceInv, SpaceCall, Settled, Busy, NextPos, NextDst, GivesSz, TakesSz
<1>17. FitInv'
  BY <1>1, <1>3 DEF FitInv, FitsDestination
<1>. QED
  BY <1>8, <1>7, <1>9, <1>10, <1>11, <1>13, <1>14, <1>15, <1>16, <1>17
     DEF RelInv, SeqInv, SpaceInv

LEMMA OutCallbackStep ==
    ASSUME Inv, OutCallback PROVE RelInv' /\ Still
<1>. USE DEF Inv, ProtocolInv
<1>1. /\ pcOut = "poll" /\ PtrKept
      /\ UNCHANGED <<callVars, sess, sseq, inVars, outVars, dst>>
  BY OutCallbackFacts DEF TypeInv
<1>2. PICK r \in hw : /\ r.st # "pending" /\ r \in Jobs /\ r.slot \in Slots
                      /\ hw' = hw \ {r} /\ res' = [res EXCEPT ![r.slot] = r]
                      /\ InFlight(cur[r.slot]) /\ Answered(cur'[r.slot])
                      /\ OnlySlot(cur, cur', r.slot)
  BY OutCallbackFacts DEF TypeInv
<1>3. UNCHANGED <<caller, req, pcIn, jIn, pos, dptr, tmp, pcOut, jOut>>
  BY <1>1 DEF callVars, inVars, outVars
<1>4. Live' = Live
  BY <1>2, LiveCallback DEF TypeInv
<1>5. res'[r.slot] = r /\ \A m \in Slots \ {r.slot} : res'[m] = res[m]
  BY <1>2 DEF TypeInv, TypeStream
<1>6. \A k \in Slots : Held(k)' <=> Held(k)
  BY <1>3 DEF Held
<1>7. ~Held(r.slot)
  BY <1>2 DEF SlotInv
<1>8. \A q \in hw \ {r} : q.slot \in Slots \ {r.slot}
  BY DEF SlotInv, TypeInv, TypeDev, Jobs
<1>9. SlotInv'
  <2>1. \A k \in Slots \ {r.slot} :
           /\ cur'[k] = cur[k] /\ res'[k] = res[k]
           /\ IF Held(k)
              THEN IF pcIn = "use" THEN Claimed(cur[k]) ELSE InFlight(cur[k])
              ELSE \/ Unused(cur[k])
                   \/ InFlight(cur[k]) /\ \E q \in hw \ {r} : q.slot = k
                   \/ Answered(cur[k]) /\ res[k].slot = k /\ res[k].st # "pending"
    BY <1>2, <1>5 DEF SlotInv, OnlySlot
  <2>2. \A q \in hw' : ~Held(q.slot)' /\ InFlight(cur'[q.slot])
    BY <1>2, <1>6, <1>8, <2>1 DEF SlotInv
  <2>3. \A p, q \in hw' : p.slot = q.slot => p = q
    BY <1>2 DEF SlotInv
  <2>4. \A k \in Slots :
          IF Held(k)'
          THEN IF pcIn = "use" THEN Claimed(cur'[k]) ELSE InFlight(cur'[k])
          ELSE \/ Unused(cur'[k])
               \/ InFlight(cur'[k]) /\ \E q \in hw' : q.slot = k
               \/ Answered(cur'[k]) /\ res'[k].slot = k /\ res'[k].st # "pending"
    BY <1>2, <1>5, <1>6, <1>7, <2>1
  <2>. QED
    BY <1>3, <2>2, <2>3, <2>4 DEF SlotInv
<1>10. Still
  BY <1>1, <1>3, <1>4 DEF Still, NextSeq, NextPos, NextDst
<1>11. SeqLive' /\ JobInv' /\ SpaceLive'
  BY <1>10, StillKept DEF SeqInv, SpaceInv
<1>12. SeqPlace'
  BY <1>1, <1>3, <1>6 DEF SeqInv, SeqPlace
<1>13. PtrInv'
  BY <1>1, <1>3, PtrSame
<1>14. StageInv' /\ LastInv'
  BY <1>1, <1>3 DEF StageInv, LastInv, NextPos
<1>15. WholeInv'
  BY <1>1, <1>3, <1>4 DEF WholeInv, Whole, NextPos
<1>16. GivesSz(pos, req.dest - dptr)' = GivesSz(pos, req.dest - dptr)
       /\ TakesSz(pos)' = TakesSz(pos)
  BY <1>3, Zenon DEF GivesSz, TakesSz
<1>17. SpaceCall'
  BY <1>1, <1>3, <1>16 DEF SpaceInv, SpaceCall, Settled, Busy, NextPos, NextDst
<1>18. FitInv'
  BY <1>1, <1>3 DEF FitInv, FitsDestination
<1>. QED
  BY <1>10, <1>9, <1>11, <1>12, <1>13, <1>14, <1>15, <1>17, <1>18
     DEF RelInv, SeqInv, SpaceInv

\* The answer to seq_in is taken off and n units of it are counted.
Takes(n) ==
    /\ pcOut \in {"skip", "sw", "copy"} /\ pcOut' \in {"scan", "test", "stop"}
    /\ Answered(cur[jOut]) /\ Unused(cur'[jOut])
    /\ OnlySlot(cur, cur', jOut) /\ PtrKept
    /\ sess'.seq_in = sess.seq_in + 1 /\ sess'.seq = sess.seq
    /\ sess'.in_len = sess.in_len + n /\ sess'.out_len = sess.out_len + n
    /\ sess'.last_processed = sess.last_processed
    /\ sess'.single_thread = sess.single_thread
    /\ sess'.last_submitted => sess.last_submitted \/ req.fmt = "zlib"
    /\ UNCHANGED <<caller, req, sseq, res, hw, pcIn, jIn, pos, dptr, tmp>>

\* Where the answer that is taken stands.
LEMMA FirstLive ==
    ASSUME Inv, pcOut \in {"skip", "sw", "copy"}
    PROVE  /\ caller = "run" /\ calls > 0
           /\ jOut \in Slots /\ res[jOut] \in Live
           /\ res[jOut] \in Jobs /\ res[jOut].slot = jOut
           /\ JobOK(res[jOut]) /\ sseq[jOut] = sess.seq_in
           /\ sess.seq_in < NextSeq /\ pcIn \notin {"start", "swdec"}
           /\ req.off + sess.in_len <= res[jOut].pos
           /\ res[jOut].pos + res[jOut].src <= NextPos
           /\ sess.out_len <= res[jOut].at
           /\ res[jOut].at + res[jOut].room <= NextDst
           /\ NextPos <= Total(req.mem) /\ NextDst <= req.dest
           /\ req.off \in Nat /\ req.dest \in Nat /\ Total(req.mem) \in Nat
<1>. USE DEF Inv, ProtocolInv
<1>1. caller = "run" /\ calls > 0
  BY RunningOut
<1>2. /\ jOut \in Slots /\ Answered(cur[jOut]) /\ sseq[jOut] = sess.seq_in
  BY DEF TypeInv, TypeOut, SeqInv, SeqPlace
<1>3. res[jOut] \in Live
  BY <1>2, LiveDef
<1>4. res[jOut] \in Jobs /\ res[jOut].slot = jOut
  <2>1. ~Unused(cur[jOut]) /\ ~InFlight(cur[jOut]) /\ ~Claimed(cur[jOut])
    BY <1>2, CursorStates DEF TypeInv, TypeStream
  <2>. QED
    BY <1>2, <2>1 DEF SlotInv, TypeInv, TypeStream
<1>5. JobOK(res[jOut]) /\ sess.seq_in < NextSeq
  BY <1>2, <1>3, <1>4 DEF JobInv, SeqInv, SeqLive
<1>6. pcIn \notin {"start", "swdec"}
  BY <1>5, NextType DEF NextSeq, SeqInv, SeqPlace
<1>7. /\ req.off + sess.in_len <= res[jOut].pos
      /\ res[jOut].pos + res[jOut].src <= NextPos
      /\ sess.out_len <= res[jOut].at
      /\ res[jOut].at + res[jOut].room <= NextDst
  BY <1>3 DEF SpaceInv, SpaceLive
<1>8. NextPos <= Total(req.mem) /\ NextDst <= req.dest
  BY <1>1, <1>6 DEF SpaceInv, SpaceCall, Settled
<1>9. req.off \in Nat /\ req.dest \in Nat /\ Total(req.mem) \in Nat
  BY <1>1, TotalType DEF TypeInv, TypeCall
<1>. QED
  BY <1>1, <1>2, <1>3, <1>4, <1>5, <1>6, <1>7, <1>8, <1>9

LEMMA TakeStep ==
    ASSUME Inv, NEW n \in Nat, Takes(n),
           req.off + sess.in_len + n <= res[jOut].pos + res[jOut].src,
           sess.out_len + n <= res[jOut].at + res[jOut].room
    PROVE  /\ StageInv' /\ SlotInv' /\ SeqInv' /\ LastInv' /\ WholeInv' /\ PtrInv'
           /\ JobInv' /\ SpaceInv'
           /\ Live' = Live \ {res[jOut]}
           /\ NextSeq' = NextSeq /\ NextPos' = NextPos /\ NextDst' = NextDst
<1>. USE DEF Inv, ProtocolInv
<1>1. /\ caller = "run" /\ jOut \in Slots /\ res[jOut] \in Live
      /\ res[jOut] \in Jobs /\ res[jOut].slot = jOut
      /\ sseq[jOut] = sess.seq_in
      /\ sess.seq_in < NextSeq /\ pcIn \notin {"start", "swdec"}
      /\ req.off + sess.in_len <= res[jOut].pos
      /\ res[jOut].pos + res[jOut].src <= NextPos
      /\ sess.out_len <= res[jOut].at
      /\ res[jOut].at + res[jOut].room <= NextDst
      /\ NextPos <= Total(req.mem) /\ NextDst <= req.dest
      /\ req.off \in Nat /\ req.dest \in Nat /\ Total(req.mem) \in Nat
  BY FirstLive DEF Takes
<1>2. PICK r \in Live : r = res[jOut]
  BY <1>1
<1>3. UNCHANGED <<caller, req, sseq, res, hw, pcIn, jIn, pos, dptr, tmp>>
  BY DEF Takes
<1>4. \A k \in Slots : Held(k)' <=> Held(k)
  BY <1>3 DEF Held
<1>5. /\ cur[jOut] \in Cursors /\ cur'[jOut] \in Cursors
      /\ ~InFlight(cur[jOut]) /\ ~Claimed(cur[jOut]) /\ ~Answered(cur'[jOut])
  BY <1>1, CursorStates DEF TypeInv, TypeStream, OnlySlot, Takes
<1>6. Live' = Live \ {r}
  BY <1>1, <1>2, <1>3, <1>5, LiveTake DEF Takes, TypeInv
<1>7. /\ NextSeq' = NextSeq /\ NextPos' = NextPos /\ NextDst' = NextDst
  BY <1>3 DEF NextSeq, NextPos, NextDst, Takes
<1>8. /\ sess.seq_in \in Nat /\ sess.seq \in Nat /\ NextSeq \in Nat
      /\ NextPos \in Nat /\ NextDst \in Nat
      /\ sess.in_len \in Nat /\ sess.out_len \in Nat
  BY NextType
<1>9. /\ r.pos \in Nat /\ r.src \in Nat /\ r.at \in Nat /\ r.room \in Nat
  BY <1>1, <1>2 DEF Jobs
<1>10. ~Held(jOut)
  BY <1>1, <1>5 DEF SlotInv
<1>11. SlotInv'
  <2>1. \A k \in Slots \ {jOut} : cur'[k] = cur[k]
    BY DEF Takes, OnlySlot
  <2>2. \A q \in hw : q.slot \in Slots \ {jOut}
    BY <1>5 DEF SlotInv, TypeInv, TypeDev, Jobs
  <2>3. \A k \in Slots :
          IF Held(k)'
          THEN IF pcIn = "use" THEN Claimed(cur'[k]) ELSE InFlight(cur'[k])
          ELSE \/ Unused(cur'[k])
               \/ InFlight(cur'[k]) /\ \E q \in hw : q.slot = k
               \/ Answered(cur'[k]) /\ res[k].slot = k /\ res[k].st # "pending"
    <3>1. \A k \in Slots \ {jOut} :
          IF Held(k)
          THEN IF pcIn = "use" THEN Claimed(cur[k]) ELSE InFlight(cur[k])
          ELSE \/ Unused(cur[k])
               \/ InFlight(cur[k]) /\ \E q \in hw : q.slot = k
               \/ Answered(cur[k]) /\ res[k].slot = k /\ res[k].st # "pending"
      BY DEF SlotInv
    <3>2. Unused(cur'[jOut])
      BY DEF Takes
    <3>. QED
      BY <1>4, <1>10, <2>1, <3>1, <3>2
  <2>4. \A q \in hw : ~Held(q.slot)' /\ InFlight(cur'[q.slot])
    BY <1>4, <2>1, <2>2 DEF SlotInv
  <2>. QED
    BY <1>3, <2>3, <2>4 DEF SlotInv
<1>12. \A q \in Live \ {r} : sseq[q.slot] \in Int /\ sess.seq_in < sseq[q.slot]
  <2>1. \A q \in Live : q.slot \in Slots
    BY LiveFact DEF TypeInv
  <2>2. \A q \in Live : sseq[q.slot] \in Int
    BY <2>1 DEF TypeInv, TypeStream
  <2>. QED
    BY <1>1, <1>2, <1>8, <2>2 DEF SeqInv, SeqLive
<1>13. SeqLive'
  <2>1. \A q \in Live' : sess.seq_in + 1 <= sseq[q.slot] /\ sseq[q.slot] < NextSeq
    BY <1>6, <1>8, <1>12 DEF SeqInv, SeqLive
  <2>2. \A m \in (sess.seq_in + 1)..(NextSeq - 1) : \E q \in Live' : sseq[q.slot] = m
    <3>1. SUFFICES ASSUME NEW m \in (sess.seq_in + 1)..(NextSeq - 1)
                   PROVE  \E q \in Live' : sseq[q.slot] = m
      OBVIOUS
    <3>2. m \in sess.seq_in..(NextSeq - 1) /\ m # sess.seq_in
      BY <1>8
    <3>3. PICK q \in Live : sseq[q.slot] = m
      BY <3>2 DEF SeqInv, SeqLive
    <3>4. q # r
      BY <1>1, <1>2, <3>2, <3>3
    <3>. QED
      BY <1>6, <3>3, <3>4
  <2>3. sess'.seq_in = sess.seq_in + 1
    BY DEF Takes
  <2>4. \A p, q \in Live' : sseq[p.slot] = sseq[q.slot] => p = q
    BY <1>6 DEF SeqInv, SeqLive
  <2>5. sess.seq_in + 1 <= NextSeq
    BY <1>1, <1>8
  <2>. QED
    BY <1>3, <1>7, <2>1, <2>2, <2>3, <2>4, <2>5 DEF SeqLive
<1>14. SeqPlace'
  BY <1>1, <1>3, <1>4 DEF SeqInv, SeqPlace, Takes
<1>15. JobInv'
  BY <1>3, <1>6 DEF JobInv, JobOK, Whole
<1>16. SpaceLive'
  <2>1. \A q \in Live' : /\ q.pos \in Nat /\ q.src \in Nat /\ q.at \in Nat
                         /\ q.room \in Nat
    BY <1>6, LiveFact DEF TypeInv, Jobs
  <2>2. \A q \in Live' : r.pos + r.src <= q.pos /\ r.at + r.room <= q.at
    BY <1>1, <1>2, <1>6, <1>12 DEF SpaceInv, SpaceLive
  <2>3. \A q \in Live' : /\ req.off + (sess.in_len + n) <= q.pos
                         /\ sess.out_len + n <= q.at
    BY <1>1, <1>2, <1>8, <1>9, <2>1, <2>2
  <2>4. \A q \in Live' : q.pos + q.src <= NextPos /\ q.at + q.room <= NextDst
    BY <1>6 DEF SpaceInv, SpaceLive
  <2>5. \A p, q \in Live' : sseq[p.slot] < sseq[q.slot] =>
            p.pos + p.src <= q.pos /\ p.at + p.room <= q.at
    BY <1>6 DEF SpaceInv, SpaceLive
  <2>6. sess'.in_len = sess.in_len + n /\ sess'.out_len = sess.out_len + n
    BY DEF Takes
  <2>. QED
    BY <1>3, <1>7, <2>3, <2>4, <2>5, <2>6 DEF SpaceLive
<1>17. SpaceCall'
  <2>1. /\ req.off + (sess.in_len + n) <= NextPos /\ NextPos <= Total(req.mem)
        /\ sess.out_len + n <= NextDst /\ NextDst <= req.dest
    BY <1>1, <1>2, <1>8, <1>9
  <2>2. /\ req.off + (sess.in_len + n) <= Total(req.mem)
        /\ sess.out_len + n <= req.dest
    BY <1>1, <1>8, <2>1
  <2>3. sess.in_len + n = sess.out_len + n
    BY <1>1 DEF SpaceInv, SpaceCall
  <2>4. sess'.in_len = sess.in_len + n /\ sess'.out_len = sess.out_len + n
    BY DEF Takes
  <2>5. GivesSz(pos, req.dest - dptr)' = GivesSz(pos, req.dest - dptr)
        /\ TakesSz(pos)' = TakesSz(pos)
    BY <1>3, Zenon DEF GivesSz, TakesSz
  <2>. QED
    BY <1>1, <1>3, <1>7, <2>1, <2>2, <2>3, <2>4, <2>5
       DEF SpaceInv, SpaceCall, Settled, Busy
<1>18. PtrInv'
  BY <1>3, PtrSame DEF Takes
<1>19. StageInv'
  BY <1>3 DEF StageInv, Takes
<1>20. WholeInv'
  BY <1>3, <1>6, <1>7, <1>8 DEF WholeInv, Whole, Takes
<1>21. LastInv'
  <2>1. pcIn = "adv" => NextSeq = sess.seq + 1
    BY DEF NextSeq
  <2>2. req.fmt = "zlib" => \/ pcIn = "done"
                            \/ /\ pcIn = "adv" /\ NextPos = Total(req.mem)
                               /\ sess.seq <= sess.seq_in
    BY <1>1 DEF WholeInv, Whole
  <2>3. /\ sess'.seq_in = sess.seq_in + 1 /\ sess'.seq = sess.seq
        /\ sess'.single_thread = sess.single_thread
        /\ sess'.last_submitted => sess.last_submitted \/ req.fmt = "zlib"
    BY DEF Takes
  <2>. QED
    BY <1>1, <1>3, <1>7, <1>8, <2>1, <2>2, <2>3 DEF LastInv
<1>. QED
  BY <1>2, <1>6, <1>7, <1>11, <1>13, <1>14, <1>15, <1>16, <1>17, <1>18, <1>19,
     <1>20, <1>21 DEF SeqInv, SpaceInv

LEMMA OutSkipStep ==
    ASSUME Inv, OutSkip PROVE RelInv' /\ Took
<1>. USE DEF Inv, ProtocolInv
<1>1. /\ pcOut = "skip" /\ pcOut' = "scan" /\ Responded(sess)
      /\ UNCHANGED <<callVars, inVars, devVars, dst>>
  BY OutSkipFacts DEF TypeInv
<1>2. UNCHANGED <<caller, req, sseq, res, hw, pcIn, jIn, pos, dptr, tmp>>
  BY <1>1 DEF Responded, callVars, inVars, devVars
<1>3. /\ sess.in_len + 0 = sess.in_len /\ sess.out_len + 0 = sess.out_len
  BY NextType
<1>4. Takes(0)
  BY <1>1, <1>2, <1>3 DEF Takes, Responded, Alike
<1>5. /\ req.off + sess.in_len + 0 <= res[jOut].pos + res[jOut].src
      /\ sess.out_len + 0 <= res[jOut].at + res[jOut].room
  <2>1. /\ res[jOut] \in Jobs /\ req.off \in Nat
        /\ req.off + sess.in_len <= res[jOut].pos
        /\ sess.out_len <= res[jOut].at
    BY <1>1, FirstLive
  <2>2. /\ res[jOut].pos \in Nat /\ res[jOut].src \in Nat
        /\ res[jOut].at \in Nat /\ res[jOut].room \in Nat
    BY <2>1 DEF Jobs
  <2>. QED
    BY <2>1, <2>2, NextType
<1>6. FitInv'
  BY <1>1, <1>2 DEF FitInv, FitsDestination
<1>. QED
  BY <1>2, <1>4, <1>5, <1>6, TakeStep DEF RelInv, Took, Takes

\* What the device or the software made of an answer fits its place.
LEMMA CountFits ==
    ASSUME Inv, pcOut \in {"skip", "sw", "copy"}, NEW n \in Nat,
           n <= res[jOut].room,
           \/ n <= Rest(req.mem, req.off + sess.in_len)
           \/ n <= res[jOut].src
    PROVE  /\ req.off + sess.in_len + n <= res[jOut].pos + res[jOut].src
           /\ sess.out_len + n <= res[jOut].at + res[jOut].room
<1>. USE DEF Inv, ProtocolInv
<1>1. /\ res[jOut] \in Jobs /\ req.off \in Nat /\ JobOK(res[jOut]) /\ calls > 0
      /\ req.off + sess.in_len <= res[jOut].pos
      /\ sess.out_len <= res[jOut].at /\ Total(req.mem) \in Nat
  BY FirstLive
<1>2. PICK p \in Nat : p = req.off + sess.in_len
  BY <1>1, NextType
<1>3. PICK q, s, a, m \in Nat : /\ q = res[jOut].pos /\ s = res[jOut].src
                                /\ a = res[jOut].at /\ m = res[jOut].room
  BY <1>1 DEF Jobs
<1>4. p <= q /\ q < Total(req.mem) /\ req.mem \in Sources
  BY <1>1, <1>2, <1>3 DEF JobOK, TypeInv, TypeCall
<1>5. /\ Rest(req.mem, p) \in Nat /\ Rest(req.mem, q) \in Nat
      /\ p + Rest(req.mem, p) <= q + Rest(req.mem, q)
      /\ p + Rest(req.mem, p) <= Total(req.mem)
  BY <1>1, <1>4, RestFact, RestMonotone
<1>6. s = IF Whole THEN Total(req.mem) - q ELSE Rest(req.mem, q)
  BY <1>1, <1>3 DEF JobOK
<1>7. p + Rest(req.mem, p) <= q + s
  BY <1>1, <1>5, <1>6
<1>8. n <= Rest(req.mem, p) \/ n <= s
  BY <1>2, <1>3
<1>9. p + n <= q + s
  BY <1>4, <1>5, <1>7, <1>8
<1>10. sess.out_len + n <= a + m
  BY <1>1, <1>3, NextType
<1>. QED
  BY <1>2, <1>3, <1>9, <1>10

\* Writing at the counters stays within the destination.
LEMMA CountWrites ==
    ASSUME Inv, pcOut \in {"sw", "copy"}, NEW n \in Nat,
           sess.out_len + n <= res[jOut].at + res[jOut].room
    PROVE  /\ sess.out_len + n <= req.dest
           /\ DOMAIN dst = 1..(req.dest + HwBuffSz) /\ HwBuffSz \in Nat
<1>1. /\ res[jOut] \in Jobs /\ calls > 0 /\ req.dest \in Nat
      /\ res[jOut].at + res[jOut].room <= NextDst /\ NextDst <= req.dest
  BY FirstLive
<1>2. PICK a, m \in Nat : a = res[jOut].at /\ m = res[jOut].room
  BY <1>1 DEF Jobs
<1>5. sess.out_len + n <= a + m /\ a + m <= NextDst
  BY <1>1, <1>2
<1>3. sess.out_len \in Nat /\ NextDst \in Nat
  BY NextType DEF Inv
<1>4. DOMAIN dst = 1..(req.dest + HwBuffSz) /\ HwBuffSz \in Nat
  BY <1>1, DecompressAssumption DEF Inv, TypeInv, TypeCall
<1>6. sess.out_len + n <= req.dest
  BY <1>1, <1>3, <1>5
<1>. QED
  BY <1>4, <1>6

LEMMA OutCopyStep ==
    ASSUME Inv, OutCopy PROVE RelInv' /\ Took
<1>. USE DEF Inv, ProtocolInv
<1>1. LET r == res[jOut]
      IN  /\ pcOut = "copy" /\ jOut \in Slots
          /\ r \in Jobs /\ Answered(cur[jOut])
          /\ sess'.seq_in = sess.seq_in + 1
          /\ Alike(sess', sess, {"last_submitted", "seq_in", "in_len",
                      "out_len", "eos"})
          /\ OnlySlot(cur, cur', jOut) /\ Unused(cur'[jOut]) /\ PtrKept
          /\ \/ /\ pcOut' = "test"
                /\ sess'.in_len = sess.in_len + r.n
                /\ sess'.out_len = sess.out_len + r.n
             \/ /\ pcOut' = "stop"
                /\ sess'.in_len = sess.in_len
                /\ sess'.out_len = sess.out_len
          /\ UNCHANGED <<callVars, inVars, jOut, sseq, res, devVars>>
  BY OutCopyFacts DEF TypeInv
<1>2. UNCHANGED <<caller, req, sseq, res, hw, pcIn, jIn, pos, dptr, tmp>>
  BY <1>1 DEF callVars, inVars, devVars
<1>3. sess'.last_submitted => sess.last_submitted \/ req.fmt = "zlib"
  BY OutCopyFacts DEF TypeInv
<1>4. PICK r \in Jobs : r = res[jOut] /\ JobOK(r)
  BY <1>1, FirstLive
<1>5. r.n \in Nat /\ r.n <= r.room /\ r.n <= r.src
  <2>1. /\ r.n \in Nat /\ r.room \in Nat /\ r.src \in Nat /\ r.pos \in Nat
        /\ r.st \in JobStates /\ r.sz \in Nat
    BY DEF Jobs
  <2>2. /\ req.mem \in Sources /\ r.pos < Total(req.mem)
        /\ Total(req.mem) \in Nat
    BY <1>1, <1>4, FirstLive DEF TypeInv, TypeCall, JobOK
  <2>3. /\ Rest(req.mem, r.pos) \in Nat
        /\ r.pos + Rest(req.mem, r.pos) <= Total(req.mem)
    BY <2>1, <2>2, RestFact
  <2>4. Rest(req.mem, r.pos) <= r.src
    BY <1>4, <2>1, <2>2, <2>3 DEF JobOK
  <2>5. \/ r.n = 0
        \/ r.n = r.sz /\ r.sz <= r.room /\ r.sz = Rest(req.mem, r.pos)
    BY <1>4, <2>1 DEF JobOK, JobStates
  <2>. QED
    BY <2>1, <2>3, <2>4, <2>5
<1>6. PICK n \in {0, r.n} : sess'.in_len = sess.in_len + n
                            /\ sess'.out_len = sess.out_len + n
  BY <1>1, <1>4, NextType
<1>7. n \in Nat /\ n <= res[jOut].room /\ n <= res[jOut].src
  BY <1>4, <1>5, <1>6 DEF Jobs
<1>8. Takes(n)
  BY <1>1, <1>2, <1>3, <1>6 DEF Takes, Alike
<1>9. /\ req.off + sess.in_len + n <= res[jOut].pos + res[jOut].src
      /\ sess.out_len + n <= res[jOut].at + res[jOut].room
  BY <1>1, <1>7, CountFits
<1>10. sess.out_len + r.n <= res[jOut].at + res[jOut].room
  BY <1>1, <1>4, <1>5, CountFits
<1>11. /\ sess.out_len + r.n <= req.dest /\ sess.out_len \in Nat
       /\ DOMAIN dst = 1..(req.dest + HwBuffSz) /\ HwBuffSz \in Nat
       /\ req.dest \in Nat
  BY <1>1, <1>5, <1>10, CountWrites, NextType, FirstLive
<1>12. dst' = IF r.lent THEN dst
              ELSE Put(dst, sess.out_len, r.pos, r.n, r.st = "ok")
  BY <1>4, OutCopyFacts DEF TypeInv
<1>13. /\ DOMAIN dst' = DOMAIN dst
       /\ \A i \in DOMAIN dst : i > req.dest => dst'[i] = dst[i]
  BY <1>5, <1>11, <1>12 DEF Put
<1>14. FitInv'
  BY <1>2, <1>13 DEF FitInv, FitsDestination
<1>. QED
  BY <1>2, <1>7, <1>8, <1>9, <1>14, TakeStep DEF RelInv, Took, Takes

\* A failed repetition in software, or none: the error exit comes next.
LEMMA OutSWFailStep ==
    ASSUME Inv, pcOut = "sw", pcOut' = "err", cur' = cur,
           sess' \in Sessions,
           Alike(sess', sess, {"inflate", "ipos", "force_sw", "eos"}),
           UNCHANGED <<callVars, inVars, jOut, sseq, res, devVars>>, FitInv'
    PROVE  RelInv' /\ Still
<1>. USE DEF Inv, ProtocolInv
<1>1. UNCHANGED <<caller, req, sseq, res, hw, pcIn, jIn, pos, dptr, tmp, cur>>
  BY DEF callVars, inVars, devVars
<1>2. \A k \in Slots : Held(k)' <=> Held(k)
  BY <1>1 DEF Held
<1>3. \A r \in hw : r.slot \in Slots
  BY DEF TypeInv, TypeDev, Jobs
<1>4. SlotInv' /\ Live' = Live
  BY <1>1, <1>2, <1>3, SlotKept
<1>5. /\ sess'.seq = sess.seq /\ sess'.seq_in = sess.seq_in
      /\ sess'.in_len = sess.in_len /\ sess'.out_len = sess.out_len
      /\ sess'.last_submitted = sess.last_submitted
      /\ sess'.last_processed = sess.last_processed
      /\ sess'.single_thread = sess.single_thread
  BY DEF Alike
<1>6. Still
  BY <1>1, <1>4, <1>5 DEF Still, NextSeq, NextPos, NextDst
<1>7. SeqLive' /\ JobInv' /\ SpaceLive'
  BY <1>6, StillKept DEF SeqInv, SpaceInv
<1>8. SeqPlace'
  BY <1>1, <1>2, <1>5 DEF SeqInv, SeqPlace
<1>9. StageInv' /\ LastInv' /\ PtrInv'
  BY <1>1, <1>5 DEF StageInv, LastInv, PtrInv, NextPos
<1>10. WholeInv'
  BY <1>1, <1>4, <1>5 DEF WholeInv, Whole, NextPos
<1>11. GivesSz(pos, req.dest - dptr)' = GivesSz(pos, req.dest - dptr)
       /\ TakesSz(pos)' = TakesSz(pos)
  BY <1>1, Zenon DEF GivesSz, TakesSz
<1>12. SpaceCall'
  BY <1>1, <1>5, <1>11
     DEF SpaceInv, SpaceCall, Settled, Busy, NextPos, NextDst
<1>. QED
  BY <1>6, <1>4, <1>7, <1>8, <1>9, <1>10, <1>12 DEF RelInv, SeqInv, SpaceInv

LEMMA OutSWStep ==
    ASSUME Inv, OutSW
    PROVE  RelInv' /\ ((pcOut' = "err" /\ Still) \/ (pcOut' = "test" /\ Took))
<1>. USE DEF Inv, ProtocolInv
<1> DEFINE p == req.off + sess.in_len
           room == res[jOut].room
<1>1. /\ pcOut = "sw" /\ jOut \in Slots /\ p \in Nat /\ p < Total(req.mem)
      /\ Answered(cur[jOut]) /\ room \in Nat
      /\ UNCHANGED <<callVars, inVars, jOut, sseq, res, devVars>>
  BY OutSWFacts DEF TypeInv
<1>2. UNCHANGED <<caller, req, sseq, res, hw, pcIn, jIn, pos, dptr, tmp>>
  BY <1>1 DEF callVars, inVars, devVars
<1>3. CASE pcOut' = "err" /\ UNCHANGED <<sess, cur, dst>>
  <2>1. sess' \in Sessions /\ Alike(sess', sess, {"inflate", "ipos", "force_sw", "eos"})
    BY <1>3 DEF TypeInv, TypeSess, Alike
  <2>2. FitInv'
    BY <1>2, <1>3 DEF FitInv, FitsDestination
  <2>. QED
    BY <1>1, <1>3, <2>1, <2>2, OutSWFailStep
<1>4. ASSUME NEW r \in SwResults(SwOne(p, room)),
             SwAnswer(r, p, room),
             dst' = Put(dst, sess.out_len, p, r.n, TRUE),
             sess' \in Sessions,
             \/ /\ pcOut' = "test"
                /\ Alike(sess', sess, {"inflate", "ipos", "force_sw",
                                       "eos", "seq_in", "in_len", "out_len"})
                /\ sess'.seq_in = sess.seq_in + 1
                /\ sess'.in_len = sess.in_len + r.n
                /\ sess'.out_len = sess.out_len + r.n
                /\ OnlySlot(cur, cur', jOut) /\ Unused(cur'[jOut])
                /\ PtrKept
             \/ /\ pcOut' = "err" /\ cur' = cur
                /\ Alike(sess', sess, {"inflate", "ipos", "force_sw", "eos"})
      PROVE  RelInv' /\ ((pcOut' = "err" /\ Still) \/ (pcOut' = "test" /\ Took))
  <2>1. req.mem \in Sources /\ sess.inflate \in InflateStates
    BY <1>1, FirstLive, SessTyped DEF TypeInv, TypeCall, TypeSess
  <2>2. r.n \in Nat /\ r.n <= room /\ r.n <= Rest(req.mem, p)
    BY <1>1, <1>4, <2>1, SwOneFact DEF SwAnswer
  <2>3. /\ req.off + sess.in_len + r.n <= res[jOut].pos + res[jOut].src
        /\ sess.out_len + r.n <= res[jOut].at + res[jOut].room
    BY <1>1, <2>2, CountFits
  <2>4. /\ sess.out_len + r.n <= req.dest /\ sess.out_len \in Nat
        /\ DOMAIN dst = 1..(req.dest + HwBuffSz) /\ HwBuffSz \in Nat
        /\ req.dest \in Nat
    BY <1>1, <2>2, <2>3, CountWrites, NextType, FirstLive
  <2>5. /\ DOMAIN dst' = DOMAIN dst
        /\ \A i \in DOMAIN dst : i > req.dest => dst'[i] = dst[i]
    BY <1>4, <2>2, <2>4 DEF Put
  <2>6. FitInv'
    BY <1>2, <2>5 DEF FitInv, FitsDestination
  <2>7. CASE pcOut' = "test"
    <3>1. Takes(r.n)
      BY <1>1, <1>2, <1>4, <2>7 DEF Takes, Alike
    <3>. QED
      BY <1>2, <2>2, <2>3, <2>6, <2>7, <3>1, TakeStep DEF RelInv, Took, Takes
  <2>8. CASE pcOut' = "err"
    BY <1>1, <1>4, <2>6, <2>8, OutSWFailStep
  <2>. QED
    BY <1>4, <2>7, <2>8
<1>5. \/ \E r \in SwResults(SwOne(p, room)) :
           /\ SwAnswer(r, p, room)
           /\ dst' = Put(dst, sess.out_len, p, r.n, TRUE)
           /\ sess' \in Sessions
           /\ \/ /\ pcOut' = "test"
                 /\ Alike(sess', sess, {"inflate", "ipos", "force_sw",
                                        "eos", "seq_in", "in_len", "out_len"})
                 /\ sess'.seq_in = sess.seq_in + 1
                 /\ sess'.in_len = sess.in_len + r.n
                 /\ sess'.out_len = sess.out_len + r.n
                 /\ OnlySlot(cur, cur', jOut) /\ Unused(cur'[jOut])
                 /\ PtrKept
              \/ /\ pcOut' = "err" /\ cur' = cur
                 /\ Alike(sess', sess, {"inflate", "ipos", "force_sw", "eos"})
      \/ pcOut' = "err" /\ UNCHANGED <<sess, cur, dst>>
  BY OutSWFacts DEF TypeInv
<1>. QED
  BY <1>3, <1>4, <1>5

LEMMA HwCompleteStep ==
    ASSUME Inv, HwComplete 
    PROVE  RelInv' /\ \E r, a : HwCompleteEffect(r, a) /\ AnsweredWith(r, a)
<1>. USE DEF Inv, ProtocolInv
<1>1. UNCHANGED <<callVars, sess, streamVars, inVars, outVars>>
  BY HwCompleteFacts DEF TypeInv
<1>2. UNCHANGED <<caller, req, cur, ptr, sseq, res, pcIn, jIn, pos, dptr, tmp,
                  pcOut, jOut>>
  BY <1>1 DEF callVars, streamVars, inVars, outVars
<1>3. PICK r \in hw : \E a : HwCompleteEffect(r, a)
  BY HwCompleteFacts DEF TypeInv
<1>4. PICK a : HwCompleteEffect(r, a)
  BY <1>3
<1>5. /\ r \in Jobs /\ a \in Jobs /\ a.slot = r.slot /\ a.pos = r.pos
      /\ a.sz = r.sz /\ a.kind = r.kind /\ a.at = r.at /\ a.src = r.src
      /\ a.room = r.room /\ a.lent = r.lent /\ r.st = "pending"
      /\ hw' = (hw \ {r}) \cup {a}
      /\ \/ /\ r.kind \in {"ok", "bad"} /\ r.sz <= r.room /\ a.n = r.sz
            /\ a.st = IF r.kind = "ok" THEN "ok" ELSE "crc"
            /\ dst' = IF r.lent
                      THEN Put(dst, r.at, r.pos, r.sz, r.kind = "ok")
                      ELSE dst
         \/ a.n = r.n /\ a.st = "err" /\ dst' = dst
  BY <1>4 DEF HwCompleteEffect, AnswerTo
<1>6. Live' = (Live \ {r}) \cup {a}
  BY <1>2, <1>3, <1>5, LiveAnswer DEF TypeInv
<1>7. r \in Live /\ JobOK(r)
  BY <1>3, LiveDef DEF JobInv
<1>8. \A k \in Slots : Held(k)' <=> Held(k)
  BY <1>2 DEF Held
<1>9. SlotInv'
  <2>1. \A q \in hw' : ~Held(q.slot)' /\ InFlight(cur[q.slot])
    <3>1. \A q \in hw : q.slot \in Slots /\ ~Held(q.slot) /\ InFlight(cur[q.slot])
      BY DEF SlotInv, TypeInv, TypeDev, Jobs
    <3>. QED
      BY <1>3, <1>5, <1>8, <3>1
  <2>2. \A p, q \in hw' : p.slot = q.slot => p = q
    BY <1>3, <1>5 DEF SlotInv
  <2>3. \A k \in Slots : (\E q \in hw : q.slot = k) => \E q \in hw' : q.slot = k
    BY <1>5
  <2>4. \A k \in Slots :
          IF Held(k)
          THEN IF pcIn = "use" THEN Claimed(cur[k]) ELSE InFlight(cur[k])
          ELSE \/ Unused(cur[k])
               \/ InFlight(cur[k]) /\ \E q \in hw : q.slot = k
               \/ Answered(cur[k]) /\ res[k].slot = k /\ res[k].st # "pending"
    BY DEF SlotInv
  <2>. QED
    BY <1>2, <1>8, <2>1, <2>2, <2>3, <2>4 DEF SlotInv
<1>10. /\ NextSeq' = NextSeq /\ NextPos' = NextPos /\ NextDst' = NextDst
  BY <1>1, <1>2 DEF NextSeq, NextPos, NextDst
<1>11. SeqLive'
  <2>1. \A n \in sess.seq_in..(NextSeq - 1) : \E q \in Live' : sseq[q.slot] = n
    <3>1. SUFFICES ASSUME NEW n \in sess.seq_in..(NextSeq - 1)
                   PROVE  \E q \in Live' : sseq[q.slot] = n
      OBVIOUS
    <3>2. PICK q \in Live : sseq[q.slot] = n
      BY DEF SeqInv, SeqLive
    <3>. QED
      BY <1>5, <1>6, <3>2
  <2>2. \A p, q \in Live' : sseq[p.slot] = sseq[q.slot] => p = q
    BY <1>5, <1>6, <1>7 DEF SeqInv, SeqLive
  <2>3. \A q \in Live' : sess.seq_in <= sseq[q.slot] /\ sseq[q.slot] < NextSeq
    BY <1>5, <1>6, <1>7 DEF SeqInv, SeqLive
  <2>4. sess.seq_in <= NextSeq
    BY DEF SeqInv, SeqLive
  <2>. QED
    BY <1>1, <1>2, <1>10, <2>1, <2>2, <2>3, <2>4 DEF SeqLive
<1>12. SeqPlace'
  BY <1>1, <1>2, <1>8 DEF SeqInv, SeqPlace
<1>13. JobInv'
  <2>1. JobOK(a)
    BY <1>5, <1>7 DEF JobOK
  <2>. QED
    BY <1>2, <1>6, <2>1 DEF JobInv, JobOK, Whole
<1>14. SpaceLive'
  <2>1. \A q \in Live' : \E s \in Live :
           /\ q.slot = s.slot /\ q.pos = s.pos /\ q.src = s.src /\ q.at = s.at
           /\ q.room = s.room
    BY <1>5, <1>6, <1>7
  <2>2. \A q \in Live : /\ req.off + sess.in_len <= q.pos
                        /\ q.pos + q.src <= NextPos
                        /\ sess.out_len <= q.at /\ q.at + q.room <= NextDst
    BY DEF SpaceInv, SpaceLive
  <2>3. \A p, q \in Live : sseq[p.slot] < sseq[q.slot] =>
            p.pos + p.src <= q.pos /\ p.at + p.room <= q.at
    BY DEF SpaceInv, SpaceLive
  <2>4. \A q \in Live' : /\ req.off + sess.in_len <= q.pos
                         /\ q.pos + q.src <= NextPos
                         /\ sess.out_len <= q.at /\ q.at + q.room <= NextDst
    BY <2>1, <2>2
  <2>5. \A p, q \in Live' : sseq[p.slot] < sseq[q.slot] =>
            p.pos + p.src <= q.pos /\ p.at + p.room <= q.at
    BY <2>1, <2>3
  <2>. QED
    BY <1>1, <1>2, <1>10, <2>4, <2>5 DEF SpaceLive
<1>15. SpaceCall'
  <2>1. GivesSz(pos, req.dest - dptr)' = GivesSz(pos, req.dest - dptr)
        /\ TakesSz(pos)' = TakesSz(pos)
    BY <1>2, Zenon DEF GivesSz, TakesSz
  <2>. QED
    BY <1>1, <1>2, <1>10, <2>1 DEF SpaceInv, SpaceCall, Settled, Busy
<1>16. PtrInv'
  BY <1>2, PtrStill
<1>17. StageInv' /\ LastInv'
  BY <1>1, <1>2, <1>10 DEF StageInv, LastInv
<1>18. WholeInv'
  BY <1>1, <1>2, <1>6, <1>7, <1>10 DEF WholeInv, Whole
<1>19. FitInv'
  <2>1. /\ r.at + r.room <= NextDst /\ r.at \in Nat /\ r.room \in Nat /\ r.sz \in Nat
    BY <1>5, <1>7 DEF SpaceInv, SpaceLive, Jobs
  <2>2. Live # {}
    BY <1>7
  <2>3. caller = "run" /\ calls > 0
    <3>1. pcOut # "done"
      BY <1>7, Resting DEF SeqInv
    <3>. QED
      BY <3>1, RunningOut
  <2>4. pcIn # "start"
    BY <2>2, NoneLive DEF SeqInv, SeqPlace, NextSeq
  <2>5. NextDst <= req.dest /\ NextDst \in Nat /\ req.dest \in Nat
    BY <2>3, <2>4, NextType DEF SpaceInv, SpaceCall, Settled, TypeInv, TypeCall
  <2>6. DOMAIN dst = 1..(req.dest + HwBuffSz) /\ HwBuffSz \in Nat
    BY <2>3, DecompressAssumption DEF TypeInv, TypeCall
  <2>7. r.sz <= r.room => r.at + r.sz <= req.dest
    BY <2>1, <2>5
  <2>8. /\ DOMAIN dst' = DOMAIN dst
        /\ \A i \in DOMAIN dst : i > req.dest => dst'[i] = dst[i]
    BY <1>5, <2>1, <2>5, <2>6, <2>7 DEF Put
  <2>. QED
    BY <1>2, <2>8 DEF FitInv, FitsDestination
<1>20. HwCompleteEffect(r, a) /\ AnsweredWith(r, a)
  BY <1>1, <1>2, <1>4, <1>5, <1>6, <1>7, <1>10 DEF AnsweredWith
<1>. QED
  BY <1>20, <1>9, <1>11, <1>12, <1>13, <1>14, <1>15, <1>16, <1>17, <1>18, <1>19
     DEF RelInv, SeqInv, SpaceInv

-----------------------------------------------------------------------------
(* The caller.                                                             *)

\* The next batch, or a call that begins or ends: nothing is live.
LEMMA CalmStep ==
    ASSUME Inv, pcOut = "done", UNCHANGED streamVars, hw' = hw,
           pcIn' \in {"start", "done"}, pcOut' = pcIn',
           caller' = "run" <=> pcIn' = "start",
           sess' \in Sessions, sess'.seq = sess'.seq_in,
           caller' = "run" =>
              /\ ~sess'.last_processed /\ (sess'.single_thread \/ ~sess'.last_submitted)
              /\ req'.off + sess'.in_len <= Total(req'.mem)
              /\ sess'.out_len <= req'.dest /\ sess'.in_len = sess'.out_len,
           FitInv'
    PROVE  RelInv'
<1>. USE DEF Inv, ProtocolInv
<1>1. /\ Live = {} /\ hw = {} /\ pcIn = "done"
      /\ \A k \in Slots : Unused(cur[k]) /\ ptr[k] = AtRest
  BY Resting DEF SeqInv
<1>2. UNCHANGED <<cur, ptr, sseq, res>>
  BY DEF streamVars
<1>3. Live' = {}
  BY <1>1, <1>2, LiveSame
<1>4. \A k \in Slots : ~Held(k)'
  BY DEF Held
<1>5. SlotInv'
  BY <1>1, <1>2, <1>4 DEF SlotInv
<1>6. sess'.seq \in Nat /\ sess'.seq_in \in Nat /\ NextSeq' = sess'.seq_in
  BY SessTyped DEF NextSeq
<1>7. SeqLive' /\ JobInv' /\ SpaceLive'
  BY <1>3, <1>6, EmptyKept
<1>8. SeqPlace'
  BY <1>4 DEF SeqPlace
<1>9. StageInv' /\ LastInv'
  BY DEF StageInv, LastInv
<1>10. WholeInv'
  BY <1>3 DEF WholeInv
<1>11. PtrInv'
  <2>1. PtrOf(cur)' = [k \in Slots |-> AtRest]
    BY <1>1, <1>2 DEF PtrOf
  <2>2. ptr = [k \in Slots |-> AtRest]
    <3>1. ptr = PtrOf(cur)
      BY DEF PtrInv
    <3>. QED
      BY <1>1, <3>1 DEF PtrOf
  <2>. QED
    BY <1>2, <2>1, <2>2 DEF PtrInv
<1>12. SpaceCall'
  BY DEF SpaceCall, Settled, Busy
<1>. QED
  BY <1>5, <1>7, <1>8, <1>9, <1>10, <1>11, <1>12 DEF RelInv, SeqInv, SpaceInv

\* Nothing is written beyond the destination by a decoder of the caller.
LEMMA CallWrites ==
    ASSUME Inv, calls > 0, NEW at \in Nat, NEW n \in Nat, at + n <= req.dest,
           NEW p, dst' = Put(dst, at, p, n, TRUE), req' = req
    PROVE  FitInv'
<1>1. /\ DOMAIN dst = 1..(req.dest + HwBuffSz) /\ HwBuffSz \in Nat
      /\ req.dest \in Nat
  BY DecompressAssumption DEF Inv, TypeInv, TypeCall
<1>2. /\ DOMAIN dst' = DOMAIN dst
      /\ \A i \in DOMAIN dst : i > req.dest => dst'[i] = dst[i]
  BY <1>1 DEF Put
<1>. QED
  BY <1>2 DEF Inv, FitInv, FitsDestination

LEMMA CallStepStep ==
    ASSUME Inv, CallNew \/ CallOn PROVE RelInv'
<1>1. PICK r : Call(r)
  BY DEF CallNew, CallOn
<1>2. /\ caller = "idle" /\ caller' = "enter"
      /\ dst' = [i \in 1..(r.dest + HwBuffSz) |-> 0]
      /\ UNCHANGED <<sess, streamVars, inVars, outVars, devVars>>
  BY <1>1 DEF Call
<1>3. pcOut = "done" /\ pcIn = "done"
  BY <1>2 DEF Inv, ProtocolInv, StageInv
<1>4. hw' = hw /\ pcIn' = pcIn /\ pcOut' = pcOut
  BY <1>2 DEF inVars, outVars, devVars
<1>5. FitInv'
  BY <1>2 DEF FitInv, FitsDestination
<1>6. sess' \in Sessions /\ sess'.seq = sess'.seq_in
  BY <1>2, <1>3 DEF Inv, TypeInv, TypeSess, ProtocolInv, StageInv
<1>. QED
  BY <1>2, <1>3, <1>4, <1>5, <1>6, CalmStep

LEMMA EnterStep ==
    ASSUME Inv, EnterHW \/ EnterSW \/ EnterRefused PROVE RelInv'
<1>1. caller = "enter"
  BY EnterSWFacts, EnterRefusedFacts, Zenon DEF EnterHW, Inv, TypeInv
<1>2. /\ pcOut = "done" /\ pcIn = "done" /\ calls > 0 /\ sess.seq = sess.seq_in
      /\ req.off \in Nat /\ req.dest \in Nat /\ req.off < Total(req.mem)
      /\ Total(req.mem) \in Nat
  BY <1>1, TotalType DEF Inv, ProtocolInv, StageInv, TypeInv, TypeCall
<1>3. CASE EnterHW
  <2>1. /\ sess' \in Sessions
        /\ sess'.seq = 0 /\ sess'.seq_in = 0
        /\ sess'.last_submitted = FALSE /\ sess'.last_processed = FALSE
        /\ sess'.in_len = 0 /\ sess'.out_len = 0
    BY <1>3, EnterHWFacts DEF Inv, TypeInv
  <2>2. /\ caller' = "run" /\ pcIn' = "start" /\ pcOut' = "start"
        /\ UNCHANGED <<req, streamVars, devVars, dst>>
    BY <1>3, Zenon DEF EnterHW
  <2>3. hw' = hw
    BY <2>2 DEF devVars
  <2>4. FitInv'
    BY <2>2 DEF FitInv, FitsDestination, Inv
  <2>5. /\ req.off + 0 <= Total(req.mem) /\ 0 <= req.dest
    BY <1>2
  <2>. QED
    BY <1>2, <2>1, <2>2, <2>3, <2>4, <2>5, CalmStep
<1>4. CASE EnterSW
  <2>1. /\ caller' = "idle"
        /\ UNCHANGED <<calls, req, streamVars, inVars, outVars, devVars>>
    BY <1>4, EnterSWFacts DEF Inv, TypeInv
  <2>2. PICK r : /\ SwAnswer(r, req.off, req.dest)
                 /\ SwEffect(sess', sess, req.off, r)
                 /\ dst' = Put(dst, 0, req.off, r.n, TRUE)
    BY <1>4, EnterSWFacts DEF Inv, TypeInv
  <2>3. sess' \in Sessions /\ sess'.seq = sess'.seq_in
    BY <1>2, <2>2 DEF SwEffect, Alike
  <2>4. r.n \in Nat /\ r.n <= req.dest
    BY <2>2 DEF SwAnswer
  <2>5. 0 \in Nat /\ 0 + r.n <= req.dest /\ req' = req
    BY <1>2, <2>1, <2>4
  <2>7. FitInv'
    BY <1>2, <2>2, <2>4, <2>5, CallWrites
  <2>6. hw' = hw /\ pcIn' = pcIn /\ pcOut' = pcOut
    BY <2>1 DEF inVars, outVars, devVars
  <2>. QED
    BY <1>2, <2>1, <2>3, <2>7, <2>6, CalmStep
<1>5. CASE EnterRefused
  <2>1. /\ caller' = "idle" /\ SessStep({"eos"})
        /\ UNCHANGED <<calls, req, streamVars, inVars, outVars, devVars, dst>>
    BY <1>5, EnterRefusedFacts DEF Inv, TypeInv
  <2>3. sess' \in Sessions /\ sess'.seq = sess'.seq_in
    BY <1>2, <2>1 DEF SessStep, Alike
  <2>5. FitInv'
    BY <2>1 DEF FitInv, FitsDestination, Inv
  <2>6. hw' = hw /\ pcIn' = pcIn /\ pcOut' = pcOut
    BY <2>1 DEF inVars, outVars, devVars
  <2>. QED
    BY <1>2, <2>1, <2>3, <2>5, <2>6, CalmStep
<1>. QED
  BY <1>3, <1>4, <1>5

LEMMA NextBatchStep ==
    ASSUME Inv, NextBatch PROVE RelInv'
<1>1. /\ caller = "run" /\ sess.single_thread /\ pcIn = "done" /\ pcOut = "done"
      /\ ~sess.last_processed /\ pcIn' = "start" /\ pcOut' = "start"
      /\ UNCHANGED <<callVars, sess, streamVars, devVars, dst>>
  BY DEF NextBatch
<1>2. caller' = "run" /\ req' = req /\ hw' = hw
  BY <1>1 DEF callVars, devVars
<1>3. sess' \in Sessions /\ sess.seq = sess.seq_in
  BY <1>1 DEF Inv, TypeInv, TypeSess, ProtocolInv, StageInv
<1>4. /\ req.off + sess.in_len <= Total(req.mem)
      /\ sess.out_len <= req.dest /\ sess.in_len = sess.out_len
  BY <1>1 DEF Inv, SpaceInv, SpaceCall
<1>5. FitInv'
  BY <1>1, <1>2 DEF FitInv, FitsDestination, Inv
<1>. QED
  BY <1>1, <1>2, <1>3, <1>4, <1>5, CalmStep

LEMMA FinishStep ==
    ASSUME Inv, FinishMismatch \/ Finish \/ FinishSW PROVE RelInv'
<1>1. /\ caller = "run" /\ pcIn = "done" /\ pcOut = "done" /\ caller' = "idle"
      /\ UNCHANGED <<calls, req, streamVars, inVars, outVars, devVars>>
  <2>1. CASE FinishMismatch \/ Finish
    BY <2>1 DEF FinishMismatch, Finish, Joined, Return
  <2>2. CASE FinishSW
    BY <2>2, FinishSWFacts DEF Joined, Inv, TypeInv
  <2>. QED
    BY <2>1, <2>2
<1>2. hw' = hw /\ pcIn' = pcIn /\ pcOut' = pcOut
  BY <1>1 DEF inVars, outVars, devVars
<1>3. calls > 0 /\ sess.seq = sess.seq_in
  BY <1>1 DEF Inv, ProtocolInv, StageInv, TypeInv, TypeCall
<1>4. CASE UNCHANGED dst /\ SessStep({"stat"})
  <2>1. sess' \in Sessions /\ sess'.seq = sess'.seq_in
    BY <1>3, <1>4 DEF SessStep, Alike
  <2>2. FitInv'
    BY <1>1, <1>4 DEF FitInv, FitsDestination, Inv
  <2>. QED
    BY <1>1, <1>2, <2>1, <2>2, CalmStep
<1>5. CASE FinishMismatch \/ Finish
  <2>1. UNCHANGED <<sess, dst>>
    BY <1>5 DEF FinishMismatch, Finish
  <2>2. SessStep({"stat"})
    BY <2>1 DEF SessStep, Alike, Inv, TypeInv, TypeSess
  <2>. QED
    BY <1>4, <2>1, <2>2
<1>6. CASE FinishSW
  <2> DEFINE p == req.off + sess.in_len
             room == req.dest - sess.out_len
  <2>1. \/ UNCHANGED dst /\ SessStep({"stat"})
        \/ /\ room \in Nat
           /\ \E r : /\ SwAnswer(r, p, room)
                     /\ dst' = Put(dst, sess.out_len, p, r.n, TRUE)
                     /\ \/ SwEffect(sess', sess, p, r)
                        \/ \E s : /\ SwEffect(s, sess, p, r)
                                  /\ CountEffect(sess', s, r.n,
                                        {"in_len", "out_len", "stat"})
    BY <1>6, FinishSWFacts DEF Inv, TypeInv
  <2>2. CASE UNCHANGED dst /\ SessStep({"stat"})
    BY <1>4, <2>2
  <2>3. ASSUME NEW r, SwAnswer(r, p, room), room \in Nat,
               dst' = Put(dst, sess.out_len, p, r.n, TRUE),
               \/ SwEffect(sess', sess, p, r)
               \/ \E s : /\ SwEffect(s, sess, p, r)
                         /\ CountEffect(sess', s, r.n,
                               {"in_len", "out_len", "stat"})
        PROVE  RelInv'
    <3>1. sess' \in Sessions /\ sess'.seq = sess'.seq_in
      BY <1>3, <2>3 DEF SwEffect, CountEffect, Alike
    <3>2. r.n \in Nat /\ r.n <= room /\ sess.out_len \in Nat
      BY <2>3, NextType DEF SwAnswer, Inv
    <3>5. req.dest \in Nat
      BY <1>3 DEF Inv, TypeInv, TypeCall
    <3>3. sess.out_len + r.n <= req.dest
      <4>1. PICK n \in Nat : n = r.n
        BY <3>2
      <4>2. PICK o \in Nat : o = sess.out_len
        BY <3>2
      <4>3. PICK d \in Nat : d = req.dest
        BY <3>5
      <4>4. n <= d - o
        BY <3>2, <4>1, <4>2, <4>3
      <4>. QED
        BY <4>1, <4>2, <4>3, <4>4
    <3>4. FitInv'
      BY <1>1, <1>3, <2>3, <3>2, <3>3, CallWrites
    <3>. QED
      BY <1>1, <1>2, <3>1, <3>4, CalmStep
  <2>. QED
    BY <2>1, <2>2, <2>3
<1>. QED
  BY <1>5, <1>6

LEMMA UntouchedStep ==
    ASSUME Inv, FatalError \/ Restarted \/ UNCHANGED vars PROVE RelInv' /\ Still
<1>. USE DEF Inv, ProtocolInv
<1>1. UNCHANGED <<callVars, sess, streamVars, inVars, outVars, hw, dst>>
  BY DEF FatalError, Restarted, vars, devVars
<1>2. UNCHANGED <<caller, req, cur, ptr, sseq, res, pcIn, jIn, pos, dptr, tmp,
                  pcOut, jOut>>
  BY <1>1 DEF callVars, streamVars, inVars, outVars
<1>3. \A k \in Slots : Held(k)' <=> Held(k)
  BY <1>2 DEF Held
<1>4. \A r \in hw : r.slot \in Slots
  BY DEF TypeInv, TypeDev, Jobs
<1>5. SlotInv' /\ Live' = Live
  BY <1>1, <1>2, <1>3, <1>4, SlotKept
<1>6. Still
  BY <1>1, <1>2, <1>5 DEF Still, NextSeq, NextPos, NextDst
<1>7. SeqLive' /\ JobInv' /\ SpaceLive'
  BY <1>6, StillKept DEF SeqInv, SpaceInv
<1>8. SeqPlace'
  BY <1>1, <1>2, <1>3 DEF SeqInv, SeqPlace
<1>9. StageInv' /\ LastInv'
  BY <1>1, <1>2 DEF StageInv, LastInv, NextPos
<1>10. PtrInv'
  BY <1>2, PtrStill
<1>11. WholeInv'
  BY <1>1, <1>2, <1>5 DEF WholeInv, Whole, NextPos
<1>12. GivesSz(pos, req.dest - dptr)' = GivesSz(pos, req.dest - dptr)
       /\ TakesSz(pos)' = TakesSz(pos)
  BY <1>2, Zenon DEF GivesSz, TakesSz
<1>13. SpaceCall'
  BY <1>1, <1>2, <1>12
     DEF SpaceInv, SpaceCall, Settled, Busy, NextPos, NextDst
<1>14. FitInv'
  BY <1>1, <1>2 DEF FitInv, FitsDestination
<1>. QED
  BY <1>6, <1>5, <1>7, <1>8, <1>9, <1>10, <1>11, <1>13, <1>14
     DEF RelInv, SeqInv, SpaceInv

-----------------------------------------------------------------------------
(* The invariant.                                                          *)

\* Every step but the error exit preserves the invariant.
LEMMA InvStep ==
    ASSUME ~erred => Inv, [Next]_vars
    PROVE  ~erred' => Inv'
<1>1. SUFFICES ASSUME ~erred' PROVE Inv'
  OBVIOUS
<1>2. erred' = erred \/ OutErrExit \/ UNCHANGED vars
  BY ErredKept
<1>3. ~erred
  BY <1>1, <1>2, Zenon DEF OutErrExit, vars
<1>4. Inv
  BY <1>3
<1>5. \/ CallStep \/ InNext \/ OutStep \/ DevStep
  <2>1. CASE UNCHANGED vars
    BY <2>1 DEF DevStep
  <2>2. CASE Next
    <3>1. TypeOut
      BY <1>4 DEF Inv, TypeInv
    <3>2. Idle => UNCHANGED vars
      BY DEF Idle
    <3>. QED
      BY <1>1, <2>2, <3>1, <3>2, NextCases DEF CallStep, OutStep, DevStep
  <2>. QED
    BY <2>1, <2>2
<1>6. TypeInv'
  <2>1. TypeInv /\ StageInv /\ SlotInv /\ SpaceInv
    BY <1>4 DEF Inv, ProtocolInv
  <2>2. InNext => TypeInv'
    BY <2>1, InType
  <2>3. DevStep => TypeInv'
    BY <2>1, DevType
  <2>4. OutStep => TypeInv'
    BY <1>4, OutType
  <2>5. CallStep => TypeInv'
    BY <1>4, CallStepType
  <2>. QED
    BY <1>5, <2>2, <2>3, <2>4, <2>5
<1>7. CallStep => RelInv'
  BY <1>4, CallStepStep, EnterStep, NextBatchStep, FinishStep
     DEF CallStep, CallerNext
<1>8. InNext => RelInv'
  BY <1>4, InStartStep, InCheckStep, InBatchEndStep, InGetBufferStep,
     InUseStep, InSubmitStep, InSWFallbackStep, InSWDecompressStep,
     InAdvanceStep DEF InNext
<1>9. OutStep => RelInv'
  BY <1>4, OutQuietStep, OutCallbackStep, OutSkipStep, OutSWStep,
     OutCopyStep DEF OutStep
<1>10. DevStep => RelInv'
  BY <1>4, HwCompleteStep, UntouchedStep DEF DevStep
<1>11. RelInv'
  BY <1>5, <1>7, <1>8, <1>9, <1>10
<1>. QED
  BY <1>6, <1>11 DEF Inv, RelInv

LEMMA InitInv == Init => Inv
<1>. SUFFICES ASSUME Init PROVE Inv
  OBVIOUS
<1>1. 0 \in Slots
  BY DecompressAssumption DEF Slots
<1>2. TypeInv
  <2>1. TypeCall
    <3>1. req.pin = {} /\ req.fmt = "ext"
      BY DEF Init
    <3>3. req.sw_backup \in BOOLEAN /\ req.stop \in BOOLEAN
      BY DEF Init
    <3>4. req.pin \subseteq {"src", "dst"} /\ req.fmt \in FormatNames
      BY <3>1 DEF FormatNames
    <3>2. /\ caller = "idle" /\ calls = 0
          /\ req.off = 0 /\ req.dest = 0
          /\ ret.rc = "OK" /\ ret.src_len = 0 /\ ret.dest_len = 0
      BY DEF Init
    <3>. QED
      BY <3>2, <3>3, <3>4 DEF TypeCall, Codes
  <2>2. TypeSess
    BY DEF Init, TypeSess, Sessions, Codes, InflateStates
  <2>3. TypeStream
    BY <1>1 DEF Init, TypeStream, Cursors, Jobs, JobStates, Kinds
  <2>4. TypeIn /\ TypeOut /\ TypeDev
    BY <1>1 DEF Init, TypeIn, TypeOut, TypeDev
  <2>. QED
    BY <2>1, <2>2, <2>3, <2>4 DEF TypeInv
<1>3. /\ caller = "idle" /\ calls = 0 /\ pcIn = "done" /\ pcOut = "done"
      /\ hw = {} /\ dst = << >>
      /\ sess.seq = 0 /\ sess.seq_in = 0 /\ sess.last_processed = FALSE
      /\ ptr = [k \in Slots |-> AtRest]
  BY DEF Init
<1>4. \A k \in Slots : Unused(cur[k]) /\ ~Answered(cur[k]) /\ ~Held(k)
  BY <1>3 DEF Init, Unused, Answered, Held
<1>5. Live = {}
  BY <1>3, <1>4 DEF Live
<1>6. StageInv /\ LastInv /\ SeqPlace
  BY <1>3, <1>4 DEF StageInv, LastInv, SeqPlace
<1>7. SlotInv /\ WholeInv
  BY <1>3, <1>4, <1>5 DEF SlotInv, WholeInv
<1>8. SeqLive /\ JobInv /\ SpaceLive
  BY <1>3, <1>5 DEF SeqLive, NextSeq, JobInv, SpaceLive
<1>9. PtrInv
  BY <1>3, <1>4 DEF PtrInv, PtrOf
<1>10. SpaceCall
  BY <1>3 DEF SpaceCall, Settled, Busy
<1>11. FitInv
  BY <1>3 DEF FitInv, FitsDestination
<1>. QED
  BY <1>2, <1>6, <1>7, <1>8, <1>9, <1>10, <1>11
     DEF Inv, ProtocolInv, SeqInv, SpaceInv

-----------------------------------------------------------------------------
(* Exactness: what the counters of the session say is in the destination.  *)
(* Blocks of the 4B format are left out: the place of the next one is not *)
(* known while one is decompressed.                                        *)

\* What the two threads know of a failure.
StatInv ==
    caller = "run" =>
    /\ ~sess.single_thread /\ Intact /\ sess.stat = "DATA_ERROR" =>
          pcIn \in {"err", "done"}
    /\ sess.single_thread /\ pcOut \in {"copy", "sw"} =>
          sess.stat # "DATA_ERROR"
    /\ pcOut = "skip" =>
          IF Intact \/ sess.single_thread THEN sess.stat = "DATA_ERROR"
          ELSE sess.stat # "OK"
    /\ pcOut = "copy" => res[jOut].st # "err"
    /\ pcOut = "sw" => res[jOut].st = "err"
    /\ pcOut = "stop" => ~Intact
    /\ pcIn = "err" => sess.stat # "OK"
    /\ sess.stop_submitting => sess.stat # "OK"
    /\ sess.single_thread /\ pcIn # "done" => ~sess.last_submitted
    /\ sess.single_thread /\ pcOut = "done" /\ sess.last_submitted =>
          sess.last_processed

\* A corrupt answer is taken off without its output being counted, and the
\* answers after it are dropped: from then on, the counters and the requests
\* no longer fit, until a single thread begins its next batch.
Trusted ==
    /\ req.fmt # "4b" /\ pcOut # "stop"
    /\ \/ sess.stat = "OK"
       \/ sess.single_thread
          /\ (sess.stat # "DATA_ERROR" \/ pcIn \notin {"start", "done"})
       \/ Intact /\ (sess.stat # "DATA_ERROR" \/ pcOut \in {"copy", "sw"})

\* The requests lie side by side, from the counters of the session to the
\* place the next one will begin.
Linked ==
    /\ \A r \in Live : sseq[r.slot] = sess.seq_in =>
          r.pos = req.off + sess.in_len /\ r.at = sess.out_len
    /\ \A q, r \in Live : sseq[r.slot] = sseq[q.slot] + 1 =>
          r.pos = q.pos + q.src /\ r.at = q.at + q.room
    /\ \A r \in Live : sseq[r.slot] = NextSeq - 1 =>
          NextPos = r.pos + r.src /\ NextDst = r.at + r.room

LinkedEnd ==
    Live = {} => \/ NextPos = req.off + sess.in_len /\ NextDst = sess.out_len
                 \/ Whole /\ pcIn \in {"done", "adv"} /\ NextPos = Total(req.mem)

ChainInv == Settled /\ Trusted => Linked /\ LinkedEnd

\* What the device wrote into lent memory stays there.
LentInv ==
    \A r \in Live : r.lent /\ r.st = "ok" =>
        \A i \in 1..r.n : dst[r.at + i] = r.pos + i

\* What has been counted has been written.
Sound == req.fmt # "4b" /\ (Intact \/ sess.single_thread)
PrefixInv == caller = "run" /\ Sound =>
                 \A i \in 1..sess.out_len : dst[i] = req.off + i

TruthInv == req.fmt # "4b" => ReportsTruth

\* Why doDecompressIn has returned.
DoneInv ==
    caller = "run" /\ pcIn = "done" /\ pcOut # "stop" =>
        \/ pos = Total(req.mem) \/ req.stop \/ sess.stat # "OK"
        \/ sess.single_thread /\ ~sess.last_submitted
        \/ Whole
CompleteInv == req.fmt # "4b" => OkIsComplete

\* doDecompressIn has given up, with a status that sends the caller to the
\* software: there is something left of the source and of the destination.
Failed == sess.stat \notin {"OK", "BUF_ERROR", "DATA_ERROR"}
FailInv ==
    caller = "run" =>
    /\ Failed => /\ pcIn \in {"err", "done"}
                 /\ pos < Total(req.mem) /\ dptr < req.dest
                 /\ pcIn = "done" => sess.last_submitted
                 /\ Whole => Live = {}
    /\ pcIn \in {"swseq", "swdec"} => ~sess.single_thread

\* A member whose end inflate has not seen is the last one that is taken, or
\* goes on in software; end_of_stream says so as soon as anything is counted.
Submits == {"start", "get", "use", "submit", "cleanup"}
Streaming == /\ caller = "run" /\ sess.stat = "OK"
             /\ pcOut \notin {"stop", "err"}
             /\ Deflate(req.fmt) /\ req.fmt # "4b"
EosInv ==
    Streaming =>
    /\ sess.inflate = "ok" =>
          /\ Live = {}
          /\ \/ pcIn = "adv" /\ NextPos = Total(req.mem)
             \/ pcIn = "done" /\ sess.last_submitted
             \/ /\ ~sess.single_thread /\ sess.force_sw
                /\ pcIn \notin Submits
    /\ sess.in_len > 0 => (sess.eos <=> sess.inflate # "ok")
    /\ \A r \in Live : r.pos + r.src = Total(req.mem) =>
          \/ pcIn = "adv"
          \/ pcIn = "done" /\ sess.last_submitted

EndInv == req.fmt # "4b" => EndOfStreamTrue

ExactInv == /\ StatInv /\ ChainInv /\ LentInv /\ PrefixInv /\ TruthInv
            /\ DoneInv /\ CompleteInv /\ FailInv /\ EosInv /\ EndInv

\* What the steps of doDecompressIn do to the status of the call.
InReports ==
    /\ pcIn # "done" /\ UNCHANGED <<caller, req, res, pcOut, jOut>>
    /\ sess'.single_thread = sess.single_thread
    /\ sess'.last_processed = sess.last_processed
    /\ sess'.stat = sess.stat \/ (pcIn' = "err" /\ sess'.stat # "OK")
    /\ sess'.stop_submitting => sess.stop_submitting \/ pcIn = "err"
    /\ pcIn' = "err" => sess'.stat # "OK" \/ sess.stop_submitting
    /\ pcIn = "err" => pcIn' = "done"
    /\ sess'.last_submitted => sess.last_submitted \/ pcIn' = "done"

LEMMA InReport ==
    ASSUME Inv, InNext PROVE InReports
<1>. USE DEF Inv, TypeInv, ProtocolInv, InReports
<1>1. CASE InStart
  BY <1>1 DEF InStart, callVars, streamVars, outVars
<1>2. CASE InCheck
  <2>1. /\ pcIn = "check" /\ pcIn' \in {"get", "sw", "err"}
        /\ SessStep({"force_sw", "stat"})
        /\ pcIn' # "err" => sess'.stat = sess.stat
        /\ pcIn' = "err" => sess'.stat # "OK"
        /\ UNCHANGED <<callVars, streamVars, outVars>>
    BY <1>2, InCheckFacts
  <2>. QED
    BY <2>1 DEF SessStep, Alike, callVars, streamVars, outVars
<1>3. CASE InBatchEnd
  BY <1>3 DEF InBatchEnd, callVars, streamVars, outVars
<1>4. CASE InNoBuffer \/ InSWPending
  <2>1. /\ pcIn \in {"get", "swseq"} /\ pcIn' \in {"get", "check", "swdec"}
        /\ UNCHANGED <<callVars, sess, streamVars, outVars>>
    BY <1>4 DEF InNoBuffer, InSWPending
  <2>. QED
    BY <2>1 DEF callVars, streamVars, outVars
<1>5. CASE InGetBuffer
  BY <1>5, InGetBufferFacts DEF callVars, outVars
<1>6. CASE InUse \/ InCleanUp
  BY <1>6, InUseFacts, InCleanUpFacts DEF callVars, outVars
<1>7. CASE InSubmit
  <2>1. /\ pcIn = "submit" /\ pcIn' \in {"submit", "adv", "cleanup"}
        /\ UNCHANGED <<callVars, sess, streamVars, outVars>>
    BY <1>7 DEF InSubmit
  <2>. QED
    BY <2>1 DEF callVars, streamVars, outVars
<1>8. CASE InSWFallback
  <2>1. /\ pcIn = "sw" /\ SessStep({"stat"})
        /\ \/ pcIn' = "err" /\ sess'.stat = "FAIL"
           \/ /\ sess' = sess
              /\ pcIn' = IF sess.stop_submitting THEN "err" ELSE "swseq"
        /\ UNCHANGED <<callVars, streamVars, outVars>>
    BY <1>8, InSWFallbackFacts
  <2>. QED
    BY <2>1 DEF SessStep, Alike, callVars, streamVars, outVars
<1>9. CASE InSWDecompress
  <2>1. /\ pcIn = "swdec"
        /\ \/ /\ pcIn' = "adv"
              /\ Alike(sess', sess, {"inflate", "ipos", "force_sw",
                          "eos", "seq_in", "in_len", "out_len"})
           \/ /\ pcIn' = "err" /\ sess'.stat = "FAIL"
              /\ Alike(sess', sess, {"inflate", "ipos", "force_sw",
                          "eos", "stat"})
        /\ UNCHANGED <<callVars, streamVars, outVars>>
    BY <1>9, InSWDecompressFacts
  <2>. QED
    BY <2>1 DEF Alike, callVars, streamVars, outVars
<1>10. CASE InAdvance
  <2>1. /\ pcIn = "adv" /\ SessStep({"seq", "last_submitted"})
        /\ pcIn' \in {"done", "check"}
        /\ sess'.last_submitted => sess.last_submitted \/ pcIn' = "done"
        /\ UNCHANGED <<callVars, streamVars, outVars>>
    BY <1>10, InAdvanceFacts
  <2>. QED
    BY <2>1 DEF SessStep, Alike, callVars, streamVars, outVars
<1>11. CASE InErrExit
  BY <1>11, InErrExitFacts DEF SessStep, Alike, callVars, streamVars, outVars
<1>. QED
  BY <1>1, <1>2, <1>3, <1>4, <1>5, <1>6, <1>7, <1>8, <1>9, <1>10, <1>11
     DEF InNext

LEMMA InStat ==
    ASSUME Inv, StatInv, InNext PROVE StatInv'
<1>1. InReports
  BY InReport
<1>2. /\ caller = "run" /\ pcOut # "done"
      /\ sess.single_thread => pcOut = "start"
  BY <1>1, Running DEF InReports
<1>3. Intact' <=> Intact
  BY <1>1 DEF InReports, Intact
<1>. QED
  BY <1>1, <1>2, <1>3 DEF InReports, StatInv

\* A corrupt answer comes from a corrupt member.
LEMMA CorruptAnswer ==
    ASSUME Inv, pcOut = "copy", res[jOut].st # "err"
    PROVE  /\ res[jOut].st \in {"ok", "crc"}
           /\ ~Matches(res[jOut]) => ~Intact
           /\ Matches(res[jOut]) => res[jOut].st = "ok"
<1>. USE DEF Inv, TypeInv, ProtocolInv
<1>1. PICK r \in Jobs : /\ r = res[jOut] /\ r \in Live /\ JobOK(r)
                        /\ r.slot = jOut /\ jOut \in Slots
  BY FirstLive
<1>2. Answered(cur[jOut])
  BY DEF SeqInv, SeqPlace
<1>3. r.st # "pending"
  <2>1. ~Held(jOut)
    BY <1>1, LiveFact
  <2>2. cur[jOut] \in Cursors
    BY <1>1 DEF TypeStream
  <2>3. ~Unused(cur[jOut]) /\ ~InFlight(cur[jOut])
    BY <1>2, <2>2, CursorStates
  <2>. QED
    BY <1>1, <2>1, <2>3 DEF SlotInv
<1>4. r.st \in {"ok", "crc"}
  BY <1>1, <1>3 DEF Jobs, JobStates
<1>5. r.st = "crc" => ~Intact
  <2>1. ASSUME r.st = "crc" PROVE ~Intact
    <3>1. r.kind = "bad"
      BY <1>1, <2>1 DEF JobOK
    <3>2. /\ r.pos < Total(req.mem) /\ r.pos \in Nat
          /\ r.kind = req.mem[MemberAt(req.mem, r.pos)].kind
      BY <1>1, <3>1 DEF JobOK, Jobs
    <3>3. req.mem \in Sources
      BY FirstLive DEF TypeCall
    <3>4. MemberAt(req.mem, r.pos) \in 1..Len(req.mem)
      BY <3>2, <3>3, MemberAtFact
    <3>. QED
      BY <3>1, <3>2, <3>4 DEF Intact
  <2>. QED
    BY <2>1
<1>6. req.fmt \in {"4b", "raw"} => Intact
  BY FirstLive DEF TypeCall
<1>. QED
  BY <1>1, <1>4, <1>5, <1>6 DEF Matches

LEMMA OutStat ==
    ASSUME Inv, StatInv, OutStep PROVE StatInv'
<1>. USE DEF Inv, TypeInv, ProtocolInv
<1>1. pcOut # "done"
  BY DEF OutStep, OutStart, OutCallback, OutPolled, OutPollFail, OutScan,
         OutSkip, OutSW, OutCopy, OutStop, OutTest
<1>2. /\ caller = "run" /\ sess.last_processed = FALSE
      /\ sess.single_thread => pcIn = "done" \/ pcOut = "start"
  BY <1>1, RunningOut
<1>3. CASE OutStart \/ OutPolled \/ OutPollFail
  <2>1. /\ pcOut' \in {"poll", "scan", "err"}
        /\ UNCHANGED <<callVars, sess, inVars>>
    BY <1>3 DEF OutStart, OutPolled, OutPollFail
  <2>2. UNCHANGED <<caller, req, pcIn>>
    BY <2>1 DEF callVars, inVars
  <2>. QED
    BY <1>2, <2>1, <2>2 DEF StatInv, Intact
<1>4. CASE OutCallback
  <2>1. pcOut = "poll" /\ UNCHANGED <<callVars, sess, inVars, outVars>>
    BY <1>4, OutCallbackFacts
  <2>2. UNCHANGED <<caller, req, pcIn, pcOut, jOut>>
    BY <2>1 DEF callVars, inVars, outVars
  <2>. QED
    BY <1>2, <2>1, <2>2 DEF StatInv, Intact
<1>5. CASE OutScan
  <2>1. /\ pcOut' \in {"test", "skip", "sw", "copy"}
        /\ pcOut' = "skip" => sess.stat = "DATA_ERROR"
        /\ pcOut' \in {"sw", "copy"} => sess.stat # "DATA_ERROR"
        /\ pcOut' = "copy" => res[jOut'].st # "err"
        /\ pcOut' = "sw" => res[jOut'].st = "err"
        /\ UNCHANGED <<callVars, sess, streamVars, inVars>>
    BY <1>5 DEF OutScan
  <2>2. UNCHANGED <<caller, req, pcIn, res>>
    BY <2>1 DEF callVars, inVars, streamVars
  <2>. QED
    BY <1>2, <2>1, <2>2 DEF StatInv, Intact
<1>6. CASE OutSkip
  <2>1. /\ pcOut' = "scan" /\ Alike(sess', sess, {"seq_in"})
        /\ UNCHANGED <<callVars, inVars>>
    BY <1>6, OutSkipFacts DEF Responded
  <2>2. UNCHANGED <<caller, req, pcIn>>
    BY <2>1 DEF callVars, inVars
  <2>. QED
    BY <1>2, <2>1, <2>2 DEF StatInv, Intact, Alike
<1>7. CASE OutSW
  <2>1. /\ pcOut' \in {"test", "err"}
        /\ Alike(sess', sess, {"inflate", "ipos", "force_sw", "eos", "seq_in",
                               "in_len", "out_len"})
        /\ UNCHANGED <<callVars, inVars>>
    BY <1>7, OutSWFacts DEF Alike
  <2>2. UNCHANGED <<caller, req, pcIn>>
    BY <2>1 DEF callVars, inVars
  <2>. QED
    BY <1>2, <2>1, <2>2 DEF StatInv, Intact, Alike
<1>8. CASE OutCopy
  <2>1. /\ pcOut = "copy"
        /\ pcOut' = "test" \/ (pcOut' = "stop" /\ ~Matches(res[jOut]))
        /\ Alike(sess', sess, {"last_submitted", "seq_in", "in_len",
                    "out_len", "eos"})
        /\ UNCHANGED <<callVars, inVars>>
    BY <1>8, OutCopyFacts
  <2>2. UNCHANGED <<caller, req, pcIn>>
    BY <2>1 DEF callVars, inVars
  <2>3. pcOut' = "stop" => ~Intact
    BY <1>2, <2>1, CorruptAnswer DEF StatInv
  <2>. QED
    BY <1>2, <2>1, <2>2, <2>3 DEF StatInv, Intact, Alike
<1>9. CASE OutStop
  <2>1. /\ pcOut = "stop" /\ pcOut' = "scan"
        /\ SessStep({"stop_submitting", "stat"})
        /\ sess'.stat = "DATA_ERROR"
        /\ UNCHANGED <<callVars, inVars>>
    BY <1>9, OutStopFacts
  <2>2. UNCHANGED <<caller, req, pcIn>>
    BY <2>1 DEF callVars, inVars
  <2>. QED
    BY <1>2, <2>1, <2>2 DEF StatInv, Intact, SessStep, Alike
<1>10. CASE OutTest
  <2>1. /\ pcOut = "test" /\ SessStep({"last_processed"})
        /\ \/ pcOut' = "done" /\ sess'.last_processed = sess.last_submitted
           \/ pcOut' = "poll" /\ sess' = sess
        /\ UNCHANGED <<callVars, inVars>>
    BY <1>10, OutTestFacts
  <2>2. UNCHANGED <<caller, req, pcIn>>
    BY <2>1 DEF callVars, inVars
  <2>. QED
    BY <1>2, <2>1, <2>2 DEF StatInv, Intact, SessStep, Alike
<1>. QED
  BY <1>3, <1>4, <1>5, <1>6, <1>7, <1>8, <1>9, <1>10 DEF OutStep

LEMMA CallStat ==
    ASSUME Inv, StatInv, CallStep PROVE StatInv'
<1>. USE DEF Inv, TypeInv, ProtocolInv
<1>1. CASE caller' # "run"
  BY <1>1 DEF StatInv
<1>2. CASE EnterHW
  <2>1. /\ pcIn' = "start" /\ pcOut' = "start"
    BY <1>2, Zenon DEF EnterHW
  <2>. QED
    BY <1>2, <2>1, EnterHWFacts DEF StatInv
<1>3. CASE NextBatch
  <2>1. /\ caller = "run" /\ sess.single_thread
        /\ pcIn = "done" /\ pcOut = "done" /\ ~sess.last_processed
        /\ pcIn' = "start" /\ pcOut' = "start" /\ UNCHANGED <<callVars, sess>>
    BY <1>3 DEF NextBatch
  <2>2. UNCHANGED <<caller, req>>
    BY <2>1 DEF callVars
  <2>. QED
    BY <2>1, <2>2 DEF StatInv, Intact
<1>4. CASE CallNew \/ CallOn
  BY <1>1, <1>4 DEF CallNew, CallOn, Call
<1>5. CASE EnterSW \/ EnterRefused
  BY <1>1, <1>5, EnterSWFacts, EnterRefusedFacts
<1>6. CASE FinishMismatch \/ Finish
  BY <1>1, <1>6 DEF FinishMismatch, Finish, Return
<1>7. CASE FinishSW
  BY <1>1, <1>7, FinishSWFacts
<1>. QED
  BY <1>2, <1>3, <1>4, <1>5, <1>6, <1>7 DEF CallStep, CallerNext

LEMMA DevStat ==
    ASSUME Inv, StatInv, DevStep PROVE StatInv'
<1>. USE DEF Inv, TypeInv, ProtocolInv
<1>1. UNCHANGED <<callVars, sess, streamVars, inVars, outVars>>
  <2>1. CASE HwComplete
    BY <2>1, HwCompleteFacts
  <2>2. CASE FatalError \/ Restarted \/ UNCHANGED vars
    BY <2>2 DEF FatalError, Restarted, vars
  <2>. QED
    BY <2>1, <2>2 DEF DevStep
<1>2. UNCHANGED <<caller, req, res, pcIn, pcOut, jOut>>
  BY <1>1 DEF callVars, streamVars, inVars, outVars
<1>. QED
  BY <1>1, <1>2 DEF StatInv, Intact

-----------------------------------------------------------------------------
(* Exactness: the chain of the requests.                                   *)

LEMMA InTrusted ==
    ASSUME Inv, StatInv, InNext, pcIn # "start" PROVE Trusted' => Trusted
<1>1. InReports
  BY InReport
<1>2. caller = "run"
  BY <1>1, Running DEF InReports
<1>3. Intact' <=> Intact
  BY <1>1 DEF InReports, Intact
<1>4. sess.single_thread => (pcIn \notin {"start", "done"})
  BY <1>1 DEF InReports
<1>5. ~sess.single_thread /\ Intact /\ sess.stat = "DATA_ERROR" =>
         pcIn = "err" /\ sess'.stat = sess.stat
  BY <1>1, <1>2 DEF InReports, StatInv
<1>. QED
  BY <1>1, <1>3, <1>4, <1>5 DEF InReports, Trusted

LEMMA ChainStill ==
    ASSUME ChainInv, Still, Settled' => Settled, Trusted' => Trusted,
           pcIn \in {"done", "adv"} /\ NextPos = Total(req.mem) =>
               pcIn' \in {"done", "adv"}
    PROVE  ChainInv'
<1>. USE DEF Still
<1>1. SUFFICES ASSUME Settled', Trusted' PROVE Linked' /\ LinkedEnd'
  BY DEF ChainInv
<1>2. Linked /\ LinkedEnd
  BY <1>1 DEF ChainInv
<1>3. Linked'
  BY <1>2 DEF Linked
<1>4. LinkedEnd'
  BY <1>2 DEF LinkedEnd, Whole
<1>. QED
  BY <1>3, <1>4

\* The steps of doDecompressIn that neither begin, submit nor decompress.
LEMMA InQuietChain ==
    ASSUME Inv, StatInv, ChainInv, InNext, Still, pcIn # "start"
    PROVE  ChainInv'
<1>1. InReports
  BY InReport
<1>2. Settled' => Settled
  BY <1>1 DEF InReports, Settled
<1>3. Trusted' => Trusted
  BY InTrusted
<1>4. pcIn \in {"done", "adv"} /\ NextPos = Total(req.mem) =>
          pcIn' \in {"done", "adv"}
  <2>1. SUFFICES ASSUME pcIn = "adv", NextPos = Total(req.mem)
                 PROVE  pcIn' \in {"done", "adv"}
    BY <1>1 DEF InReports
  <2>2. InAdvance
    <3>1. pcIn # "adv" \/ InAdvance
      BY Zenon DEF InNext, InStart, InCheck, InBatchEnd, InGetBuffer,
         InNoBuffer, InUse, InSubmit, InCleanUp, InSWFallback, InSWPending,
         InSWDecompress, InErrExit
    <3>. QED
      BY <2>1, <3>1
  <2>3. pos' = pos + tmp.src /\ (pos' = Total(req.mem) => pcIn' = "done")
    BY <2>2, InAdvanceFacts DEF Inv, TypeInv
  <2>. QED
    BY <2>1, <2>3 DEF NextPos
<1>. QED
  BY <1>2, <1>3, <1>4, ChainStill

LEMMA SubmitChain ==
    ASSUME Inv, StatInv, ChainInv, InSubmit, pcIn' = "adv", NEW a, Submitted(a)
    PROVE  ChainInv'
<1>. USE DEF Submitted
<1>1. pcIn = "submit" /\ UNCHANGED <<callVars, outVars>>
  BY DEF InSubmit
<1>2. SUFFICES ASSUME Settled', Trusted' PROVE Linked' /\ LinkedEnd'
  BY DEF ChainInv
<1>3. Trusted
  BY <1>1, <1>2, InTrusted DEF InNext
<1>4. Settled
  BY <1>1, <1>2 DEF Settled, callVars
<1>5. Linked /\ LinkedEnd
  BY <1>3, <1>4 DEF ChainInv
<1>6. NextSeq \in Nat /\ sess.seq_in \in Nat
  BY NextType DEF Inv
<1>7. NextSeq = sess.seq_in =>
         NextPos = req.off + sess.in_len /\ NextDst = sess.out_len
  <2>1. NextSeq = sess.seq_in => Live = {}
    BY NoneLive DEF Inv, ProtocolInv, SeqInv
  <2>. QED
    BY <1>1, <1>5, <2>1 DEF LinkedEnd
<1>8. \A r \in Live' : sseq[r.slot] = sess.seq_in =>
          r.pos = req.off + sess.in_len /\ r.at = sess.out_len
  BY <1>5, <1>7 DEF Linked
<1>9. \A q, r \in Live' : sseq[r.slot] = sseq[q.slot] + 1 =>
          r.pos = q.pos + q.src /\ r.at = q.at + q.room
  BY <1>5, <1>6 DEF Linked
<1>10. \A r \in Live' : sseq[r.slot] = NextSeq' - 1 =>
          NextPos' = r.pos + r.src /\ NextDst' = r.at + r.room
  BY <1>6
<1>11. Linked'
  BY <1>8, <1>9, <1>10 DEF Linked
<1>12. LinkedEnd'
  BY DEF LinkedEnd
<1>. QED
  BY <1>11, <1>12

LEMMA SoftChain ==
    ASSUME Inv, StatInv, ChainInv, InSWDecompress, NEW n \in Nat, Softly(n)
    PROVE  ChainInv'
<1>. USE DEF Softly
<1>1. pcIn = "swdec"
  BY DEF InSWDecompress
<1>2. SUFFICES ASSUME Settled', Trusted' PROVE Linked' /\ LinkedEnd'
  BY DEF ChainInv
<1>3. Trusted
  BY <1>1, <1>2, InTrusted DEF InNext
<1>4. Settled
  BY <1>1, <1>2 DEF Settled
<1>5. pos = req.off + sess.in_len /\ dptr = sess.out_len
  BY <1>1, <1>3, <1>4 DEF ChainInv, LinkedEnd
<1>6. sess.in_len \in Nat /\ sess.out_len \in Nat /\ req.off \in Nat
  BY NextType DEF Inv, TypeInv, TypeCall
<1>7. LinkedEnd'
  BY <1>5, <1>6 DEF LinkedEnd
<1>8. Linked'
  BY DEF Linked
<1>. QED
  BY <1>7, <1>8

LEMMA InChain ==
    ASSUME Inv, StatInv, ChainInv, InNext PROVE ChainInv'
<1>1. CASE InStart
  <2>1. /\ Live' = {} /\ NextPos' = req'.off + sess'.in_len
        /\ NextDst' = sess'.out_len
    BY <1>1, InStartStep
  <2>2. Linked' /\ LinkedEnd'
    BY <2>1 DEF Linked, LinkedEnd
  <2>. QED
    BY <2>2 DEF ChainInv
<1>2. CASE InSubmit
  <2>1. pcIn = "submit"
    BY <1>2 DEF InSubmit
  <2>2. Still \/ (pcIn' = "adv" /\ \E a : Submitted(a))
    BY <1>2, InSubmitStep
  <2>. QED
    BY <1>2, <2>1, <2>2, InQuietChain, SubmitChain
<1>3. CASE InSWDecompress
  <2>1. pcIn = "swdec"
    BY <1>3 DEF InSWDecompress
  <2>2. Still \/ \E n \in Nat : Softly(n)
    BY <1>3, InSWDecompressStep
  <2>. QED
    BY <1>3, <2>1, <2>2, InQuietChain, SoftChain
<1>4. CASE ~InStart /\ ~InSubmit /\ ~InSWDecompress
  <2>1. pcIn # "start"
    BY <1>4, Zenon DEF InNext, InStart, InCheck, InBatchEnd, InGetBuffer,
       InNoBuffer, InUse, InCleanUp, InSWFallback, InSWPending, InAdvance,
       InErrExit
  <2>2. Still
    BY <1>4, InCheckStep, InBatchEndStep, InGetBufferStep, InUseStep,
       InSWFallbackStep, InAdvanceStep DEF InNext
  <2>. QED
    BY <2>1, <2>2, InQuietChain
<1>. QED
  BY <1>1, <1>2, <1>3, <1>4

\* The steps of doDecompressOut between two answers.
LEMMA OutQuietChain ==
    ASSUME Inv, StatInv, ChainInv, Still, UNCHANGED <<callVars, inVars>>,
           Trusted' => Trusted
    PROVE  ChainInv'
<1>1. UNCHANGED <<caller, req, pcIn>>
  BY DEF callVars, inVars
<1>2. Settled' => Settled
  BY <1>1 DEF Settled
<1>. QED
  BY <1>1, <1>2, ChainStill

LEMMA OutQuietTrusted ==
    ASSUME Inv, StatInv, OutStart \/ OutPolled \/ OutPollFail \/ OutScan \/ OutStop
                         \/ OutTest \/ OutCallback
    PROVE  UNCHANGED <<callVars, inVars>> /\ (Trusted' => Trusted)
<1>. USE DEF Inv, TypeInv
<1>1. CASE OutStart \/ OutPolled \/ OutPollFail
  <2>1. /\ pcOut' \in {"poll", "scan", "err"}
        /\ pcOut \notin {"copy", "sw", "stop"}
        /\ UNCHANGED <<callVars, inVars, sess>>
    BY <1>1 DEF OutStart, OutPolled, OutPollFail
  <2>2. UNCHANGED <<req, pcIn>>
    BY <2>1 DEF callVars, inVars
  <2>. QED
    BY <2>1, <2>2 DEF Trusted, Intact
<1>2. CASE OutScan
  <2>1. /\ pcOut = "scan" /\ pcOut' \in {"test", "skip", "sw", "copy"}
        /\ pcOut' \in {"sw", "copy"} => sess.stat # "DATA_ERROR"
        /\ UNCHANGED <<callVars, inVars, sess>>
    BY <1>2 DEF OutScan
  <2>2. UNCHANGED <<req, pcIn>>
    BY <2>1 DEF callVars, inVars
  <2>. QED
    BY <2>1, <2>2 DEF Trusted, Intact
<1>3. CASE OutStop
  <2>1. /\ pcOut = "stop" /\ pcOut' = "scan" /\ sess'.stat = "DATA_ERROR"
        /\ SessStep({"stop_submitting", "stat"})
        /\ UNCHANGED <<callVars, inVars>>
    BY <1>3, OutStopFacts
  <2>2. UNCHANGED <<req, pcIn>>
    BY <2>1 DEF callVars, inVars
  <2>3. /\ caller = "run" /\ (sess.single_thread => pcIn = "done")
        /\ sess'.single_thread = sess.single_thread
    BY <2>1, RunningOut DEF SessStep, Alike
  <2>4. ~Intact'
    BY <2>1, <2>2, <2>3 DEF StatInv, Intact
  <2>5. ~Trusted'
    BY <2>1, <2>2, <2>3, <2>4 DEF Trusted
  <2>. QED
    BY <2>1, <2>5
<1>4. CASE OutTest
  <2>1. /\ pcOut = "test" /\ pcOut' \in {"done", "poll"}
        /\ SessStep({"last_processed"}) \/ sess' = sess
        /\ UNCHANGED <<callVars, inVars>>
    BY <1>4, OutTestFacts
  <2>2. UNCHANGED <<req, pcIn>>
    BY <2>1 DEF callVars, inVars
  <2>3. sess'.stat = sess.stat /\ sess'.single_thread = sess.single_thread
    BY <2>1 DEF SessStep, Alike
  <2>. QED
    BY <2>1, <2>2, <2>3 DEF Trusted, Intact
<1>5. CASE OutCallback
  <2>1. UNCHANGED <<callVars, sess, inVars, outVars>>
    BY <1>5, OutCallbackFacts DEF ProtocolInv
  <2>2. UNCHANGED <<req, pcIn, pcOut>>
    BY <2>1 DEF callVars, inVars, outVars
  <2>. QED
    BY <2>1, <2>2 DEF Trusted, Intact
<1>. QED
  BY <1>1, <1>2, <1>3, <1>4, <1>5

\* The answer that is taken begins where the counters are.
LEMMA FirstLinked ==
    ASSUME Inv, ChainInv, pcOut \in {"skip", "sw", "copy"}, Trusted
    PROVE  /\ Linked
           /\ res[jOut].pos = req.off + sess.in_len
           /\ res[jOut].at = sess.out_len
<1>1. /\ caller = "run" /\ res[jOut] \in Live /\ res[jOut].slot = jOut
      /\ sseq[jOut] = sess.seq_in /\ pcIn # "start"
  BY FirstLive
<1>2. Linked
  BY <1>1 DEF ChainInv, Settled
<1>. QED
  BY <1>1, <1>2 DEF Linked

\* A zlib or raw source is one request.
LEMMA WholeAlone ==
    ASSUME Inv, Whole, NEW q \in Live, NEW r \in Live PROVE q = r
<1>1. /\ q \in Jobs /\ r \in Jobs /\ JobOK(q) /\ JobOK(r)
      /\ q.slot \in Slots /\ r.slot \in Slots
  BY LiveFact DEF Inv, TypeInv, ProtocolInv, JobInv
<1>2. Total(req.mem) \in Nat
  <2>1. calls > 0
    <3>1. pcOut # "done"
      BY Resting DEF Inv, ProtocolInv, SeqInv
    <3>. QED
      BY <3>1, RunningOut
  <2>. QED
    BY <2>1, TotalType DEF Inv, TypeInv, TypeCall
<1>3. PICK a, b \in Nat : a = q.pos /\ b = r.pos
  BY <1>1 DEF Jobs
<1>4. /\ a < Total(req.mem) /\ b < Total(req.mem)
      /\ a + q.src = Total(req.mem) /\ b + r.src = Total(req.mem)
  BY <1>1, <1>2, <1>3 DEF JobOK
<1>5. ~(sseq[q.slot] < sseq[r.slot]) /\ ~(sseq[r.slot] < sseq[q.slot])
  BY <1>2, <1>3, <1>4 DEF Inv, SpaceInv, SpaceLive
<1>6. sseq[q.slot] \in Int /\ sseq[r.slot] \in Int
  BY <1>1 DEF Inv, TypeInv, TypeStream
<1>. QED
  BY <1>5, <1>6 DEF Inv, ProtocolInv, SeqInv, SeqLive

LEMMA TookChain ==
    ASSUME Inv, Inv', StatInv, ChainInv, pcOut \in {"skip", "sw", "copy"}, Took,
           Trusted' => Trusted,
           Trusted' /\ ~Whole =>
              /\ sess'.in_len = sess.in_len + res[jOut].src
              /\ sess'.out_len = sess.out_len + res[jOut].room
    PROVE  ChainInv'
<1>. USE DEF Took
<1>1. SUFFICES ASSUME Settled', Trusted' PROVE Linked' /\ LinkedEnd'
  BY DEF ChainInv
<1>2. PICK r \in Live : /\ r = res[jOut] /\ sseq[r.slot] = sess.seq_in
                        /\ r \in Jobs /\ JobOK(r)
  BY FirstLive
<1>3. /\ Linked /\ r.pos = req.off + sess.in_len /\ r.at = sess.out_len
  BY <1>1, <1>2, FirstLinked
<1>4. /\ NextSeq \in Nat /\ sess.seq_in \in Nat /\ req.off \in Nat
      /\ sess.in_len \in Nat /\ sess.out_len \in Nat
  BY NextType DEF Inv, TypeInv, TypeCall
<1>5. r.src \in Nat /\ r.room \in Nat
  BY <1>2 DEF Jobs
<1>6. Live' = {} => NextPos = r.pos + r.src /\ NextDst = r.at + r.room
  <2>1. ASSUME Live' = {} PROVE sseq[r.slot] = NextSeq - 1
    <3>1. /\ \A n \in sess'.seq_in..(NextSeq' - 1) : \E q \in Live' : TRUE
          /\ sess'.seq_in <= NextSeq'
      BY DEF Inv, ProtocolInv, SeqInv, SeqLive
    <3>2. NextSeq = sess.seq_in + 1
      BY <1>4, <2>1, <3>1
    <3>. QED
      BY <1>2, <1>4, <3>2
  <2>. QED
    BY <1>2, <1>3, <2>1 DEF Linked
<1>7. CASE ~Whole
  <2>1. /\ req'.off + sess'.in_len = r.pos + r.src
        /\ sess'.out_len = r.at + r.room
    BY <1>1, <1>2, <1>3, <1>4, <1>5, <1>7
  <2>2. \A q \in Live' : sseq'[q.slot] = sess'.seq_in =>
            q.pos = req'.off + sess'.in_len /\ q.at = sess'.out_len
    BY <1>2, <1>3, <2>1 DEF Linked
  <2>3. Linked'
    BY <1>3, <2>2 DEF Linked
  <2>4. LinkedEnd'
    BY <1>6, <2>1 DEF LinkedEnd
  <2>. QED
    BY <2>3, <2>4
<1>8. CASE Whole
  <2>1. Live' = {}
    BY <1>2, <1>8, WholeAlone
  <2>2. Linked'
    BY <2>1 DEF Linked
  <2>3. r.pos + r.src = Total(req.mem)
    <3>1. PICK a \in Nat : a = r.pos
      BY <1>2 DEF Jobs
    <3>2. Total(req.mem) \in Nat
      BY <1>2, FirstLive
    <3>. QED
      BY <1>2, <1>8, <3>1, <3>2 DEF JobOK
  <2>4. pcIn \in {"done", "adv"}
    BY <1>2, <1>8 DEF Inv, ProtocolInv, WholeInv
  <2>5. LinkedEnd'
    BY <1>6, <1>8, <2>1, <2>3, <2>4 DEF LinkedEnd, Whole
  <2>. QED
    BY <2>2, <2>5
<1>. QED
  BY <1>7, <1>8

LEMMA OutSkipTrusted ==
    ASSUME Inv, StatInv, OutSkip PROVE ~Trusted'
<1>. USE DEF Inv, TypeInv, ProtocolInv
<1>1. /\ pcOut = "skip" /\ pcOut' = "scan" /\ Alike(sess', sess, {"seq_in"})
      /\ UNCHANGED <<callVars, inVars>>
  BY OutSkipFacts DEF Responded
<1>2. UNCHANGED <<caller, req, pcIn>>
  BY <1>1 DEF callVars, inVars
<1>3. caller = "run" /\ (sess.single_thread => pcIn = "done")
  BY <1>1, RunningOut
<1>4. sess'.stat = sess.stat /\ sess'.single_thread = sess.single_thread
  BY <1>1 DEF Alike
<1>. QED
  BY <1>1, <1>2, <1>3, <1>4 DEF StatInv, Trusted, Intact

\* One software call repeats the whole of a trusted request.
LEMMA OutSWCounts ==
    ASSUME Inv, StatInv, ChainInv, OutSW, pcOut' = "test"
    PROVE  /\ Trusted' => Trusted
           /\ Trusted' /\ ~Whole =>
                /\ sess'.in_len = sess.in_len + res[jOut].src
                /\ sess'.out_len = sess.out_len + res[jOut].room
<1>. USE DEF Inv, TypeInv, ProtocolInv
<1>. DEFINE p == req.off + sess.in_len
            room == res[jOut].room
<1>1. /\ pcOut = "sw" /\ p \in Nat /\ p < Total(req.mem) /\ room \in Nat
      /\ UNCHANGED <<callVars, inVars>>
  BY OutSWFacts
<1>2. UNCHANGED <<caller, req, pcIn>>
  BY <1>1 DEF callVars, inVars
<1>3. PICK r \in SwResults(SwOne(p, room)) :
        /\ r.rc = "OK"
        /\ Alike(sess', sess, {"inflate", "ipos", "force_sw", "eos", "seq_in",
                               "in_len", "out_len"})
        /\ sess'.in_len = sess.in_len + r.n
        /\ sess'.out_len = sess.out_len + r.n
  BY OutSWFacts
<1>4. Trusted' => Trusted
  BY <1>1, <1>2, <1>3 DEF Trusted, Intact, Alike
<1>5. ASSUME Trusted', ~Whole PROVE r.n = res[jOut].src /\ r.n = room
  <2>1. res[jOut].pos = p /\ res[jOut] \in Live
    BY <1>1, <1>4, <1>5, FirstLinked, FirstLive
  <2>2. req.fmt \in {"ext", "gzip", "lz4"}
    BY <1>4, <1>5 DEF Trusted, Whole, TypeCall, FormatNames
  <2>3. room = res[jOut].src /\ room = Rest(req.mem, p)
    BY <1>1, <1>5, <2>1, <2>2, FirstLive DEF JobOK
  <2>4. req.mem \in Sources /\ sess.inflate \in InflateStates
    BY <1>1, FirstLive, SessTyped DEF TypeCall, TypeSess
  <2>5. r.n = Rest(req.mem, p)
    BY <1>1, <1>3, <2>3, <2>4, SwOneFact
  <2>. QED
    BY <2>3, <2>5
<1>. QED
  BY <1>3, <1>4, <1>5

LEMMA OutCopyCounts ==
    ASSUME Inv, StatInv, ChainInv, OutCopy
    PROVE  /\ Trusted' => Trusted /\ pcOut' = "test"
           /\ Trusted' /\ ~Whole =>
                /\ sess'.in_len = sess.in_len + res[jOut].src
                /\ sess'.out_len = sess.out_len + res[jOut].room
<1>. USE DEF Inv, TypeInv, ProtocolInv
<1>1. /\ pcOut = "copy"
      /\ Alike(sess', sess, {"last_submitted", "seq_in", "in_len",
                  "out_len", "eos"})
      /\ \/ /\ Matches(res[jOut]) /\ pcOut' = "test"
            /\ sess'.in_len = sess.in_len + res[jOut].n
            /\ sess'.out_len = sess.out_len + res[jOut].n
         \/ pcOut' = "stop"
      /\ UNCHANGED <<callVars, inVars>>
  BY OutCopyFacts
<1>2. UNCHANGED <<caller, req, pcIn>>
  BY <1>1 DEF callVars, inVars
<1>3. Trusted' => Trusted /\ pcOut' = "test"
  <2>1. Trusted' => pcOut' = "test"
    BY <1>1 DEF Trusted
  <2>. QED
    BY <1>1, <1>2, <2>1 DEF Trusted, Intact, Alike
<1>4. ASSUME Trusted', ~Whole
      PROVE  res[jOut].n = res[jOut].src /\ res[jOut].n = res[jOut].room
  <2>1. Matches(res[jOut])
    BY <1>1, <1>3, <1>4
  <2>2. caller = "run" /\ res[jOut].st = "ok"
    <3>1. caller = "run"
      BY <1>1, FirstLive
    <3>2. res[jOut].st # "err"
      BY <1>1, <3>1 DEF StatInv
    <3>. QED
      BY <1>1, <2>1, <3>1, <3>2, CorruptAnswer
  <2>3. req.fmt \in {"ext", "gzip", "lz4"}
    BY <1>3, <1>4 DEF Trusted, Whole, TypeCall, FormatNames
  <2>. QED
    BY <1>1, <1>4, <2>2, <2>3, FirstLive DEF JobOK
<1>. QED
  BY <1>1, <1>3, <1>4

LEMMA OutChain ==
    ASSUME Inv, Inv', StatInv, ChainInv, OutStep PROVE ChainInv'
<1>1. CASE OutStart \/ OutPolled \/ OutPollFail \/ OutScan \/ OutStop \/ OutTest
  BY <1>1, OutQuietStep, OutQuietTrusted, OutQuietChain
<1>2. CASE OutCallback
  BY <1>2, OutCallbackStep, OutQuietTrusted, OutQuietChain
<1>3. CASE OutSkip
  <2>1. ~Trusted'
    BY <1>3, OutSkipTrusted
  <2>. QED
    BY <2>1 DEF ChainInv
<1>4. CASE OutSW
  <2>1. pcOut = "sw" /\ UNCHANGED <<callVars, inVars>>
    BY <1>4, OutSWFacts DEF Inv, TypeInv, ProtocolInv
  <2>2. (pcOut' = "err" /\ Still) \/ (pcOut' = "test" /\ Took)
    BY <1>4, OutSWStep
  <2>3. CASE pcOut' = "err" /\ Still
    <3>1. Alike(sess', sess, {"inflate", "ipos", "force_sw", "eos"}) \/ sess' = sess
      BY <1>4, <2>3, OutSWFacts DEF Inv, TypeInv, ProtocolInv
    <3>2. sess'.stat = sess.stat /\ sess'.single_thread = sess.single_thread
      BY <3>1 DEF Alike
    <3>3. UNCHANGED <<req, pcIn>>
      BY <2>1 DEF callVars, inVars
    <3>4. Trusted' => Trusted
      BY <2>1, <2>3, <3>2, <3>3 DEF Trusted, Intact
    <3>. QED
      BY <2>1, <2>3, <3>4, OutQuietChain
  <2>4. CASE pcOut' = "test" /\ Took
    BY <1>4, <2>1, <2>4, OutSWCounts, TookChain
  <2>. QED
    BY <2>2, <2>3, <2>4
<1>5. CASE OutCopy
  <2>1. pcOut = "copy"
    BY <1>5 DEF OutCopy
  <2>2. Took
    BY <1>5, OutCopyStep
  <2>. QED
    BY <1>5, <2>1, <2>2, OutCopyCounts, TookChain
<1>. QED
  BY <1>1, <1>2, <1>3, <1>4, <1>5 DEF OutStep

LEMMA DevChain ==
    ASSUME Inv, ChainInv, DevStep PROVE ChainInv'
<1>1. CASE HwComplete
  <2>1. PICK r, a : AnsweredWith(r, a)
    BY <1>1, HwCompleteStep
  <2>. USE DEF AnsweredWith
  <2>2. SUFFICES ASSUME Settled', Trusted' PROVE Linked' /\ LinkedEnd'
    BY DEF ChainInv
  <2>3. Linked
    BY <2>1, <2>2 DEF ChainInv, Settled, Trusted, Intact
  <2>4. \A q \in Live' : \E s \in Live :
           /\ q.slot = s.slot /\ q.pos = s.pos /\ q.src = s.src /\ q.at = s.at
           /\ q.room = s.room
    BY <2>1
  <2>5. \A q \in Live' : sseq[q.slot] = sess.seq_in =>
            q.pos = req.off + sess.in_len /\ q.at = sess.out_len
    BY <2>3, <2>4 DEF Linked
  <2>6. \A p, q \in Live' : sseq[q.slot] = sseq[p.slot] + 1 =>
            q.pos = p.pos + p.src /\ q.at = p.at + p.room
    BY <2>3, <2>4 DEF Linked
  <2>7. \A q \in Live' : sseq[q.slot] = NextSeq - 1 =>
            NextPos = q.pos + q.src /\ NextDst = q.at + q.room
    BY <2>3, <2>4 DEF Linked
  <2>8. Linked'
    BY <2>1, <2>5, <2>6, <2>7 DEF Linked
  <2>9. LinkedEnd'
    BY <2>1 DEF LinkedEnd
  <2>. QED
    BY <2>8, <2>9
<1>2. CASE FatalError \/ Restarted \/ UNCHANGED vars
  <2>1. UNCHANGED <<callVars, sess, inVars, outVars>>
    BY <1>2 DEF FatalError, Restarted, vars
  <2>2. UNCHANGED <<caller, req, pcIn, pcOut>>
    BY <2>1 DEF callVars, inVars, outVars
  <2>3. Still
    BY <1>2, UntouchedStep
  <2>. QED
    BY <2>1, <2>2, <2>3, ChainStill DEF Settled, Trusted, Intact
<1>. QED
  BY <1>1, <1>2 DEF DevStep

\* A call begins, goes on with the next batch, or ends: doDecompressIn will
\* begin at the counters.
LEMMA CallChain ==
    ASSUME Inv, CallStep PROVE ChainInv'
<1>1. pcIn' = "start" \/ caller' # "run"
  <2>1. CASE EnterHW
    BY <2>1, Zenon DEF EnterHW
  <2>2. CASE NextBatch
    BY <2>2 DEF NextBatch
  <2>3. CASE CallNew \/ CallOn
    BY <2>3 DEF CallNew, CallOn, Call
  <2>4. CASE EnterSW \/ EnterRefused
    BY <2>4, EnterSWFacts, EnterRefusedFacts DEF Inv, TypeInv
  <2>5. CASE FinishMismatch \/ Finish
    BY <2>5 DEF FinishMismatch, Finish, Return
  <2>6. CASE FinishSW
    BY <2>6, FinishSWFacts DEF Inv, TypeInv
  <2>. QED
    BY <2>1, <2>2, <2>3, <2>4, <2>5, <2>6 DEF CallStep, CallerNext
<1>. QED
  BY <1>1 DEF ChainInv, Settled

-----------------------------------------------------------------------------
(* Exactness: what is in the destination.                                  *)

\* The step writes n units at place at, and nowhere else.
OnlyWrites(at, n) ==
    /\ DOMAIN dst' = DOMAIN dst
    /\ \A i \in DOMAIN dst : i <= at \/ at + n < i => dst'[i] = dst[i]

\* While a request is live the call lasts, and the request has a place.
LEMMA LivePlace ==
    ASSUME Inv, NEW q \in Live
    PROVE  /\ caller = "run" /\ calls > 0 /\ pcOut # "done" /\ pcIn # "start"
           /\ q \in Jobs /\ JobOK(q) /\ q.slot \in Slots
           /\ q.at \in Nat /\ q.n \in Nat /\ q.room \in Nat /\ q.pos \in Nat
           /\ q.n <= q.room /\ q.at + q.room <= req.dest /\ sess.out_len <= q.at
           /\ req.dest \in Nat /\ HwBuffSz \in Nat
           /\ DOMAIN dst = 1..(req.dest + HwBuffSz)
<1>. USE DEF Inv, ProtocolInv
<1>1. pcOut # "done"
  BY Resting DEF SeqInv
<1>2. caller = "run" /\ calls > 0
  BY <1>1, RunningOut
<1>3. pcIn # "start"
  BY NoneLive DEF SeqInv, SeqPlace, NextSeq
<1>4. NextDst <= req.dest /\ NextDst \in Nat /\ req.dest \in Nat
  BY <1>2, <1>3, NextType DEF SpaceInv, SpaceCall, Settled, TypeInv, TypeCall
<1>5. DOMAIN dst = 1..(req.dest + HwBuffSz) /\ HwBuffSz \in Nat
  BY <1>2, DecompressAssumption DEF TypeInv, TypeCall
<1>6. q \in Jobs /\ JobOK(q) /\ q.slot \in Slots
  BY LiveFact DEF TypeInv, JobInv
<1>7. /\ q.at \in Nat /\ q.n \in Nat /\ q.room \in Nat /\ q.pos \in Nat
      /\ q.st \in JobStates
  BY <1>6 DEF Jobs
<1>8. q.n <= q.room
  BY <1>6, <1>7 DEF JobOK, JobStates
<1>9. q.at + q.room <= NextDst /\ sess.out_len <= q.at
  BY DEF SpaceInv, SpaceLive
<1>10. q.at + q.room <= req.dest
  BY <1>4, <1>7, <1>9
<1>. QED
  BY <1>1, <1>2, <1>3, <1>4, <1>5, <1>6, <1>7, <1>8, <1>9, <1>10

\* What is written beside a request's place leaves it alone.
LEMMA LentApart ==
    ASSUME Inv, LentInv, NEW q \in Live, q.lent, q.st = "ok",
           NEW at \in Nat, NEW n \in Nat, OnlyWrites(at, n),
           at + n <= q.at \/ q.at + q.room <= at
    PROVE  \A i \in 1..q.n : dst'[q.at + i] = q.pos + i
<1>1. /\ q.at \in Nat /\ q.n \in Nat /\ q.room \in Nat /\ q.n <= q.room
      /\ q.at + q.room <= req.dest /\ req.dest \in Nat /\ HwBuffSz \in Nat
      /\ DOMAIN dst = 1..(req.dest + HwBuffSz)
  BY LivePlace
<1>2. SUFFICES ASSUME NEW i \in 1..q.n PROVE dst'[q.at + i] = q.pos + i
  OBVIOUS
<1>3. PICK a, m, k \in Nat : a = q.at /\ m = q.room /\ k = q.n
  BY <1>1
<1>7. PICK j \in Nat : j = a + i
  BY <1>1
<1>8. /\ i \in 1..k /\ k <= m /\ a + m <= req.dest
      /\ at + n <= a \/ a + m <= at
  BY <1>1, <1>3
<1>4. j \in DOMAIN dst /\ (j <= at \/ at + n < j)
  BY <1>1, <1>7, <1>8
<1>5. dst'[j] = dst[j]
  BY <1>4 DEF OnlyWrites
<1>6. dst[q.at + i] = q.pos + i
  BY DEF LentInv
<1>. QED
  BY <1>3, <1>5, <1>6, <1>7

\* Different requests have different places.
LEMMA PlacesApart ==
    ASSUME Inv, NEW q \in Live, NEW r \in Live, q # r
    PROVE  r.at + r.room <= q.at \/ q.at + q.room <= r.at
<1>1. sseq[q.slot] \in Int /\ sseq[r.slot] \in Int
  BY LivePlace DEF Inv, TypeInv, TypeStream
<1>2. sseq[q.slot] # sseq[r.slot]
  BY DEF Inv, ProtocolInv, SeqInv, SeqLive
<1>. QED
  BY <1>1, <1>2 DEF Inv, SpaceInv, SpaceLive

\* The first request is before the others.
LEMMA FirstBefore ==
    ASSUME Inv, pcOut \in {"skip", "sw", "copy"}, NEW q \in Live, q # res[jOut]
    PROVE  res[jOut].at + res[jOut].room <= q.at
<1>1. PICK r \in Live : r = res[jOut] /\ sseq[r.slot] = sess.seq_in
  BY FirstLive
<1>2. sseq[q.slot] \in Int /\ sess.seq_in \in Nat
  BY LivePlace, NextType DEF Inv, TypeInv, TypeStream
<1>3. sess.seq_in < sseq[q.slot]
  BY <1>1, <1>2 DEF Inv, ProtocolInv, SeqInv, SeqLive
<1>. QED
  BY <1>1, <1>3 DEF Inv, SpaceInv, SpaceLive

\* What doDecompressOut writes, for n units that fit the first request.
LEMMA TookLent ==
    ASSUME Inv, LentInv, pcOut \in {"sw", "copy"}, NEW n \in Nat,
           Live' \subseteq Live, OnlyWrites(sess.out_len, n),
           res[jOut] \in Live' => dst' = dst \/ ~res[jOut].lent
                                  \/ res[jOut].st # "ok",
           sess.out_len + n <= res[jOut].at + res[jOut].room
    PROVE  LentInv'
<1>1. SUFFICES ASSUME NEW q \in Live', q.lent, q.st = "ok"
               PROVE  \A i \in 1..q.n : dst'[q.at + i] = q.pos + i
  BY DEF LentInv
<1>2. CASE q = res[jOut]
  BY <1>1, <1>2 DEF LentInv
<1>3. CASE q # res[jOut]
  <2>1. res[jOut].at + res[jOut].room <= q.at
    BY <1>3, FirstBefore
  <2>2. sess.out_len \in Nat /\ q.at \in Nat
    BY NextType, LivePlace DEF Inv
  <2>3. res[jOut] \in Live /\ res[jOut].at \in Nat /\ res[jOut].room \in Nat
    BY FirstLive, LivePlace
  <2>4. sess.out_len + n <= q.at
    BY <2>1, <2>2, <2>3
  <2>. QED
    BY <1>1, <2>2, <2>4, LentApart
<1>. QED
  BY <1>2, <1>3

\* Where nothing is written and nothing submitted, what was written is there.
LEMMA LentSame ==
    ASSUME LentInv, Live' \subseteq Live, dst' = dst PROVE LentInv'
BY DEF LentInv

\* Only the software decompression of doDecompressIn writes.
LEMMA InKeeps ==
    ASSUME InNext, ~InSWDecompress PROVE dst' = dst
<1>1. CASE InStart \/ InCheck
  BY <1>1, Zenon DEF InStart, InCheck
<1>2. CASE InBatchEnd \/ InNoBuffer
  BY <1>2, Zenon DEF InBatchEnd, InNoBuffer
<1>3. CASE InGetBuffer
  BY <1>3, Zenon DEF InGetBuffer
<1>4. CASE InUse \/ InCleanUp
  BY <1>4, Zenon DEF InUse, InCleanUp
<1>5. CASE InSubmit
  BY <1>5, Zenon DEF InSubmit
<1>6. CASE InSWFallback \/ InSWPending
  BY <1>6, Zenon DEF InSWFallback, InSWPending
<1>7. CASE InAdvance \/ InErrExit
  BY <1>7, Zenon DEF InAdvance, InErrExit
<1>. QED
  BY <1>1, <1>2, <1>3, <1>4, <1>5, <1>6, <1>7 DEF InNext

LEMMA InLent ==
    ASSUME Inv, LentInv, InNext PROVE LentInv'
<1>1. CASE InStart
  BY <1>1, InStartStep DEF LentInv
<1>2. CASE InSubmit
  <2>1. dst' = dst
    BY <1>2, InKeeps, Zenon DEF InSubmit, InSWDecompress
  <2>2. CASE Still
    BY <2>1, <2>2, LentSame DEF Still
  <2>3. CASE \E a : Submitted(a)
    <3>1. PICK a : Submitted(a)
      BY <2>3
    <3>2. Live' = Live \cup {a} /\ a.st = "pending"
      BY <3>1 DEF Submitted
    <3>. QED
      BY <2>1, <3>2 DEF LentInv
  <2>. QED
    BY <1>2, <2>2, <2>3, InSubmitStep
<1>3. CASE InSWDecompress
  <2>1. pcIn = "swdec"
    BY <1>3 DEF InSWDecompress
  <2>2. Live = {}
    <3>1. sess.seq_in = NextSeq
      BY <2>1 DEF Inv, ProtocolInv, SeqInv, SeqPlace, NextSeq
    <3>. QED
      BY <3>1, NoneLive DEF Inv, ProtocolInv, SeqInv
  <2>3. Still \/ \E n \in Nat : Softly(n)
    BY <1>3, InSWDecompressStep
  <2>4. Live' = {}
    BY <2>2, <2>3 DEF Still, Softly
  <2>. QED
    BY <2>4 DEF LentInv
<1>4. CASE ~InStart /\ ~InSubmit /\ ~InSWDecompress
  <2>1. Still
    BY <1>4, InCheckStep, InBatchEndStep, InGetBufferStep, InUseStep,
    InSWFallbackStep, InAdvanceStep DEF InNext
  <2>2. dst' = dst
    BY <1>4, InKeeps
  <2>. QED
    BY <2>1, <2>2, LentSame DEF Still
<1>. QED
  BY <1>1, <1>2, <1>3, <1>4

\* Between two calls, and between two batches, nothing is live.
LEMMA CallRests ==
    ASSUME Inv, CallStep
    PROVE  /\ pcOut = "done" /\ pcIn = "done" /\ Live = {} /\ Live' = {}
           /\ sess.seq = sess.seq_in
<1>. USE DEF Inv, ProtocolInv
<1>1. pcOut = "done" /\ UNCHANGED <<streamVars, devVars>>
  <2>1. CASE CallNew \/ CallOn
    BY <2>1 DEF CallNew, CallOn, Call, StageInv
  <2>2. CASE EnterHW
    BY <2>2, Zenon DEF EnterHW, StageInv
  <2>3. CASE EnterSW \/ EnterRefused
    BY <2>3, EnterSWFacts, EnterRefusedFacts DEF TypeInv, StageInv
  <2>4. CASE NextBatch
    BY <2>4 DEF NextBatch
  <2>5. CASE FinishMismatch \/ Finish
    BY <2>5 DEF FinishMismatch, Finish, Return, Joined
  <2>6. CASE FinishSW
    BY <2>6, FinishSWFacts DEF TypeInv, Joined
  <2>. QED
    BY <2>1, <2>2, <2>3, <2>4, <2>5, <2>6 DEF CallStep, CallerNext
<1>2. Live = {} /\ pcIn = "done"
  BY <1>1, Resting DEF SeqInv
<1>3. hw' = hw /\ res' = res /\ cur' = cur
  BY <1>1 DEF streamVars, devVars
<1>4. Live' = Live
  BY <1>3, LiveSame
<1>. QED
  BY <1>1, <1>2, <1>4 DEF StageInv

LEMMA CallLent ==
    ASSUME Inv, CallStep PROVE LentInv'
BY CallRests DEF LentInv

\* A step that puts n units of plain text, from p on, at place at.
WritesText(at, p, n) ==
    \A i \in DOMAIN dst : at < i /\ i <= at + n => dst'[i] = p + i - at

LEMMA TextWritten ==
    ASSUME NEW at \in Nat, NEW p \in Nat, NEW n \in Nat, NEW size \in Nat,
           DOMAIN dst = 1..size, at + n <= size, WritesText(at, p, n)
    PROVE  \A i \in 1..n : dst'[at + i] = p + i
<1>1. SUFFICES ASSUME NEW i \in 1..n PROVE dst'[at + i] = p + i
  OBVIOUS
<1>2. PICK j \in 1..size : j = at + i
  OBVIOUS
<1>3. j \in DOMAIN dst /\ at < j /\ j <= at + n
  BY <1>2
<1>4. dst'[j] = p + j - at
  BY <1>3 DEF WritesText
<1>. QED
  BY <1>2, <1>4

\* What Put leaves alone.
LEMMA PutBeside ==
    ASSUME NEW at \in Nat, NEW n \in Nat, NEW size \in Nat, DOMAIN dst = 1..size,
           DOMAIN dst' = DOMAIN dst,
           \A i \in DOMAIN dst : ~(at < i /\ i <= at + n) => dst'[i] = dst[i]
    PROVE  OnlyWrites(at, n)
<1>1. ASSUME NEW i \in 1..size, i <= at \/ at + n < i
      PROVE  ~(at < i /\ i <= at + n)
  BY <1>1
<1>. QED
  BY <1>1 DEF OnlyWrites

LEMMA PutText ==
    ASSUME NEW at, NEW p, NEW n, dst' = Put(dst, at, p, n, TRUE)
    PROVE  /\ DOMAIN dst' = DOMAIN dst
           /\ \A i \in DOMAIN dst : ~(at < i /\ i <= at + n) => dst'[i] = dst[i]
           /\ WritesText(at, p, n)
BY Zenon DEF Put, WritesText

\* The answer that is taken has a room, and what is counted of it fits.
LEMMA FirstRoom ==
    ASSUME Inv, pcOut \in {"sw", "copy"}
    PROVE  /\ res[jOut] \in Live /\ res[jOut] \in Jobs
           /\ res[jOut].n \in Nat /\ res[jOut].room \in Nat
           /\ res[jOut].at \in Nat /\ res[jOut].pos \in Nat
           /\ res[jOut].n <= res[jOut].room
           /\ sess.out_len \in Nat /\ sess.out_len <= res[jOut].at
           /\ sess.in_len \in Nat /\ req.off \in Nat
           /\ DOMAIN dst = 1..(req.dest + HwBuffSz)
           /\ req.dest + HwBuffSz \in Nat
           /\ sess.out_len + res[jOut].room <= res[jOut].at + res[jOut].room
           /\ sess.out_len + res[jOut].room <= req.dest + HwBuffSz
           /\ caller = "run" /\ calls > 0
<1>1. res[jOut] \in Live /\ sess.out_len <= res[jOut].at /\ req.off \in Nat
  BY FirstLive
<1>2. PICK r \in Live : r = res[jOut]
  BY <1>1
<1>3. /\ r \in Jobs /\ r.n \in Nat /\ r.room \in Nat /\ r.at \in Nat
      /\ r.pos \in Nat /\ r.n <= r.room /\ r.at + r.room <= req.dest
      /\ req.dest \in Nat /\ HwBuffSz \in Nat /\ caller = "run" /\ calls > 0
      /\ DOMAIN dst = 1..(req.dest + HwBuffSz)
  BY LivePlace
<1>4. sess.out_len \in Nat /\ sess.in_len \in Nat
  BY NextType DEF Inv
<1>5. PICK size \in Nat : size = req.dest + HwBuffSz
  BY <1>3
<1>6. PICK at, gives, out \in Nat :
        /\ at = r.at
        /\ gives = r.room
        /\ out = sess.out_len
  BY <1>3, <1>4
<1>7. out <= at
  BY <1>1, <1>2, <1>6, Zenon
<1>8. at + gives <= size
  BY <1>3, <1>5, <1>6
<1>9. out + gives <= at + gives /\ out + gives <= size
  BY <1>7, <1>8
<1>. QED
  BY <1>1, <1>2, <1>3, <1>4, <1>5, <1>6, <1>9, Zenon

LEMMA OutCopyWrites ==
    ASSUME Inv, OutCopy
    PROVE  /\ pcOut = "copy" /\ OnlyWrites(sess.out_len, res[jOut].n)
           /\ res[jOut].lent => dst' = dst
           /\ ~res[jOut].lent /\ res[jOut].st = "ok" =>
                \A i \in 1..res[jOut].n :
                    dst'[sess.out_len + i] = res[jOut].pos + i
           /\ DOMAIN dst' = DOMAIN dst
<1>0. pcOut = "copy"
  BY OutCopyFacts DEF Inv, TypeInv, ProtocolInv
<1>1. /\ pcOut = "copy"
      /\ dst' = IF res[jOut].lent THEN dst
                ELSE Put(dst, sess.out_len, res[jOut].pos, res[jOut].n,
                         res[jOut].st = "ok")
  BY OutCopyFacts DEF Inv, TypeInv, ProtocolInv
<1>2. /\ sess.out_len \in Nat /\ res[jOut].pos \in Nat /\ res[jOut].n \in Nat
      /\ DOMAIN dst = 1..(req.dest + HwBuffSz) /\ req.dest + HwBuffSz \in Nat
      /\ sess.out_len + res[jOut].n <= req.dest + HwBuffSz
  BY <1>1, FirstRoom
<1>3. CASE res[jOut].lent
  BY <1>1, <1>3 DEF OnlyWrites
<1>4. CASE ~res[jOut].lent
  <2>1. dst' = Put(dst, sess.out_len, res[jOut].pos, res[jOut].n,
                   res[jOut].st = "ok")
    BY <1>1, <1>4
  <2>2. /\ DOMAIN dst' = DOMAIN dst
        /\ \A i \in DOMAIN dst :
              ~(sess.out_len < i /\ i <= sess.out_len + res[jOut].n)
                  => dst'[i] = dst[i]
    BY <2>1, Zenon DEF Put
  <2>3. OnlyWrites(sess.out_len, res[jOut].n)
    BY <1>2, <2>2, PutBeside
  <2>4. ASSUME res[jOut].st = "ok"
        PROVE  \A i \in 1..res[jOut].n :
                  dst'[sess.out_len + i] = res[jOut].pos + i
    <3>1. WritesText(sess.out_len, res[jOut].pos, res[jOut].n)
      BY <2>1, <2>4, Zenon DEF Put, WritesText
    <3>2. PICK at, q, n, size \in Nat :
             /\ at = sess.out_len /\ q = res[jOut].pos /\ n = res[jOut].n
             /\ size = req.dest + HwBuffSz
      BY <1>2, Zenon
    <3>3. DOMAIN dst = 1..size /\ at + n <= size
      BY <1>2, <3>2
    <3>4. WritesText(at, q, n)
      BY <3>1, <3>2, Zenon
    <3>5. \A i \in 1..n : dst'[at + i] = q + i
      BY <3>3, <3>4, TextWritten
    <3>. QED
      BY <3>2, <3>5, Zenon
  <2>5. DOMAIN dst' = DOMAIN dst
    BY <2>2
  <2>. QED
    BY <1>0, <1>4, <2>3, <2>4, <2>5, Zenon
<1>. QED
  BY <1>3, <1>4

LEMMA OutSWWrites ==
    ASSUME Inv, OutSW
    PROVE  /\ pcOut = "sw" /\ UNCHANGED <<callVars, inVars>>
           /\ sess'.single_thread = sess.single_thread
           /\ \E n \in Nat :
                /\ n <= res[jOut].room /\ OnlyWrites(sess.out_len, n)
                /\ \/ /\ pcOut' = "test" /\ sess'.out_len = sess.out_len + n
                      /\ \A i \in 1..n : dst'[sess.out_len + i] =
                                            req.off + sess.in_len + i
                   \/ pcOut' = "err" /\ sess'.out_len = sess.out_len
<1>. DEFINE p == req.off + sess.in_len
<1>1. /\ pcOut = "sw" /\ p \in Nat /\ UNCHANGED <<callVars, inVars>>
      /\ \/ \E r \in SwResults(SwOne(p, res[jOut].room)) :
              /\ SwAnswer(r, p, res[jOut].room)
              /\ dst' = Put(dst, sess.out_len, p, r.n, TRUE)
              /\ \/ /\ pcOut' = "test"
                    /\ Alike(sess', sess, {"inflate", "ipos", "force_sw",
                                "eos", "seq_in", "in_len", "out_len"})
                    /\ sess'.out_len = sess.out_len + r.n
                 \/ /\ pcOut' = "err"
                    /\ Alike(sess', sess, {"inflate", "ipos", "force_sw", "eos"})
         \/ pcOut' = "err" /\ UNCHANGED <<sess, dst>>
  BY OutSWFacts DEF Inv, TypeInv, ProtocolInv
<1>2. /\ sess.out_len \in Nat /\ res[jOut].room \in Nat
      /\ DOMAIN dst = 1..(req.dest + HwBuffSz) /\ req.dest + HwBuffSz \in Nat
      /\ sess.out_len + res[jOut].room <= req.dest + HwBuffSz
  BY <1>1, FirstRoom
<1>3. CASE pcOut' = "err" /\ UNCHANGED <<sess, dst>>
  <2>1. OnlyWrites(sess.out_len, 0)
    BY <1>3 DEF OnlyWrites
  <2>. QED
    BY <1>1, <1>2, <1>3, <2>1
<1>4. ASSUME NEW r, SwAnswer(r, p, res[jOut].room),
             dst' = Put(dst, sess.out_len, p, r.n, TRUE)
      PROVE  /\ r.n \in Nat /\ r.n <= res[jOut].room
             /\ OnlyWrites(sess.out_len, r.n)
             /\ \A i \in 1..r.n : dst'[sess.out_len + i] = p + i
  <2>1. PICK n \in Nat : n = r.n /\ n <= res[jOut].room
    BY <1>4 DEF SwAnswer
  <2>2. sess.out_len + n <= req.dest + HwBuffSz
    BY <1>2, <2>1
  <2>3. dst' = Put(dst, sess.out_len, p, n, TRUE)
    BY <1>4, <2>1, Zenon
  <2>4. PICK q \in Nat : q = p
    BY <1>1
  <2>5. PICK size \in Nat : size = req.dest + HwBuffSz
    BY <1>2
  <2>6. PICK at \in Nat : at = sess.out_len
    BY <1>2
  <2>7. dst' = Put(dst, at, q, n, TRUE)
    BY <2>3, <2>4, <2>6
  <2>8. DOMAIN dst = 1..size /\ at + n <= size
    BY <1>2, <2>2, <2>5, <2>6
  <2>10. /\ DOMAIN dst' = DOMAIN dst
         /\ \A i \in DOMAIN dst : ~(at < i /\ i <= at + n) => dst'[i] = dst[i]
         /\ WritesText(at, q, n)
    BY <2>7, PutText, Zenon
  <2>9. OnlyWrites(at, n)
    BY <2>8, <2>10, PutBeside
  <2>11. \A i \in 1..n : dst'[at + i] = q + i
    BY <2>8, <2>10, TextWritten
  <2>. QED
    BY <2>1, <2>4, <2>6, <2>9, <2>11
<1>5. ASSUME NEW r, SwAnswer(r, p, res[jOut].room),
             dst' = Put(dst, sess.out_len, p, r.n, TRUE),
             \/ /\ pcOut' = "test"
                /\ Alike(sess', sess, {"inflate", "ipos", "force_sw",
                            "eos", "seq_in", "in_len", "out_len"})
                /\ sess'.out_len = sess.out_len + r.n
             \/ /\ pcOut' = "err"
                /\ Alike(sess', sess, {"inflate", "ipos", "force_sw", "eos"})
      PROVE  /\ sess'.single_thread = sess.single_thread
             /\ \E n \in Nat :
                  /\ n <= res[jOut].room /\ OnlyWrites(sess.out_len, n)
                  /\ \/ /\ pcOut' = "test" /\ sess'.out_len = sess.out_len + n
                        /\ \A i \in 1..n : dst'[sess.out_len + i] = p + i
                     \/ pcOut' = "err" /\ sess'.out_len = sess.out_len
  <2>1. /\ r.n \in Nat /\ r.n <= res[jOut].room
        /\ OnlyWrites(sess.out_len, r.n)
        /\ \A i \in 1..r.n : dst'[sess.out_len + i] = p + i
    BY <1>4, <1>5
  <2>2. /\ sess'.single_thread = sess.single_thread
        /\ pcOut' = "err" => sess'.out_len = sess.out_len
    BY <1>5 DEF Alike
  <2>. QED
    BY <1>5, <2>1, <2>2, Zenon
<1>6. ASSUME UNCHANGED sess PROVE sess'.single_thread = sess.single_thread
  BY <1>6
<1>. QED
  BY <1>1, <1>3, <1>5, <1>6

\* No step of doDecompressOut damages what the device wrote.
LEMMA OutLent ==
    ASSUME Inv, StatInv, LentInv, OutStep PROVE LentInv'
<1>1. CASE OutStart \/ OutPolled \/ OutPollFail \/ OutScan \/ OutStop \/ OutTest
  <2>1. dst' = dst
    BY <1>1, OutStopFacts, OutTestFacts
       DEF OutStart, OutPolled, OutPollFail, OutScan, Inv, TypeInv
  <2>. QED
    BY <1>1, <2>1, OutQuietStep, LentSame DEF Still
<1>2. CASE OutCallback
  <2>1. dst' = dst
    BY <1>2, OutCallbackFacts DEF Inv, TypeInv, ProtocolInv
  <2>. QED
    BY <1>2, <2>1, OutCallbackStep, LentSame DEF Still
<1>3. CASE OutSkip
  <2>1. dst' = dst
    BY <1>3, OutSkipFacts DEF Inv, TypeInv, ProtocolInv
  <2>. QED
    BY <1>3, <2>1, OutSkipStep, LentSame DEF Took
<1>4. CASE OutSW
  <2>1. pcOut = "sw"
    BY <1>4, OutSWWrites
  <2>2. PICK n \in Nat : n <= res[jOut].room /\ OnlyWrites(sess.out_len, n)
    BY <1>4, OutSWWrites
  <2>3. /\ res[jOut].at \in Nat /\ sess.out_len \in Nat
        /\ sess.out_len <= res[jOut].at /\ res[jOut].room \in Nat
    BY <2>1, FirstRoom
  <2>4. sess.out_len + n <= res[jOut].at + res[jOut].room
    BY <2>2, <2>3
  <2>5. Live' \subseteq Live
    BY <1>4, OutSWStep DEF Still, Took
  <2>6. res[jOut].st # "ok"
    BY <2>1, FirstRoom DEF StatInv
  <2>. QED
    BY <2>1, <2>2, <2>4, <2>5, <2>6, TookLent
<1>5. CASE OutCopy
  <2>1. pcOut = "copy" /\ OnlyWrites(sess.out_len, res[jOut].n)
    BY <1>5, OutCopyWrites
  <2>2. PICK n \in Nat : n = res[jOut].n /\ n <= res[jOut].room
    BY <2>1, FirstRoom
  <2>3. /\ res[jOut].at \in Nat /\ sess.out_len \in Nat
        /\ sess.out_len <= res[jOut].at /\ res[jOut].room \in Nat
    BY <2>1, FirstRoom
  <2>4. sess.out_len + n <= res[jOut].at + res[jOut].room
    BY <2>2, <2>3
  <2>5. Live' = Live \ {res[jOut]}
    BY <1>5, OutCopyStep DEF Took
  <2>. QED
    BY <2>1, <2>2, <2>4, <2>5, TookLent
<1>. QED
  BY <1>1, <1>2, <1>3, <1>4, <1>5 DEF OutStep

\* What the device writes for one request leaves the others alone.
LEMMA DevLent ==
    ASSUME Inv, LentInv, DevStep PROVE LentInv'
<1>1. CASE FatalError \/ Restarted \/ UNCHANGED vars
  <2>1. dst' = dst
    BY <1>1 DEF FatalError, Restarted, vars
  <2>. QED
    BY <1>1, <2>1, UntouchedStep, LentSame DEF Still
<1>2. CASE HwComplete
  <2>1. PICK r, a : HwCompleteEffect(r, a) /\ AnsweredWith(r, a)
    BY <1>2, HwCompleteStep
  <2>2. /\ r \in Live /\ Live' = (Live \ {r}) \cup {a} /\ a.pos = r.pos
        /\ a.at = r.at /\ a.room = r.room
    BY <2>1 DEF AnsweredWith
  <2>3. /\ r.at \in Nat /\ r.room \in Nat /\ r.pos \in Nat /\ r.sz \in Nat
        /\ DOMAIN dst = 1..(req.dest + HwBuffSz)
        /\ req.dest + HwBuffSz \in Nat
        /\ r.at + r.room <= req.dest + HwBuffSz
    <3>1. /\ r \in Jobs /\ r.at \in Nat /\ r.room \in Nat /\ r.pos \in Nat
          /\ DOMAIN dst = 1..(req.dest + HwBuffSz) /\ req.dest \in Nat
          /\ HwBuffSz \in Nat /\ r.at + r.room <= req.dest
      BY <2>2, LivePlace
    <3>2. r.sz \in Nat
      BY <3>1 DEF Jobs
    <3>. QED
      BY <3>1, <3>2
  <2>4. CASE dst' = dst /\ (a.st = "err" \/ ~a.lent)
    BY <2>2, <2>4 DEF LentInv
  <2>5. CASE /\ r.sz <= r.room /\ a.n = r.sz
             /\ a.st = "ok" => r.kind = "ok"
             /\ dst' = Put(dst, r.at, r.pos, r.sz, r.kind = "ok")
    <3>0. r.sz <= r.room /\ a.n = r.sz
      BY <2>5, Zenon
    <3>1. r.at + r.sz <= req.dest + HwBuffSz
      BY <2>3, <3>0
    <3>2. /\ DOMAIN dst' = DOMAIN dst
          /\ \A i \in DOMAIN dst : ~(r.at < i /\ i <= r.at + r.sz)
                => dst'[i] = dst[i]
      BY <2>5, Zenon DEF Put
    <3>3. OnlyWrites(r.at, r.sz)
      BY <2>3, <3>2, PutBeside
    <3>4. ASSUME a.st = "ok" PROVE \A i \in 1..a.n : dst'[a.at + i] = a.pos + i
      <4>1. WritesText(r.at, r.pos, r.sz)
        BY <2>5, <3>4, Zenon DEF Put, WritesText
      <4>2. PICK at, p, n, size \in Nat :
              /\ at = r.at
              /\ p = r.pos
              /\ n = r.sz
              /\ size = req.dest + HwBuffSz
        BY <2>3
      <4>3. DOMAIN dst = 1..size
        BY <2>3, <4>2, Zenon
      <4>4. at + n <= size
        BY <3>1, <4>2, Zenon
      <4>5. WritesText(at, p, n)
        BY <4>1, <4>2, Zenon
      <4>6. \A i \in 1..n : dst'[at + i] = p + i
        BY <4>3, <4>4, <4>5, TextWritten
      <4>7. \A i \in 1..r.sz : dst'[r.at + i] = r.pos + i
        BY <4>2, <4>6, Zenon
      <4>. QED
        BY <2>2, <3>0, <4>7
    <3>5. ASSUME NEW q \in Live, q # r, q.lent, q.st = "ok"
          PROVE  \A i \in 1..q.n : dst'[q.at + i] = q.pos + i
      <4>1. q.at \in Nat /\ q.room \in Nat
        BY LivePlace
      <4>2. r.at + r.room <= q.at \/ q.at + q.room <= r.at
        BY <2>2, <3>5, PlacesApart
      <4>3. r.at + r.sz <= q.at \/ q.at + q.room <= r.at
        BY <2>3, <3>0, <4>1, <4>2
      <4>. QED
        BY <2>3, <3>3, <3>5, <4>3, LentApart
    <3>. QED
      BY <2>2, <3>4, <3>5 DEF LentInv
  <2>. QED
    BY <2>1, <2>4, <2>5 DEF HwCompleteEffect, AnswerTo
<1>. QED
  BY <1>1, <1>2 DEF DevStep

-----------------------------------------------------------------------------
(* Exactness: what has been counted has been written.                      *)

\* While a call lasts, the counters agree and stay within the destination.
LEMMA Counters ==
    ASSUME Inv, caller = "run"
    PROVE  /\ sess.in_len = sess.out_len /\ sess.in_len \in Nat
           /\ sess.out_len \in Nat /\ sess.out_len <= req.dest
           /\ req.off \in Nat /\ req.dest \in Nat /\ calls > 0
           /\ DOMAIN dst = 1..(req.dest + HwBuffSz)
           /\ req.dest + HwBuffSz \in Nat
           /\ req.mem \in Sources /\ Total(req.mem) \in Nat
           /\ req.off + sess.in_len <= Total(req.mem)
<1>1. /\ sess.in_len \in Nat /\ sess.out_len \in Nat
      /\ sess.in_len = sess.out_len /\ sess.out_len <= req.dest
      /\ req.off + sess.in_len <= Total(req.mem)
  BY NextType DEF Inv, SpaceInv, SpaceCall
<1>2. /\ req.off \in Nat /\ req.dest \in Nat /\ calls > 0
      /\ DOMAIN dst = 1..(req.dest + HwBuffSz)
      /\ req.mem \in Sources
  BY DEF Inv, TypeInv, TypeCall
<1>. QED
  BY <1>1, <1>2, TotalType, DecompressAssumption

\* What is written behind the counters leaves what they count alone.
LEMMA PrefixStays ==
    ASSUME Inv, caller = "run", NEW at \in Nat, NEW n \in Nat, OnlyWrites(at, n),
           sess.out_len <= at,
           \A i \in 1..sess.out_len : dst[i] = req.off + i
    PROVE  \A i \in 1..sess.out_len : dst'[i] = req.off + i
<1>1. /\ sess.out_len \in Nat /\ sess.out_len <= req.dest /\ req.dest \in Nat
      /\ DOMAIN dst = 1..(req.dest + HwBuffSz) /\ req.dest + HwBuffSz \in Nat
  BY Counters
<1>2. HwBuffSz \in Nat
  BY DecompressAssumption
<1>3. SUFFICES ASSUME NEW i \in 1..sess.out_len PROVE dst'[i] = req.off + i
  OBVIOUS
<1>4. i \in DOMAIN dst /\ i <= at
  BY <1>1, <1>2
<1>. QED
  BY <1>4 DEF OnlyWrites

\* What is written right behind them may be counted.
LEMMA PrefixGrows ==
    ASSUME Inv, caller = "run", NEW n \in Nat, OnlyWrites(sess.out_len, n),
           \A i \in 1..sess.out_len : dst[i] = req.off + i,
           \A i \in 1..n : dst'[sess.out_len + i] = req.off + sess.in_len + i
    PROVE  \A i \in 1..(sess.out_len + n) : dst'[i] = req.off + i
<1>1. /\ sess.out_len \in Nat /\ sess.in_len = sess.out_len /\ req.off \in Nat
  BY Counters
<1>2. \A i \in 1..sess.out_len : dst'[i] = req.off + i
  BY <1>1, PrefixStays
<1>3. ASSUME NEW i \in 1..(sess.out_len + n), ~(i \in 1..sess.out_len)
      PROVE  dst'[i] = req.off + i
  <2>1. PICK j \in 1..n : i = sess.out_len + j
    <3>1. i - sess.out_len \in 1..n /\ i = sess.out_len + (i - sess.out_len)
      BY <1>1, <1>3
    <3>. QED
      BY <3>1
  <2>2. dst'[i] = req.off + sess.in_len + j
    BY <2>1
  <2>. QED
    BY <1>1, <2>1, <2>2
<1>. QED
  BY <1>2, <1>3

LEMMA InSWWrites ==
    ASSUME Inv, InSWDecompress
    PROVE  \E n \in Nat :
             /\ OnlyWrites(dptr, n) /\ pos + n <= Total(req.mem)
             /\ \/ /\ pcIn' = "adv" /\ sess'.out_len = sess.out_len + n
                   /\ sess'.in_len = sess.in_len + n
                   /\ \A i \in 1..n : dst'[dptr + i] = pos + i
                \/ pcIn' = "err" /\ sess'.out_len = sess.out_len
<1>1. PICK r : /\ SwAnswer(r, pos, req.dest - dptr)
               /\ dst' = Put(dst, dptr, pos, r.n, TRUE)
               /\ \/ /\ pcIn' = "adv"
                     /\ sess'.in_len = sess.in_len + r.n
                     /\ sess'.out_len = sess.out_len + r.n
                  \/ /\ pcIn' = "err"
                     /\ Alike(sess', sess, {"inflate", "ipos", "force_sw",
                                 "eos", "stat"})
  BY InSWDecompressFacts DEF Inv, TypeInv, ProtocolInv
<1>2. PICK n \in Nat : /\ n = r.n /\ n <= req.dest - dptr
                       /\ pos + n <= Total(req.mem)
  BY <1>1 DEF SwAnswer
<1>3. caller = "run" /\ dptr \in Nat /\ pos \in Nat
  <2>1. pcIn = "swdec"
    BY DEF InSWDecompress
  <2>. QED
    BY <2>1, Running DEF Inv, TypeInv, TypeIn
<1>4. PICK size \in Nat : size = req.dest + HwBuffSz
  BY <1>3, Counters
<1>5. DOMAIN dst = 1..size /\ dptr + n <= size
  <2>1. HwBuffSz \in Nat
    BY DecompressAssumption
  <2>2. req.dest \in Nat /\ DOMAIN dst = 1..(req.dest + HwBuffSz)
    BY <1>3, Counters
  <2>. QED
    BY <1>2, <1>3, <1>4, <2>1, <2>2
<1>6. PICK at, p \in Nat : at = dptr /\ p = pos
  BY <1>3
<1>7. OnlyWrites(dptr, n) /\ \A i \in 1..n : dst'[dptr + i] = pos + i
  <2>1. dst' = Put(dst, at, p, n, TRUE)
    BY <1>1, <1>2, <1>6, Zenon
  <2>2. DOMAIN dst = 1..size /\ at + n <= size
    BY <1>5, <1>6
  <2>3. /\ DOMAIN dst' = DOMAIN dst
        /\ \A i \in DOMAIN dst : ~(at < i /\ i <= at + n) => dst'[i] = dst[i]
        /\ WritesText(at, p, n)
    BY <2>1, PutText, Zenon
  <2>4. OnlyWrites(at, n)
    BY <2>2, <2>3, PutBeside
  <2>5. \A i \in 1..n : dst'[at + i] = p + i
    BY <2>2, <2>3, TextWritten
  <2>. QED
    BY <1>6, <2>4, <2>5
<1>8. \/ /\ pcIn' = "adv" /\ sess'.out_len = sess.out_len + n
         /\ sess'.in_len = sess.in_len + n
      \/ pcIn' = "err" /\ sess'.out_len = sess.out_len
  <2>1. Alike(sess', sess, {"inflate", "ipos", "force_sw", "eos", "stat"})
           => sess'.out_len = sess.out_len
    BY DEF Alike
  <2>. QED
    BY <1>1, <1>2, <2>1, Zenon
<1>. QED
  BY <1>2, <1>7, <1>8

LEMMA InPrefix ==
    ASSUME Inv, StatInv, ChainInv, PrefixInv, InNext PROVE PrefixInv'
<1>1. /\ pcIn # "done" /\ UNCHANGED <<caller, req, pcOut>>
      /\ sess'.single_thread = sess.single_thread
  BY InReport DEF InReports
<1>2. /\ caller = "run" /\ (sess.single_thread => pcOut = "start")
  BY <1>1, Running
<1>3. SUFFICES ASSUME Sound' PROVE \A i \in 1..sess'.out_len : dst'[i] = req.off + i
  BY <1>1 DEF PrefixInv
<1>4. Sound
  BY <1>1, <1>3 DEF Sound, Intact
<1>5. \A i \in 1..sess.out_len : dst[i] = req.off + i
  BY <1>2, <1>4 DEF PrefixInv
<1>6. CASE InSWDecompress
  <2>1. pcIn = "swdec"
    BY <1>6 DEF InSWDecompress
  <2>2. PICK n \in Nat :
             /\ OnlyWrites(dptr, n)
             /\ \/ /\ pcIn' = "adv" /\ sess'.out_len = sess.out_len + n
                   /\ \A i \in 1..n : dst'[dptr + i] = pos + i
                \/ pcIn' = "err" /\ sess'.out_len = sess.out_len
    BY <1>6, InSWWrites
  <2>3. CASE pcIn' = "err" /\ sess'.out_len = sess.out_len
    <3>1. sess.out_len <= dptr /\ dptr \in Nat
      BY <1>2, <2>1
         DEF Inv, SpaceInv, SpaceCall, Settled, NextDst, TypeInv, TypeIn
    <3>. QED
      BY <1>2, <1>5, <2>2, <2>3, <3>1, PrefixStays
  <2>4. CASE pcIn' = "adv"
    <3>1. Trusted
      <4>1. pcOut # "stop"
        BY <1>2, <1>4 DEF Sound, StatInv
      <4>. QED
        BY <1>2, <1>4, <2>1, <4>1 DEF Sound, Trusted, StatInv
    <3>2. Live = {}
      <4>1. sess.seq_in = NextSeq
        BY <2>1 DEF Inv, ProtocolInv, SeqInv, SeqPlace, NextSeq
      <4>. QED
        BY <4>1, NoneLive DEF Inv, ProtocolInv, SeqInv
    <3>3. pos = req.off + sess.in_len /\ dptr = sess.out_len
      BY <1>2, <2>1, <3>1, <3>2
         DEF ChainInv, Settled, LinkedEnd, NextPos, NextDst
    <3>. QED
      BY <1>2, <1>5, <2>2, <2>4, <3>3, PrefixGrows
  <2>. QED
    BY <2>2, <2>3, <2>4
<1>7. CASE ~InSWDecompress
  <2>1. dst' = dst
    BY <1>7, InKeeps
  <2>2. sess'.out_len = sess.out_len
    <3>1. CASE InStart
      BY <3>1 DEF InStart
    <3>2. CASE InSubmit
      BY <3>2, InSubmitStep DEF Still, Submitted
    <3>3. CASE ~InStart /\ ~InSubmit
      BY <1>7, <3>3, InCheckStep, InBatchEndStep, InGetBufferStep,
         InUseStep, InSWFallbackStep, InAdvanceStep DEF InNext, Still
    <3>. QED
      BY <3>1, <3>2, <3>3
  <2>. QED
    BY <1>5, <2>1, <2>2
<1>. QED
  BY <1>6, <1>7

LEMMA OutPrefix ==
    ASSUME Inv, StatInv, ChainInv, LentInv, PrefixInv, OutStep PROVE PrefixInv'
<1>. USE DEF Inv, TypeInv, ProtocolInv
<1>1. /\ pcOut # "done" /\ UNCHANGED <<callVars, inVars>>
  BY OutCallbackFacts, OutSkipFacts, OutSWFacts, OutCopyFacts, OutStopFacts,
     OutTestFacts
     DEF OutStep, OutStart, OutPolled, OutPollFail, OutScan, OutStop, OutTest
<1>2. /\ caller = "run" /\ (sess.single_thread => pcIn = "done" \/ pcOut = "start")
      /\ UNCHANGED <<caller, req, pcIn>>
  BY <1>1, RunningOut DEF callVars, inVars
<1>3. CASE dst' = dst /\ Still /\ sess'.single_thread = sess.single_thread
  BY <1>2, <1>3 DEF PrefixInv, Sound, Intact, Still
<1>4. CASE \/ OutStart \/ OutPolled \/ OutPollFail \/ OutScan \/ OutStop \/ OutTest
           \/ OutCallback
  <2>1. Still
    BY <1>4, OutQuietStep, OutCallbackStep
  <2>2. dst' = dst /\ (sess' = sess \/ SessStep({"stop_submitting", "stat"})
                       \/ SessStep({"last_processed"}))
    BY <1>4, OutStopFacts, OutTestFacts, OutCallbackFacts
       DEF OutStart, OutPolled, OutPollFail, OutScan
  <2>3. sess'.single_thread = sess.single_thread
    BY <2>2 DEF SessStep, Alike
  <2>. QED
    BY <1>3, <2>1, <2>2, <2>3
<1>5. CASE OutSkip
  <2>1. dst' = dst /\ Alike(sess', sess, {"seq_in"})
    BY <1>5, OutSkipFacts DEF Responded
  <2>2. /\ sess'.single_thread = sess.single_thread
        /\ sess'.out_len = sess.out_len
    BY <2>1 DEF Alike
  <2>. QED
    BY <1>2, <2>1, <2>2 DEF PrefixInv, Sound, Intact
<1>6. CASE OutSW
  <2>1. sess'.single_thread = sess.single_thread
    BY <1>6, OutSWWrites
  <2>2. PICK n \in Nat :
          /\ OnlyWrites(sess.out_len, n)
          /\ \/ /\ pcOut' = "test" /\ sess'.out_len = sess.out_len + n
                /\ \A i \in 1..n : dst'[sess.out_len + i] =
                                      req.off + sess.in_len + i
             \/ pcOut' = "err" /\ sess'.out_len = sess.out_len
    BY <1>6, OutSWWrites
  <2>3. SUFFICES ASSUME Sound
                 PROVE  \A i \in 1..sess'.out_len : dst'[i] = req.off + i
    BY <1>2, <2>1 DEF PrefixInv, Sound, Intact
  <2>4. \A i \in 1..sess.out_len : dst[i] = req.off + i
    BY <1>2, <2>3 DEF PrefixInv
  <2>5. CASE sess'.out_len = sess.out_len
    <3>1. sess.out_len \in Nat
      BY <1>2, Counters
    <3>. QED
      BY <1>2, <2>2, <2>4, <2>5, <3>1, PrefixStays
  <2>6. CASE pcOut' = "test" /\ sess'.out_len # sess.out_len
    BY <1>2, <2>2, <2>4, <2>6, PrefixGrows
  <2>. QED
    BY <2>2, <2>5, <2>6
<1>7. CASE OutCopy
  <2>1. /\ pcOut = "copy" /\ OnlyWrites(sess.out_len, res[jOut].n)
        /\ res[jOut].lent => dst' = dst
        /\ ~res[jOut].lent /\ res[jOut].st = "ok" =>
             \A i \in 1..res[jOut].n :
                 dst'[sess.out_len + i] = res[jOut].pos + i
    BY <1>7, OutCopyWrites
  <2>2. /\ Alike(sess', sess, {"last_submitted", "seq_in", "in_len",
                      "out_len", "eos"})
        /\ \/ Matches(res[jOut]) /\ sess'.out_len = sess.out_len + res[jOut].n
           \/ ~Matches(res[jOut]) /\ sess'.out_len = sess.out_len
    BY <1>7, OutCopyFacts
  <2>3. sess'.single_thread = sess.single_thread
    BY <2>2 DEF Alike
  <2>4. SUFFICES ASSUME Sound
                 PROVE  \A i \in 1..sess'.out_len : dst'[i] = req.off + i
    BY <1>2, <2>3 DEF PrefixInv, Sound, Intact
  <2>5. \A i \in 1..sess.out_len : dst[i] = req.off + i
    BY <1>2, <2>4 DEF PrefixInv
  <2>6. /\ res[jOut] \in Live /\ sess.out_len \in Nat /\ res[jOut].n \in Nat
    BY <2>1, FirstRoom
  <2>7. PICK n \in Nat : n = res[jOut].n
    BY <2>6
  <2>8. CASE sess'.out_len = sess.out_len
    BY <1>2, <2>1, <2>5, <2>6, <2>7, <2>8, PrefixStays
  <2>9. CASE Matches(res[jOut]) /\ sess'.out_len = sess.out_len + n
    <3>1. Trusted
      BY <1>2, <2>1, <2>4 DEF Sound, Trusted, StatInv
    <3>2. res[jOut].pos = req.off + sess.in_len /\ res[jOut].at = sess.out_len
      BY <2>1, <3>1, FirstLinked
    <3>3. res[jOut].st = "ok"
      <4>1. res[jOut].st # "err"
        BY <1>2, <2>1 DEF StatInv
      <4>. QED
        BY <2>1, <2>9, <4>1, CorruptAnswer
    <3>4. \A i \in 1..n : dst'[sess.out_len + i] = req.off + sess.in_len + i
      <4>1. CASE res[jOut].lent
        <5>1. \A i \in 1..n : dst[res[jOut].at + i] = res[jOut].pos + i
          BY <2>6, <2>7, <3>3, <4>1 DEF LentInv
        <5>. QED
          BY <2>1, <3>2, <4>1, <5>1
      <4>2. CASE ~res[jOut].lent
        BY <2>1, <2>7, <3>2, <3>3, <4>2
      <4>. QED
        BY <4>1, <4>2
    <3>. QED
      BY <1>2, <2>1, <2>5, <2>7, <2>9, <3>4, PrefixGrows
  <2>. QED
    BY <2>2, <2>7, <2>8, <2>9
<1>. QED
  BY <1>4, <1>5, <1>6, <1>7 DEF OutStep

LEMMA DevPrefix ==
    ASSUME Inv, PrefixInv, DevStep PROVE PrefixInv'
<1>1. UNCHANGED <<caller, req, sess>>
  BY HwCompleteFacts
     DEF DevStep, FatalError, Restarted, vars, callVars, Inv, TypeInv
<1>2. CASE FatalError \/ Restarted \/ UNCHANGED vars
  <2>1. dst' = dst
    BY <1>2 DEF FatalError, Restarted, vars
  <2>. QED
    BY <1>1, <2>1 DEF PrefixInv, Sound, Intact
<1>3. CASE HwComplete
  <2>1. PICK r, a : HwCompleteEffect(r, a) /\ AnsweredWith(r, a)
    BY <1>3, HwCompleteStep
  <2>2. r \in Live
    BY <2>1 DEF AnsweredWith
  <2>3. /\ caller = "run" /\ r \in Jobs /\ r.at \in Nat /\ sess.out_len <= r.at
    BY <2>2, LivePlace
  <2>4. r.sz \in Nat
    BY <2>3 DEF Jobs
  <2>5. OnlyWrites(r.at, r.sz)
    <3>1. CASE dst' = dst
      BY <3>1 DEF OnlyWrites
    <3>2. CASE dst' = Put(dst, r.at, r.pos, r.sz, r.kind = "ok")
      <4>1. /\ DOMAIN dst' = DOMAIN dst
            /\ \A i \in DOMAIN dst : ~(r.at < i /\ i <= r.at + r.sz)
                  => dst'[i] = dst[i]
        BY <3>2, Zenon DEF Put
      <4>. QED
        BY <2>3, <2>4, <4>1, Counters, PutBeside
    <3>. QED
      BY <2>1, <3>1, <3>2, Zenon DEF HwCompleteEffect
  <2>. QED
    BY <1>1, <2>3, <2>4, <2>5, PrefixStays DEF PrefixInv, Sound, Intact
<1>. QED
  BY <1>2, <1>3 DEF DevStep

LEMMA CallPrefix ==
    ASSUME Inv, PrefixInv, CallStep PROVE PrefixInv'
<1>1. CASE EnterHW
  <2>1. sess'.out_len = 0
    BY <1>1, EnterHWFacts DEF Inv, TypeInv
  <2>. QED
    BY <2>1 DEF PrefixInv
<1>2. CASE NextBatch
  <2>1. UNCHANGED <<caller, req, sess, dst>>
    BY <1>2 DEF NextBatch, callVars
  <2>. QED
    BY <2>1 DEF PrefixInv, Sound, Intact
<1>3. CASE ~EnterHW /\ ~NextBatch
  <2>1. caller' # "run"
    BY <1>3, EnterSWFacts, EnterRefusedFacts, FinishSWFacts
       DEF CallStep, CallerNext, CallNew, CallOn, Call, FinishMismatch, Finish,
           Return, Inv, TypeInv
  <2>. QED
    BY <2>1 DEF PrefixInv
<1>. QED
  BY <1>1, <1>2, <1>3

-----------------------------------------------------------------------------
(* Exactness: what the call reports.                                       *)

\* The rest of the source in software, by the caller.
LEMMA FinishSWWrites ==
    ASSUME Inv, FinishSW
    PROVE  /\ sess'.single_thread = sess.single_thread
           /\ \E n \in Nat :
                /\ OnlyWrites(sess.out_len, n)
                /\ \/ /\ sess'.in_len = sess.in_len + n
                      /\ sess'.out_len = sess.out_len + n
                      /\ \A i \in 1..n : dst'[sess.out_len + i] =
                                            req.off + sess.in_len + i
                   \/ /\ sess'.in_len = sess.in_len
                      /\ sess'.out_len = sess.out_len
<1>. USE DEF Inv, TypeInv, ProtocolInv
<1>1. PICK p, room : /\ p = req.off + sess.in_len
                     /\ room = req.dest - sess.out_len
  OBVIOUS
<1>2. /\ Joined
      /\ \/ UNCHANGED dst /\ SessStep({"stat"})
         \/ /\ room \in Nat
            /\ \E r : /\ SwAnswer(r, p, room)
                      /\ dst' = Put(dst, sess.out_len, p, r.n, TRUE)
                      /\ \/ SwEffect(sess', sess, p, r)
                         \/ \E s : /\ SwEffect(s, sess, p, r)
                                   /\ CountEffect(sess', s, r.n,
                                        {"in_len", "out_len", "stat"})
  BY <1>1, FinishSWFacts
<1>3. /\ sess.in_len \in Nat /\ sess.out_len \in Nat /\ req.off \in Nat
      /\ req.dest \in Nat /\ DOMAIN dst = 1..(req.dest + HwBuffSz)
      /\ HwBuffSz \in Nat
  BY <1>2, Counters, DecompressAssumption DEF Joined
<1>4. CASE UNCHANGED dst /\ SessStep({"stat"})
  <2>1. OnlyWrites(sess.out_len, 0)
    BY <1>4 DEF OnlyWrites
  <2>2. /\ sess'.single_thread = sess.single_thread
        /\ sess'.in_len = sess.in_len /\ sess'.out_len = sess.out_len
    BY <1>4 DEF SessStep, Alike
  <2>. QED
    BY <2>1, <2>2
<1>5. ASSUME room \in Nat, NEW r, SwAnswer(r, p, room),
             dst' = Put(dst, sess.out_len, p, r.n, TRUE)
      PROVE  /\ r.n \in Nat /\ OnlyWrites(sess.out_len, r.n)
             /\ \A i \in 1..r.n : dst'[sess.out_len + i] =
                                     req.off + sess.in_len + i
  <2>1. PICK n \in Nat : n = r.n /\ n <= room
    BY <1>5 DEF SwAnswer
  <2>2. PICK at, q \in Nat : at = sess.out_len /\ q = p
    BY <1>1, <1>3
  <2>3. PICK size \in Nat : size = req.dest + HwBuffSz
    BY <1>3
  <2>4. DOMAIN dst = 1..size
    BY <1>3, <2>3, Zenon
  <2>4a. at + n <= size
    <3>1. n <= req.dest - at
      BY <1>1, <2>1, <2>2
    <3>. QED
      BY <1>3, <2>3, <3>1
  <2>5. dst' = Put(dst, at, q, n, TRUE)
    BY <1>5, <2>1, <2>2, Zenon
  <2>5a. DOMAIN dst' = DOMAIN dst
    BY <2>5, PutText, Zenon
  <2>5b. \A i \in DOMAIN dst : ~(at < i /\ i <= at + n) => dst'[i] = dst[i]
    BY <2>5, PutText, Zenon
  <2>5c. WritesText(at, q, n)
    BY <2>5, PutText, Zenon
  <2>6. OnlyWrites(at, n)
    BY <2>4, <2>5a, <2>5b, PutBeside
  <2>7. \A i \in 1..n : dst'[at + i] = q + i
    BY <2>4, <2>4a, <2>5c, TextWritten
  <2>. QED
    BY <1>1, <2>1, <2>2, <2>6, <2>7
<1>6. ASSUME room \in Nat, NEW r, SwAnswer(r, p, room),
             dst' = Put(dst, sess.out_len, p, r.n, TRUE),
             SwEffect(sess', sess, p, r)
      PROVE  /\ sess'.single_thread = sess.single_thread
             /\ OnlyWrites(sess.out_len, r.n) /\ r.n \in Nat
             /\ sess'.in_len = sess.in_len /\ sess'.out_len = sess.out_len
  <2>1. r.n \in Nat /\ OnlyWrites(sess.out_len, r.n)
    BY <1>5, <1>6
  <2>2. /\ sess'.single_thread = sess.single_thread
        /\ sess'.in_len = sess.in_len /\ sess'.out_len = sess.out_len
    BY <1>6 DEF SwEffect, Alike
  <2>. QED
    BY <2>1, <2>2
<1>7. ASSUME room \in Nat, NEW r, SwAnswer(r, p, room),
             dst' = Put(dst, sess.out_len, p, r.n, TRUE),
             NEW s, SwEffect(s, sess, p, r),
             CountEffect(sess', s, r.n, {"in_len", "out_len", "stat"})
      PROVE  /\ sess'.single_thread = sess.single_thread
             /\ OnlyWrites(sess.out_len, r.n) /\ r.n \in Nat
             /\ \A i \in 1..r.n : dst'[sess.out_len + i] =
                                     req.off + sess.in_len + i
             /\ sess'.in_len = sess.in_len + r.n
             /\ sess'.out_len = sess.out_len + r.n
  <2>1. /\ r.n \in Nat /\ OnlyWrites(sess.out_len, r.n)
        /\ \A i \in 1..r.n : dst'[sess.out_len + i] =
                                     req.off + sess.in_len + i
    BY <1>5, <1>7
  <2>2. /\ s.single_thread = sess.single_thread
        /\ s.in_len = sess.in_len /\ s.out_len = sess.out_len
    BY <1>7 DEF SwEffect, Alike
  <2>3. /\ sess'.single_thread = s.single_thread
        /\ sess'.in_len = s.in_len + r.n /\ sess'.out_len = s.out_len + r.n
    BY <1>7 DEF CountEffect, Alike
  <2>. QED
    BY <2>1, <2>2, <2>3
<1>. QED
  BY <1>2, <1>4, <1>6, <1>7

LEMMA CallTruth ==
    ASSUME Inv, PrefixInv, CallStep PROVE TruthInv'
<1>. USE DEF Inv, TypeInv, ProtocolInv
<1>1. CASE CallNew \/ CallOn \/ EnterHW \/ NextBatch
  <2>1. caller' # "idle"
    <3>1. CASE EnterHW
      BY <3>1, Zenon DEF EnterHW
    <3>2. CASE NextBatch
      BY <3>2 DEF NextBatch, callVars
    <3>3. CASE CallNew \/ CallOn
      BY <3>3 DEF CallNew, CallOn, Call
    <3>. QED
      BY <1>1, <3>1, <3>2, <3>3
  <2>. QED
    BY <2>1 DEF TruthInv, ReportsTruth
<1>2. CASE EnterRefused
  <2>1. ret'.src_len = 0 /\ ret'.dest_len = 0
    BY <1>2 DEF EnterRefused
  <2>. QED
    BY <2>1 DEF TruthInv, ReportsTruth
<1>3. CASE EnterSW
  <2>1. PICK r : /\ SwAnswer(r, req.off, req.dest)
                 /\ dst' = Put(dst, 0, req.off, r.n, TRUE)
                 /\ ret' = [rc |-> r.rc, src_len |-> r.n, dest_len |-> r.n]
                 /\ caller = "enter" /\ req' = req
    BY <1>3, EnterSWFacts
  <2>2. PICK n \in Nat : n = r.n /\ n <= req.dest
    BY <2>1 DEF SwAnswer
  <2>3. PICK q \in Nat : q = req.off
    BY DEF TypeCall
  <2>4. PICK size \in Nat : size = req.dest + HwBuffSz /\ DOMAIN dst = 1..size
    BY <2>1, DecompressAssumption DEF TypeCall
  <2>5. 0 + n <= size
    BY <2>2, <2>4, DecompressAssumption DEF TypeCall
  <2>6. WritesText(0, q, n)
    <3>1. dst' = Put(dst, 0, q, n, TRUE)
      BY <2>1, <2>2, <2>3, Zenon
    <3>. QED
      BY <3>1, PutText, Zenon
  <2>7. \A i \in 1..n : dst'[0 + i] = q + i
    BY <2>4, <2>5, <2>6, TextWritten
  <2>8. \A i \in 1..n : dst'[i] = q + i
    BY <2>7
  <2>9. ret'.src_len = n /\ ret'.dest_len = n
    BY <2>1, <2>2
  <2>. QED
    BY <2>1, <2>3, <2>8, <2>9 DEF TruthInv, ReportsTruth
<1>4. CASE Finish
  <2>1. /\ caller = "run" /\ ret'.src_len = sess.in_len
        /\ ret'.dest_len = sess.out_len /\ UNCHANGED <<req, sess, dst>>
    BY <1>4 DEF Finish, Joined, Return
  <2>. QED
    BY <2>1, Counters DEF TruthInv, ReportsTruth, PrefixInv, Sound, Intact
<1>5. CASE FinishMismatch
  BY <1>5, CallRests DEF FinishMismatch
<1>6. CASE FinishSW
  <2>1. /\ caller = "run" /\ ret'.src_len = sess'.in_len
        /\ ret'.dest_len = sess'.out_len /\ req' = req
    BY <1>6, FinishSWFacts DEF Joined
  <2>2. sess'.single_thread = sess.single_thread
    BY <1>6, FinishSWWrites
  <2>3. PICK n \in Nat :
          /\ OnlyWrites(sess.out_len, n)
          /\ \/ /\ sess'.in_len = sess.in_len + n
                /\ sess'.out_len = sess.out_len + n
                /\ \A i \in 1..n : dst'[sess.out_len + i] =
                                      req.off + sess.in_len + i
             \/ /\ sess'.in_len = sess.in_len
                /\ sess'.out_len = sess.out_len
    BY <1>6, FinishSWWrites
  <2>4. SUFFICES ASSUME Sound
                 PROVE  /\ ret'.src_len = ret'.dest_len
                        /\ \A i \in 1..ret'.dest_len : dst'[i] = req.off + i
    BY <2>1, <2>2 DEF TruthInv, ReportsTruth, Sound, Intact
  <2>5. \A i \in 1..sess.out_len : dst[i] = req.off + i
    BY <2>1, <2>4 DEF PrefixInv
  <2>6. sess.in_len = sess.out_len /\ sess.out_len \in Nat
    BY <2>1, Counters
  <2>7. sess'.in_len = sess'.out_len
    BY <2>3, <2>6
  <2>8. CASE sess'.out_len = sess.out_len
    BY <2>1, <2>3, <2>5, <2>6, <2>7, <2>8, PrefixStays
  <2>9. CASE sess'.out_len # sess.out_len
    BY <2>1, <2>3, <2>5, <2>7, <2>9, PrefixGrows
  <2>. QED
    BY <2>8, <2>9
<1>. QED
  BY <1>1, <1>2, <1>3, <1>4, <1>5, <1>6 DEF CallStep, CallerNext

LEMMA InDone ==
    ASSUME Inv, StatInv, InNext PROVE DoneInv'
<1>1. /\ pcIn # "done" /\ UNCHANGED <<caller, req, pcOut>>
      /\ sess'.single_thread = sess.single_thread
      /\ pcIn' = "done" => sess'.stat = sess.stat
  BY InReport DEF InReports
<1>2. caller = "run"
  BY <1>1, Running
<1>3. SUFFICES ASSUME pcIn' = "done"
               PROVE  \/ pos' = Total(req.mem) \/ req.stop \/ sess'.stat # "OK"
                      \/ sess'.single_thread /\ ~sess'.last_submitted
  BY <1>1 DEF DoneInv
<1>4. CASE InAdvance
  <2>1. pos' = Total(req.mem) \/ req.stop \/ sess.stop_submitting
    BY <1>3, <1>4, InAdvanceFacts DEF Inv, TypeInv
  <2>2. sess.stop_submitting => sess.stat # "OK"
    BY <1>2 DEF StatInv
  <2>. QED
    BY <1>1, <1>3, <2>1, <2>2
<1>5. CASE InErrExit
  <2>1. pcIn = "err"
    BY <1>5, InErrExitFacts DEF Inv, TypeInv
  <2>. QED
    BY <1>1, <1>2, <1>3, <2>1 DEF StatInv
<1>6. CASE InBatchEnd
  <2>1. sess.single_thread /\ pcIn = "get" /\ sess' = sess
    BY <1>6 DEF InBatchEnd, BatchEnds
  <2>. QED
    BY <1>2, <2>1 DEF StatInv
<1>7. CASE ~InAdvance /\ ~InErrExit /\ ~InBatchEnd
  <2>1. pcIn' # "done"
    <3>1. CASE InStart \/ InNoBuffer \/ InSWPending
      BY <1>1, <3>1 DEF InStart, InNoBuffer, InSWPending
    <3>2. CASE InCheck \/ InSWFallback
      BY <3>2, InCheckFacts, InSWFallbackFacts DEF Inv, TypeInv
    <3>3. CASE InGetBuffer \/ InUse \/ InCleanUp
      BY <3>3, InGetBufferFacts, InUseFacts, InCleanUpFacts
         DEF Inv, TypeInv, ProtocolInv
    <3>4. CASE InSubmit
      BY <3>4 DEF InSubmit
    <3>5. CASE InSWDecompress
      BY <3>5, InSWWrites
    <3>. QED
      BY <1>7, <3>1, <3>2, <3>3, <3>4, <3>5 DEF InNext
  <2>. QED
    BY <1>3, <2>1
<1>. QED
  BY <1>4, <1>5, <1>6, <1>7

LEMMA OutDone ==
    ASSUME Inv, DoneInv, OutStep PROVE DoneInv'
<1>. USE DEF Inv, TypeInv, ProtocolInv
<1>1. UNCHANGED <<callVars, inVars>>
  BY OutCallbackFacts, OutSkipFacts, OutSWFacts, OutCopyFacts, OutStopFacts,
     OutTestFacts
     DEF OutStep, OutStart, OutPolled, OutPollFail, OutScan
<1>2. UNCHANGED <<caller, req, pcIn, pos>>
  BY <1>1 DEF callVars, inVars
<1>3. CASE OutStop
  <2>1. sess'.stat = "DATA_ERROR"
    BY <1>3, OutStopFacts
  <2>. QED
    BY <1>2, <2>1 DEF DoneInv
<1>4. CASE OutCopy
  <2>1. /\ pcOut = "copy"
        /\ Alike(sess', sess, {"last_submitted", "seq_in", "in_len",
                    "out_len", "eos"})
        /\ req.fmt # "zlib" => (sess'.last_submitted <=> sess.last_submitted)
    BY <1>4, OutCopyFacts
  <2>2. sess'.stat = sess.stat /\ sess'.single_thread = sess.single_thread
    BY <2>1 DEF Alike
  <2>3. CASE req.fmt = "zlib"
    BY <1>2, <2>3 DEF DoneInv, Whole
  <2>4. CASE req.fmt # "zlib"
    BY <1>2, <2>1, <2>2, <2>4 DEF DoneInv, Whole
  <2>. QED
    BY <2>3, <2>4
<1>5. CASE ~OutStop /\ ~OutCopy
  <2>1. pcOut # "stop" /\ Alike(sess', sess, {"inflate", "ipos", "force_sw",
             "eos", "seq_in", "in_len", "out_len", "last_processed"})
    <3>1. CASE OutStart \/ OutPolled \/ OutPollFail \/ OutScan \/ OutCallback
      <4>1. sess' = sess
        BY <3>1, OutCallbackFacts DEF OutStart, OutPolled, OutPollFail, OutScan
      <4>2. pcOut # "stop"
        BY <3>1, OutCallbackFacts DEF OutStart, OutPolled, OutPollFail, OutScan
      <4>. QED
        BY <4>1, <4>2 DEF Alike
    <3>2. CASE OutSkip
      BY <3>2, OutSkipFacts DEF Responded, Alike
    <3>3. CASE OutTest
      BY <3>3, OutTestFacts DEF SessStep, Alike
    <3>4. CASE OutSW
      <4>1. \/ Alike(sess', sess, {"inflate", "ipos", "force_sw",
                        "eos", "seq_in", "in_len", "out_len"})
            \/ Alike(sess', sess, {"inflate", "ipos", "force_sw", "eos"})
            \/ sess' = sess
        BY <3>4, OutSWFacts
      <4>2. pcOut = "sw"
        BY <3>4, OutSWFacts
      <4>. QED
        BY <4>1, <4>2 DEF Alike
    <3>. QED
      BY <1>5, <3>1, <3>2, <3>3, <3>4 DEF OutStep
  <2>2. /\ sess'.stat = sess.stat /\ sess'.single_thread = sess.single_thread
        /\ sess'.last_submitted = sess.last_submitted
    BY <2>1 DEF Alike
  <2>. QED
    BY <1>2, <2>1, <2>2 DEF DoneInv, Whole
<1>. QED
  BY <1>3, <1>4, <1>5

\* Nothing of it is the device's.
LEMMA DevDone ==
    ASSUME Inv, DoneInv, DevStep PROVE DoneInv'
<1>1. UNCHANGED <<callVars, sess, inVars, outVars>>
  BY HwCompleteFacts DEF DevStep, FatalError, Restarted, vars, Inv, TypeInv
<1>2. UNCHANGED <<caller, req, pcIn, pos, pcOut>>
  BY <1>1 DEF callVars, inVars, outVars
<1>. QED
  BY <1>1, <1>2 DEF DoneInv, Whole

LEMMA CallDone ==
    ASSUME Inv, CallStep PROVE DoneInv'
<1>1. pcIn' = "start" \/ caller' # "run"
  <2>1. CASE EnterHW
    BY <2>1, Zenon DEF EnterHW
  <2>2. CASE NextBatch
    BY <2>2 DEF NextBatch
  <2>3. CASE CallNew \/ CallOn
    BY <2>3 DEF CallNew, CallOn, Call
  <2>4. CASE EnterSW \/ EnterRefused
    BY <2>4, EnterSWFacts, EnterRefusedFacts DEF Inv, TypeInv
  <2>5. CASE FinishMismatch \/ Finish
    BY <2>5 DEF FinishMismatch, Finish, Return
  <2>6. CASE FinishSW
    BY <2>6, FinishSWFacts DEF Inv, TypeInv
  <2>. QED
    BY <2>1, <2>2, <2>3, <2>4, <2>5, <2>6 DEF CallStep, CallerNext
<1>. QED
  BY <1>1 DEF DoneInv

LEMMA CallComplete ==
    ASSUME Inv, StatInv, ChainInv, DoneInv, CallStep PROVE CompleteInv'
<1>. USE DEF Inv, TypeInv, ProtocolInv
<1>1. CASE CallNew \/ CallOn \/ EnterHW \/ NextBatch
  <2>1. caller' # "idle"
    <3>1. CASE EnterHW
      BY <3>1, Zenon DEF EnterHW
    <3>2. CASE NextBatch
      BY <3>2 DEF NextBatch, callVars
    <3>3. CASE CallNew \/ CallOn
      BY <3>3 DEF CallNew, CallOn, Call
    <3>. QED
      BY <1>1, <3>1, <3>2, <3>3
  <2>. QED
    BY <2>1 DEF CompleteInv, OkIsComplete
<1>2. CASE EnterRefused
  <2>1. ret'.rc # "OK"
    BY <1>2 DEF EnterRefused
  <2>. QED
    BY <2>1 DEF CompleteInv, OkIsComplete
<1>3. CASE EnterSW
  <2>1. PICK r \in SwResults(SwMulti(req.off, req.dest)) :
          /\ SwAnswer(r, req.off, req.dest)
          /\ ret' = [rc |-> r.rc, src_len |-> r.n, dest_len |-> r.n]
          /\ caller = "enter" /\ req' = req
    BY <1>3, EnterSWFacts
  <2>2. /\ req.mem \in Sources /\ req.off \in Nat /\ req.off < Total(req.mem)
        /\ req.dest \in Nat /\ sess.inflate \in InflateStates
    BY <2>1, SessTyped DEF TypeCall, TypeSess
  <2>3. r.rc = "OK" => \/ r.n = req.dest \/ req.off + r.n = Total(req.mem)
                       \/ req.stop
    BY <2>2, SwMultiFact
  <2>4. ret'.rc = r.rc /\ ret'.src_len = r.n /\ ret'.dest_len = r.n
    BY <2>1
  <2>. QED
    BY <2>1, <2>3, <2>4 DEF CompleteInv, OkIsComplete
<1>4. CASE Finish
  <2>1. /\ caller = "run" /\ pcIn = "done" /\ pcOut = "done"
        /\ sess.single_thread => sess.last_processed
        /\ ret'.rc = sess.stat /\ ret'.src_len = sess.in_len /\ req' = req
    BY <1>4 DEF Finish, Joined, Return
  <2>2. SUFFICES ASSUME sess.stat = "OK", req.fmt # "4b", ~Whole, ~req.stop
                 PROVE  req.off + sess.in_len = Total(req.mem)
    BY <2>1 DEF CompleteInv, OkIsComplete, Whole
  <2>3. pos = Total(req.mem)
    <3>1. sess.single_thread => sess.last_submitted
      BY <2>1 DEF StageInv
    <3>. QED
      BY <2>1, <2>2, <3>1 DEF DoneInv
  <2>4. Live = {}
    BY CallRests
  <2>5. Settled /\ Trusted
    BY <2>1, <2>2 DEF Settled, Trusted
  <2>. QED
    BY <2>1, <2>2, <2>3, <2>4, <2>5 DEF ChainInv, LinkedEnd, NextPos
<1>5. CASE FinishMismatch
  BY <1>5, CallRests DEF FinishMismatch
<1>6. CASE FinishSW
  <2>0. PICK p, room : /\ p = req.off + sess.in_len
                       /\ room = req.dest - sess.out_len
    OBVIOUS
  <2>8. /\ Joined /\ NeedsSW /\ req' = req
        /\ ret' = [rc |-> sess'.stat, src_len |-> sess'.in_len,
                   dest_len |-> sess'.out_len]
    BY <1>6, FinishSWFacts
  <2>9. /\ ret'.rc = sess'.stat /\ ret'.src_len = sess'.in_len
        /\ ret'.dest_len = sess'.out_len
    BY <2>8
  <2>10. caller = "run"
    BY <2>8, Zenon DEF Joined
  <2>1. \/ p = Total(req.mem) /\ SessStep({"stat"})
        \/ /\ p < Total(req.mem) /\ room \in Nat
           /\ \E r \in SwResults(SwMulti(p, room)) :
                /\ SwAnswer(r, p, room)
                /\ \/ SwEffect(sess', sess, p, r)
                   \/ /\ r.rc = "OK"
                      /\ \E s : /\ SwEffect(s, sess, p, r)
                                /\ CountEffect(sess', s, r.n,
                                     {"in_len", "out_len", "stat"})
    BY <1>6, <2>0, FinishSWFacts, ZenonT(60)
  <2>2. /\ req.mem \in Sources /\ sess.inflate \in InflateStates
        /\ sess.in_len \in Nat /\ sess.out_len \in Nat /\ req.off \in Nat
        /\ req.dest \in Nat
    BY <2>10, Counters, SessTyped DEF TypeSess
  <2>3. CASE p = Total(req.mem) /\ SessStep({"stat"})
    <3>1. sess'.in_len = sess.in_len
      BY <2>3 DEF SessStep, Alike
    <3>. QED
      BY <2>0, <2>8, <2>9, <2>3, <3>1 DEF CompleteInv, OkIsComplete
  <2>4. ASSUME NEW r, SwEffect(sess', sess, p, r) PROVE CompleteInv'
    <3>1. sess'.stat = sess.stat
      BY <2>4 DEF SwEffect, Alike
    <3>2. sess.stat # "OK"
      BY <2>8 DEF NeedsSW
    <3>. QED
      BY <2>9, <3>1, <3>2 DEF CompleteInv, OkIsComplete
  <2>5. ASSUME p < Total(req.mem), room \in Nat,
               NEW r \in SwResults(SwMulti(p, room)), SwAnswer(r, p, room),
               r.rc = "OK", NEW s, SwEffect(s, sess, p, r),
               CountEffect(sess', s, r.n, {"in_len", "out_len", "stat"})
        PROVE  CompleteInv'
    <3>1. /\ sess'.in_len = sess.in_len + r.n
          /\ sess'.out_len = sess.out_len + r.n
      BY <2>5 DEF SwEffect, CountEffect, Alike
    <3>2. p \in Nat
      BY <2>0, <2>2
    <3>3. r.n = room \/ p + r.n = Total(req.mem) \/ req.stop
      BY <2>2, <2>5, <3>2, SwMultiFact
    <3>4. PICK n \in Nat : n = r.n
      BY <2>5 DEF SwAnswer
    <3>5. \/ sess'.out_len = req.dest
          \/ req.off + sess'.in_len = Total(req.mem) \/ req.stop
      BY <2>0, <2>2, <3>1, <3>3, <3>4
    <3>. QED
      BY <2>8, <2>9, <3>5 DEF CompleteInv, OkIsComplete
  <2>. QED
    BY <2>1, <2>3, <2>4, <2>5
<1>. QED
  BY <1>1, <1>2, <1>3, <1>4, <1>5, <1>6 DEF CallStep, CallerNext

\* While the two threads and the device work, no call has returned.
LEMMA StillRunning ==
    ASSUME Inv, InNext \/ OutStep PROVE caller' = "run"
<1>1. CASE InNext
  BY <1>1, InReport, Running DEF InReports
<1>2. CASE OutStep
  <2>1. pcOut # "done"
    BY <1>2 DEF OutStep, OutStart, OutCallback, OutPolled, OutPollFail,
                OutScan, OutSkip, OutSW, OutCopy, OutStop, OutTest
  <2>2. caller' = caller
    <3>1. CASE OutSkip \/ OutSW \/ OutCopy \/ OutCallback
      BY <3>1, OutSkipFacts, OutSWFacts, OutCopyFacts, OutCallbackFacts
         DEF callVars, Inv, TypeInv, ProtocolInv
    <3>2. CASE OutStart \/ OutPolled \/ OutPollFail \/ OutScan
      BY <3>2 DEF OutStart, OutPolled, OutPollFail, OutScan, callVars
    <3>3. CASE OutStop \/ OutTest
      BY <3>3, OutStopFacts, OutTestFacts
         DEF callVars, Inv, TypeInv, ProtocolInv
    <3>. QED
      BY <1>2, <3>1, <3>2, <3>3 DEF OutStep
  <2>. QED
    BY <2>1, <2>2, RunningOut
<1>. QED
  BY <1>1, <1>2

LEMMA ReturnedKept ==
    ASSUME Inv, TruthInv, CompleteInv, InNext \/ OutStep \/ DevStep
    PROVE  TruthInv' /\ CompleteInv'
<1>1. CASE InNext \/ OutStep
  BY <1>1, StillRunning DEF TruthInv, CompleteInv, ReportsTruth, OkIsComplete
<1>2. CASE DevStep
  <2>1. UNCHANGED <<caller, calls, req, ret, sess>>
    BY <1>2, HwCompleteFacts
       DEF DevStep, FatalError, Restarted, vars, callVars, Inv, TypeInv
  <2>2. caller = "run" \/ dst' = dst
    <3>1. CASE HwComplete
      <4>1. PICK r, a : AnsweredWith(r, a)
        BY <3>1, HwCompleteStep
      <4>. QED
        BY <4>1, LivePlace DEF AnsweredWith
    <3>2. CASE FatalError \/ Restarted \/ UNCHANGED vars
      BY <3>2 DEF FatalError, Restarted, vars
    <3>. QED
      BY <1>2, <3>1, <3>2 DEF DevStep
  <2>. QED
    BY <2>1, <2>2
       DEF TruthInv, CompleteInv, ReportsTruth, OkIsComplete, Intact
<1>. QED
  BY <1>1, <1>2

-----------------------------------------------------------------------------
(* The end of a stream.                                                    *)

\* Only a submission adds to what is live.
LEMMA InLive ==
    ASSUME Inv, InNext
    PROVE  \/ Live' = Live
           \/ InSubmit /\ pcIn' = "adv" /\ \E a : Submitted(a)
<1>1. CASE InStart
  <2>1. pcIn = "start"
    BY <1>1 DEF InStart
  <2>2. sess.seq_in = NextSeq
    BY <2>1 DEF Inv, ProtocolInv, SeqInv, SeqPlace, NextSeq
  <2>3. Live = {}
    BY <2>2, NoneLive DEF Inv, ProtocolInv, SeqInv
  <2>. QED
    BY <1>1, <2>3, InStartStep
<1>2. CASE InSWDecompress
  BY <1>2, InSWDecompressStep DEF Softly, Still
<1>3. CASE InSubmit
  BY <1>3, InSubmitStep DEF Still
<1>4. CASE ~InStart /\ ~InSWDecompress /\ ~InSubmit
  BY <1>4, InCheckStep, InBatchEndStep, InGetBufferStep, InUseStep,
     InSWFallbackStep, InAdvanceStep DEF InNext, Still
<1>. QED
  BY <1>1, <1>2, <1>3, <1>4

\* Where doDecompressIn gives up.
LEMMA InGivesUp ==
    ASSUME Inv, InNext, pcIn' = "err", sess'.stat # sess.stat
    PROVE  /\ pos' = pos /\ dptr' = dptr /\ pcIn \in {"check", "sw", "swdec"}
           /\ Failed' => pos < Total(req.mem) /\ dptr < req.dest
<1>. USE DEF Inv, TypeInv, ProtocolInv
<1>1. CASE InCheck
  <2>1. LET rc == CheckHeader(pos, req.dest - dptr)
        IN  /\ pcIn = "check" /\ sess'.stat = rc
            /\ pos' = pos /\ dptr' = dptr
    BY <1>1, InCheckFacts
  <2>2. pos \in Nat /\ dptr \in Nat /\ req.dest \in Nat
        /\ Total(req.mem) \in Nat
    <3>1. caller = "run" /\ calls > 0
      BY <2>1, Running
    <3>. QED
      BY <3>1, TotalType DEF TypeIn, TypeCall
  <2>3. ASSUME Failed' PROVE pos < Total(req.mem) /\ dptr < req.dest
    <3>1. CheckHeader(pos, req.dest - dptr) # "BUF_ERROR"
      BY <2>1, <2>3 DEF Failed
    <3>2. ~(pos >= Total(req.mem) \/ req.dest - dptr <= 0)
      BY <3>1, Zenon DEF CheckHeader
    <3>. QED
      BY <2>2, <3>2
  <2>. QED
    BY <2>1, <2>3
<1>2. CASE InSWFallback \/ InSWDecompress
  <2>1. pcIn \in {"sw", "swdec"} /\ pos' = pos /\ dptr' = dptr
    BY <1>2, InSWFallbackFacts, InSWDecompressFacts
  <2>2. pos < Total(req.mem) /\ dptr < req.dest
    BY <2>1 DEF SpaceInv, SpaceCall, Busy
  <2>. QED
    BY <2>1, <2>2
<1>3. CASE ~InCheck /\ ~InSWFallback /\ ~InSWDecompress
  <2>1. pcIn' # "err" \/ sess' = sess
    <3>1. CASE InStart \/ InBatchEnd \/ InNoBuffer \/ InSWPending \/ InSubmit
      BY <3>1 DEF InStart, InBatchEnd, InNoBuffer, InSWPending, InSubmit
    <3>2. CASE InGetBuffer \/ InUse \/ InCleanUp
      BY <3>2, InGetBufferFacts, InUseFacts, InCleanUpFacts
    <3>3. CASE InAdvance \/ InErrExit
      BY <3>3, InAdvanceFacts, InErrExitFacts
    <3>. QED
      BY <1>3, <3>1, <3>2, <3>3 DEF InNext
  <2>. QED
    BY <2>1
<1>. QED
  BY <1>1, <1>2, <1>3

LEMMA InFail ==
    ASSUME Inv, FailInv, InNext PROVE FailInv'
<1>. USE DEF Inv, TypeInv, ProtocolInv
<1>1. /\ pcIn # "done" /\ UNCHANGED <<caller, req>>
      /\ sess'.single_thread = sess.single_thread
      /\ sess'.stat = sess.stat \/ pcIn' = "err"
      /\ pcIn = "err" => pcIn' = "done"
  BY InReport DEF InReports
<1>2. caller = "run"
  BY <1>1, Running
<1>3. ASSUME pcIn' \in {"swseq", "swdec"} PROVE ~sess'.single_thread
  <2>1. CASE InSWFallback
    BY <1>1, <1>3, <2>1, InSWFallbackFacts
  <2>2. CASE InSWPending
    BY <1>1, <1>2, <1>3, <2>2 DEF InSWPending, FailInv
  <2>3. CASE ~InSWFallback /\ ~InSWPending
    <3>1. CASE InStart \/ InBatchEnd \/ InNoBuffer \/ InSubmit
      BY <1>3, <3>1 DEF InStart, InBatchEnd, InNoBuffer, InSubmit
    <3>2. CASE InGetBuffer \/ InUse \/ InCleanUp
      BY <1>3, <3>2, InGetBufferFacts, InUseFacts, InCleanUpFacts
    <3>3. CASE InAdvance \/ InErrExit \/ InCheck \/ InSWDecompress
      BY <1>3, <3>3, InAdvanceFacts, InErrExitFacts, InCheckFacts,
         InSWDecompressFacts
    <3>. QED
      BY <2>3, <3>1, <3>2, <3>3 DEF InNext
  <2>. QED
    BY <2>1, <2>2, <2>3
<1>4. ASSUME Failed'
      PROVE  /\ pcIn' \in {"err", "done"}
             /\ pos' < Total(req.mem) /\ dptr' < req.dest
             /\ pcIn' = "done" => sess'.last_submitted
             /\ Whole => Live' = {}
  <2>1. CASE sess'.stat # sess.stat
    <3>1. /\ pcIn' = "err" /\ pos' = pos /\ dptr' = dptr
          /\ pcIn \in {"check", "sw", "swdec"}
          /\ pos < Total(req.mem) /\ dptr < req.dest
      BY <1>1, <1>4, <2>1, InGivesUp
    <3>2. Whole => Live = {}
      BY <3>1 DEF WholeInv
    <3>3. Live' = Live
      BY <3>1, InLive
    <3>. QED
      BY <3>1, <3>2, <3>3
  <2>2. CASE sess'.stat = sess.stat
    <3>1. Failed
      BY <1>4, <2>2 DEF Failed
    <3>2. /\ pcIn = "err" /\ pos < Total(req.mem) /\ dptr < req.dest
          /\ Whole => Live = {}
      BY <1>1, <1>2, <3>1 DEF FailInv
    <3>3. InErrExit
      <4>1. ~InStart /\ ~InBatchEnd /\ ~InNoBuffer /\ ~InSWPending /\ ~InSubmit
        BY <3>2 DEF InStart, InBatchEnd, InNoBuffer, InSWPending, InSubmit
      <4>2. ~InGetBuffer /\ ~InUse /\ ~InCleanUp
        BY <3>2, InGetBufferFacts, InUseFacts, InCleanUpFacts
      <4>3. ~InAdvance /\ ~InCheck /\ ~InSWFallback /\ ~InSWDecompress
        BY <3>2, InAdvanceFacts, InCheckFacts, InSWFallbackFacts,
           InSWDecompressFacts
      <4>. QED
        BY <4>1, <4>2, <4>3 DEF InNext
    <3>4. /\ pcIn' = "done" /\ sess'.last_submitted /\ pos' = pos
          /\ dptr' = dptr
      BY <3>3, InErrExitFacts
    <3>5. Live' = Live
      BY <3>4, InLive
    <3>. QED
      BY <3>2, <3>4, <3>5
  <2>. QED
    BY <2>1, <2>2
<1>5. Whole' <=> Whole
  BY <1>1 DEF Whole
<1>. QED
  BY <1>1, <1>2, <1>3, <1>4, <1>5 DEF FailInv

\* What doDecompressOut leaves to doDecompressIn.
LEMMA OutKeeps ==
    ASSUME Inv, StatInv, OutStep
    PROVE  /\ UNCHANGED <<caller, req, pcIn, pos, dptr, tmp>>
           /\ caller = "run" /\ Live' \subseteq Live
           /\ sess'.single_thread = sess.single_thread
           /\ \/ sess'.stat = sess.stat
              \/ sess'.stat = "DATA_ERROR"
           /\ \/ sess'.last_submitted <=> sess.last_submitted
              \/ OutCopy /\ Whole /\ Live # {}
<1>. USE DEF Inv, TypeInv, ProtocolInv
<1>1. UNCHANGED <<callVars, inVars>>
  BY OutCallbackFacts, OutSkipFacts, OutSWFacts, OutCopyFacts, OutStopFacts,
     OutTestFacts
     DEF OutStep, OutStart, OutPolled, OutPollFail, OutScan
<1>2. UNCHANGED <<caller, req, pcIn, pos, dptr, tmp>>
  BY <1>1 DEF callVars, inVars
<1>3. caller = "run"
  BY <1>2, StillRunning
<1>4. Live' \subseteq Live
  BY OutQuietStep, OutCallbackStep, OutSkipStep, OutSWStep, OutCopyStep
     DEF OutStep, Still, Took
<1>5. CASE OutStop
  <2>1. sess'.stat = "DATA_ERROR" /\ SessStep({"stop_submitting", "stat"})
    BY <1>5, OutStopFacts
  <2>. QED
    BY <1>2, <1>3, <1>4, <2>1 DEF SessStep, Alike
<1>6. CASE OutCopy
  <2>1. /\ Alike(sess', sess, {"last_submitted", "seq_in", "in_len",
                    "out_len", "eos"})
        /\ req.fmt # "zlib" => (sess'.last_submitted <=> sess.last_submitted)
        /\ res[jOut] \in Live
    BY <1>6, OutCopyFacts
  <2>2. sess'.stat = sess.stat /\ sess'.single_thread = sess.single_thread
    BY <2>1 DEF Alike
  <2>. QED
    BY <1>2, <1>3, <1>4, <1>6, <2>1, <2>2 DEF Whole
<1>7. CASE ~OutStop /\ ~OutCopy
  <2>1. Alike(sess', sess, {"inflate", "ipos", "force_sw",
             "eos", "seq_in", "in_len", "out_len", "last_processed"})
    <3>1. CASE OutStart \/ OutPolled \/ OutPollFail \/ OutScan \/ OutCallback
      <4>1. sess' = sess
        BY <3>1, OutCallbackFacts DEF OutStart, OutPolled, OutPollFail, OutScan
      <4>. QED
        BY <4>1 DEF Alike
    <3>2. CASE OutSkip
      BY <3>2, OutSkipFacts DEF Responded, Alike
    <3>3. CASE OutTest
      BY <3>3, OutTestFacts DEF SessStep, Alike
    <3>4. CASE OutSW
      <4>1. \/ Alike(sess', sess, {"inflate", "ipos", "force_sw",
                        "eos", "seq_in", "in_len", "out_len"})
            \/ Alike(sess', sess, {"inflate", "ipos", "force_sw", "eos"})
            \/ sess' = sess
        BY <3>4, OutSWFacts
      <4>. QED
        BY <4>1 DEF Alike
    <3>. QED
      BY <1>7, <3>1, <3>2, <3>3, <3>4 DEF OutStep
  <2>2. /\ sess'.stat = sess.stat /\ sess'.single_thread = sess.single_thread
        /\ sess'.last_submitted = sess.last_submitted
    BY <2>1 DEF Alike
  <2>. QED
    BY <1>2, <1>3, <1>4, <2>2
<1>. QED
  BY <1>5, <1>6, <1>7

LEMMA OutFail ==
    ASSUME Inv, StatInv, FailInv, OutStep PROVE FailInv'
<1>1. /\ UNCHANGED <<caller, req, pcIn, pos, dptr>>
      /\ caller = "run" /\ Live' \subseteq Live
      /\ sess'.single_thread = sess.single_thread
      /\ sess'.stat = sess.stat \/ sess'.stat = "DATA_ERROR"
      /\ \/ sess'.last_submitted <=> sess.last_submitted
         \/ Whole /\ Live # {}
  BY OutKeeps
<1>2. Failed' => Failed
  BY <1>1 DEF Failed
<1>3. Whole' <=> Whole
  BY <1>1 DEF Whole
<1>. QED
  BY <1>1, <1>2, <1>3 DEF FailInv

LEMMA DevFail ==
    ASSUME Inv, FailInv, DevStep PROVE FailInv'
<1>1. UNCHANGED <<callVars, sess, inVars, outVars>>
  BY HwCompleteFacts DEF DevStep, FatalError, Restarted, vars, Inv, TypeInv
<1>2. UNCHANGED <<caller, req, pcIn, pos, dptr>>
  BY <1>1 DEF callVars, inVars
<1>3. Live = {} => Live' = {}
  BY HwCompleteStep, UntouchedStep DEF DevStep, AnsweredWith, Still
<1>. QED
  BY <1>1, <1>2, <1>3 DEF FailInv, Failed, Whole

\* A single thread begins no batch after its last.
LEMMA BatchAfter ==
    ASSUME Inv, StatInv, NextBatch
    PROVE  /\ caller = "run" /\ sess.single_thread /\ ~sess.last_submitted
           /\ pcIn = "done" /\ pcOut = "done" /\ pcIn' = "start"
           /\ UNCHANGED <<caller, req, sess>>
<1>1. /\ caller = "run" /\ sess.single_thread /\ ~sess.last_processed
      /\ pcIn = "done" /\ pcOut = "done" /\ pcIn' = "start"
      /\ UNCHANGED <<caller, req, sess>>
  BY DEF NextBatch, callVars
<1>. QED
  BY <1>1 DEF StatInv

LEMMA CallFail ==
    ASSUME Inv, StatInv, FailInv, CallStep PROVE FailInv'
<1>1. CASE EnterHW
  <2>1. sess'.stat = "OK" /\ pcIn' = "start"
    BY <1>1, EnterHWFacts, Zenon DEF EnterHW, Inv, TypeInv
  <2>. QED
    BY <2>1 DEF FailInv, Failed
<1>2. CASE NextBatch
  BY <1>2, BatchAfter DEF FailInv, Failed
<1>3. CASE ~EnterHW /\ ~NextBatch
  <2>1. caller' # "run"
    <3>1. CASE CallNew \/ CallOn
      BY <3>1 DEF CallNew, CallOn, Call
    <3>2. CASE EnterSW \/ EnterRefused
      BY <3>2, EnterSWFacts, EnterRefusedFacts DEF Inv, TypeInv
    <3>3. CASE FinishMismatch \/ Finish
      BY <3>3 DEF FinishMismatch, Finish, Return
    <3>4. CASE FinishSW
      BY <3>4, FinishSWFacts DEF Inv, TypeInv
    <3>. QED
      BY <1>3, <3>1, <3>2, <3>3, <3>4 DEF CallStep, CallerNext
  <2>. QED
    BY <2>1 DEF FailInv
<1>. QED
  BY <1>1, <1>2, <1>3

-----------------------------------------------------------------------------
(* The software fallback and the end of a stream.                          *)

\* Once the software has been forced, the device is given nothing.
LEMMA ForcedSW ==
    ASSUME Inv, InCheck, sess.force_sw PROVE pcIn' # "get"
<1>1. CheckHeader(pos, req.dest - dptr) # "OK"
  BY Zenon DEF CheckHeader
<1>. QED
  BY <1>1, InCheckFacts DEF Inv, TypeInv

\* A request that reaches the end of the source leaves nothing to come.
LEMMA LastNext ==
    ASSUME Inv, NEW r \in Live, r.pos + r.src = Total(req.mem)
    PROVE  NextPos = Total(req.mem)
<1>1. /\ r.pos \in Nat /\ caller = "run" /\ calls > 0 /\ pcIn # "start"
      /\ r \in Jobs
  BY LivePlace
<1>2. r.src \in Nat /\ NextPos \in Nat /\ Total(req.mem) \in Nat
  BY <1>1, NextType, TotalType DEF Inv, TypeInv, TypeCall, Jobs
<1>3. r.pos + r.src <= NextPos /\ NextPos <= Total(req.mem)
  BY <1>1 DEF Inv, SpaceInv, SpaceCall, SpaceLive, Settled
<1>. QED
  BY <1>2, <1>3

LEMMA InEosSoft ==
    ASSUME Inv, FailInv, InSWDecompress, sess'.stat = "OK" PROVE EosInv'
<1>. USE DEF Inv, TypeInv, ProtocolInv
<1>1. pcIn = "swdec" /\ caller = "run" /\ UNCHANGED <<caller, req>>
  BY InSWDecompressFacts DEF callVars
<1>2. PICK r \in SwResults(SwOne(pos, req.dest - dptr)) :
         /\ r.rc = "OK"
         /\ sess'.inflate = r.inflate /\ pcIn' = "adv"
         /\ sess'.force_sw <=> sess.force_sw \/ Deflate(req.fmt)
         /\ sess'.eos <=> /\ Deflate(req.fmt) /\ r.rc = "OK"
                          /\ r.inflate = "null"
         /\ Alike(sess', sess, {"inflate", "ipos", "force_sw",
                                  "eos", "seq_in", "in_len", "out_len"})
  BY InSWDecompressFacts
<1>3. r.inflate \in {"null", "ok"}
  <2>1. /\ pos \in Nat /\ pos < Total(req.mem) /\ req.dest - dptr \in Nat
    BY InSWDecompressFacts DEF TypeIn
  <2>2. req.mem \in Sources /\ sess.inflate \in InflateStates
    BY <1>1, SessTyped DEF TypeCall, TypeSess
  <2>. QED
    BY <1>2, <2>1, <2>2, SwOneFact
<1>4. ~sess'.single_thread
  <2>1. ~sess.single_thread
    BY <1>1 DEF FailInv
  <2>. QED
    BY <1>2, <2>1 DEF Alike
<1>5. Live' = {}
  BY <1>2, InSWDecompressStep DEF Softly
<1>. QED
  BY <1>1, <1>2, <1>3, <1>4, <1>5 DEF EosInv, Streaming, Submits

LEMMA ForcedStays ==
    ASSUME Inv, InCheck, sess.force_sw PROVE sess'.force_sw
<1>. USE DEF Inv, TypeInv, TypeSess
<1>1. PICK rc : rc = CheckHeader(pos, req.dest - dptr)
  OBVIOUS
<1>2. CASE rc # "FORCE_SW"
  BY <1>1, <1>2, InCheckFacts
<1>3. CASE rc = "FORCE_SW"
  <2>1. sess' = [sess EXCEPT !.force_sw = @ \/ Remembers(pos)]
    BY <1>1, <1>3, ZenonT(30) DEF InCheck
  <2>2. PICK f \in BOOLEAN : f <=> (sess.force_sw \/ Remembers(pos))
    OBVIOUS
  <2>3. f = (sess.force_sw \/ Remembers(pos))
    BY <2>2
  <2>4. sess' = [sess EXCEPT !.force_sw = f]
    BY <2>1, <2>3, Zenon
  <2>5. sess'.force_sw = f
    BY <2>4, SetForced, Zenon
  <2>. QED
    BY <2>2, <2>5, Zenon
<1>. QED
  BY <1>2, <1>3

\* What the steps of doDecompressIn that neither submit nor decompress nor
\* count do for the end of the stream.
LEMMA InPlain ==
    ASSUME Inv, InNext, ~InSubmit, ~InSWDecompress, ~InAdvance, ~InErrExit
    PROVE  /\ pcIn \notin {"adv", "done"}
           /\ Live' = Live /\ Alike(sess', sess, {"force_sw", "stat"})
           /\ sess.force_sw => sess'.force_sw
           /\ sess.force_sw /\ pcIn \notin Submits => pcIn' \notin Submits
<1>. USE DEF Inv, TypeInv, ProtocolInv
<1>1. Live' = Live
  BY InLive
<1>2. CASE InCheck
  <2>1. /\ pcIn = "check" /\ pcIn' \in {"get", "sw", "err"}
        /\ Alike(sess', sess, {"force_sw", "stat"})
    BY <1>2, InCheckFacts DEF SessStep
  <2>2. sess.force_sw => sess'.force_sw /\ pcIn' # "get"
    BY <1>2, ForcedStays, ForcedSW
  <2>. QED
    BY <1>1, <2>1, <2>2 DEF Submits
<1>3. CASE InSWFallback
  <2>1. /\ pcIn = "sw" /\ pcIn' \in {"err", "swseq"}
        /\ Alike(sess', sess, {"stat"})
    BY <1>3, InSWFallbackFacts DEF SessStep
  <2>. QED
    BY <1>1, <2>1 DEF Submits, Alike
<1>4. CASE InStart \/ InBatchEnd \/ InNoBuffer \/ InSWPending
  <2>1. /\ pcIn \in {"start", "get", "swseq"} /\ sess' = sess
        /\ pcIn = "swseq" => pcIn' \in {"check", "swdec"}
    BY <1>4 DEF InStart, InBatchEnd, InNoBuffer, InSWPending
  <2>. QED
    BY <1>1, <2>1 DEF Submits, Alike
<1>5. CASE InGetBuffer \/ InUse \/ InCleanUp
  <2>1. pcIn \in {"get", "use", "cleanup"} /\ sess' = sess
    BY <1>5, InGetBufferFacts, InUseFacts, InCleanUpFacts
  <2>. QED
    BY <1>1, <2>1 DEF Submits, Alike
<1>. QED
  BY <1>2, <1>3, <1>4, <1>5 DEF InNext

LEMMA InEos ==
    ASSUME Inv, StatInv, StatInv', FailInv, EosInv, InNext PROVE EosInv'
<1>. USE DEF Inv, TypeInv, ProtocolInv
<1>1. /\ pcIn # "done" /\ UNCHANGED <<caller, req, pcOut>>
      /\ sess'.stat = sess.stat \/ (pcIn' = "err" /\ sess'.stat # "OK")
      /\ pcIn = "err" => pcIn' = "done"
  BY InReport DEF InReports
<1>2. SUFFICES ASSUME Streaming' PROVE EosInv'
  BY DEF EosInv
<1>3. Streaming /\ pcIn # "err" /\ sess'.stat = "OK"
  BY <1>1, <1>2 DEF Streaming, Deflate, StatInv
<1>4. /\ sess.inflate = "ok" =>
            /\ Live = {}
            /\ \/ pcIn = "adv" /\ NextPos = Total(req.mem)
               \/ /\ ~sess.single_thread /\ sess.force_sw
                  /\ pcIn \notin Submits
      /\ sess.in_len > 0 => (sess.eos <=> sess.inflate # "ok")
      /\ \A r \in Live : r.pos + r.src = Total(req.mem) => pcIn = "adv"
  BY <1>1, <1>3 DEF EosInv
<1>5. CASE InSWDecompress
  BY <1>3, <1>5, InEosSoft
<1>6. CASE InSubmit
  <2>1. pcIn = "submit" /\ sess' = sess
    BY <1>6 DEF InSubmit
  <2>2. sess.inflate # "ok" /\ \A r \in Live : r.pos + r.src # Total(req.mem)
    BY <1>4, <2>1 DEF Submits
  <2>3. Live' = Live \/ pcIn' = "adv"
    BY InLive
  <2>. QED
    BY <1>1, <1>4, <2>1, <2>2, <2>3 DEF EosInv
<1>7. CASE InAdvance
  <2>1. /\ pcIn = "adv" /\ pos' = pos + tmp.src
        /\ Alike(sess', sess, {"seq", "last_submitted"})
        /\ pcIn' \in {"check", "done"}
        /\ pos' = Total(req.mem) => pcIn' = "done" /\ sess'.last_submitted
    BY <1>7, InAdvanceFacts DEF SessStep
  <2>2. NextPos = pos'
    BY <2>1 DEF NextPos
  <2>3. Live' = Live
    BY <1>7, InAdvanceStep DEF Still
  <2>4. /\ sess'.inflate = sess.inflate /\ sess'.in_len = sess.in_len
        /\ sess'.eos = sess.eos /\ sess'.force_sw = sess.force_sw
        /\ sess'.single_thread = sess.single_thread
    BY <2>1 DEF Alike
  <2>5. \A r \in Live : r.pos + r.src = Total(req.mem) =>
           pcIn' = "done" /\ sess'.last_submitted
    BY <2>1, <2>2, LastNext
  <2>6. sess.inflate = "ok" =>
            /\ Live = {}
            /\ \/ pcIn' = "done" /\ sess'.last_submitted
               \/ /\ ~sess.single_thread /\ sess.force_sw
                  /\ pcIn' \notin Submits
    BY <1>4, <2>1, <2>2 DEF Submits
  <2>. QED
    BY <1>1, <1>4, <2>3, <2>4, <2>5, <2>6 DEF EosInv
<1>8. CASE InErrExit
  BY <1>3, <1>8, InErrExitFacts
<1>9. CASE ~InSubmit /\ ~InSWDecompress /\ ~InAdvance /\ ~InErrExit
  <2>1. /\ pcIn \notin {"adv", "done"}
        /\ Live' = Live /\ Alike(sess', sess, {"force_sw", "stat"})
        /\ sess.force_sw => sess'.force_sw
        /\ sess.force_sw /\ pcIn \notin Submits => pcIn' \notin Submits
    BY <1>9, InPlain
  <2>2. /\ sess'.inflate = sess.inflate /\ sess'.in_len = sess.in_len
        /\ sess'.eos = sess.eos /\ sess'.single_thread = sess.single_thread
    BY <2>1 DEF Alike
  <2>3. \A r \in Live : r.pos + r.src # Total(req.mem)
    BY <1>4, <2>1
  <2>4. sess.inflate = "ok" =>
            /\ Live = {} /\ ~sess.single_thread /\ sess'.force_sw
            /\ pcIn' \notin Submits
    BY <1>4, <2>1
  <2>. QED
    BY <1>1, <1>4, <2>1, <2>2, <2>3, <2>4 DEF EosInv
<1>. QED
  BY <1>5, <1>6, <1>7, <1>8, <1>9

\* Behind an answer that reaches the end of the source there is no other.
LEMMA LastLive ==
    ASSUME Inv, pcOut \in {"sw", "copy"},
           res[jOut].pos + res[jOut].src = Total(req.mem)
    PROVE  Live \ {res[jOut]} = {}
<1>. USE DEF Inv, TypeInv, ProtocolInv
<1>1. PICK q \in Live : /\ q = res[jOut] /\ q.slot = jOut
                        /\ sseq[jOut] = sess.seq_in /\ jOut \in Slots
  BY FirstLive
<1>2. SUFFICES ASSUME NEW r \in Live, r # q PROVE FALSE
  BY <1>1
<1>3. /\ r.pos \in Nat /\ r.slot \in Slots /\ r.pos < Total(req.mem)
      /\ caller = "run" /\ calls > 0
  BY LivePlace DEF JobOK
<1>4. Total(req.mem) \in Nat
  BY <1>3, TotalType DEF TypeCall
<1>5. sess.seq_in \in Nat /\ sseq[r.slot] \in Int
  BY <1>3, NextType DEF TypeStream
<1>6. sess.seq_in <= sseq[r.slot] /\ sseq[r.slot] # sess.seq_in
  BY <1>1, <1>2 DEF SeqInv, SeqLive
<1>7. sseq[q.slot] < sseq[r.slot]
  BY <1>1, <1>5, <1>6
<1>8. q.pos + q.src <= r.pos
  BY <1>1, <1>2, <1>7 DEF SpaceInv, SpaceLive
<1>. QED
  BY <1>1, <1>3, <1>4, <1>8

\* When inflate has not seen the end of a member doDecompressOut repeats, the
\* member is the last one of the source.
LEMMA OutSWLast ==
    ASSUME Inv, ChainInv, Streaming, OutSW, pcOut' = "test",
           sess'.inflate = "ok"
    PROVE  res[jOut].pos + res[jOut].src = Total(req.mem)
<1>. USE DEF Inv, TypeInv, ProtocolInv
<1>1. /\ pcOut = "sw" /\ caller = "run"
      /\ req.off + sess.in_len \in Nat
      /\ req.off + sess.in_len < Total(req.mem) /\ res[jOut].room \in Nat
      /\ \E r \in SwResults(SwOne(req.off + sess.in_len, res[jOut].room)) :
            sess'.inflate = r.inflate /\ r.rc = "OK"
  BY OutSWFacts
<1>2. PICK j \in Live : /\ j = res[jOut] /\ j.slot = jOut /\ JobOK(j)
                        /\ sseq[j.slot] = sess.seq_in /\ pcIn # "start"
                        /\ j.pos + j.src <= NextPos /\ NextPos <= Total(req.mem)
  BY <1>1, FirstLive
<1>3. j.pos = req.off + sess.in_len
  BY <1>1, <1>2 DEF ChainInv, Settled, Trusted, Linked, Streaming
<1>4. /\ j.pos \in Nat /\ j.room \in Nat /\ j.src \in Nat /\ NextPos \in Nat
      /\ calls > 0
  BY <1>1, <1>2, LivePlace, NextType DEF Jobs
<1>5. req.mem \in Sources /\ sess.inflate \in InflateStates
      /\ Total(req.mem) \in Nat
  BY <1>1, <1>4, SessTyped, TotalType DEF TypeCall, TypeSess
<1>6. PICK r \in SwResults(SwOne(j.pos, j.room)) :
         sess'.inflate = r.inflate /\ r.rc = "OK"
  BY <1>1, <1>2, <1>3
<1>7. CASE Whole
  <2>1. j.src = Total(req.mem) - j.pos
    BY <1>2, <1>7 DEF JobOK
  <2>. QED
    BY <1>2, <1>4, <1>5, <2>1
<1>8. CASE ~Whole
  <2>1. j.src = Rest(req.mem, j.pos) /\ j.room = j.src
    <3>1. req.fmt \in {"ext", "gzip", "lz4"}
      BY <1>8 DEF TypeCall, FormatNames, Whole, Streaming
    <3>. QED
      BY <1>2, <1>8, <3>1 DEF JobOK
  <2>2. r.n \in Nat /\ r.n <= j.src /\ j.pos + r.n = Total(req.mem)
    <3>1. j.pos < Total(req.mem)
      BY <1>1, <1>3
    <3>2. /\ SwAnswer(r, j.pos, j.room) /\ r.n <= Rest(req.mem, j.pos)
          /\ r.inflate = "ok" /\ Rest(req.mem, j.pos) <= j.room =>
                j.pos + r.n = Total(req.mem)
      BY <1>4, <1>5, <1>6, <3>1, SwOneFact
    <3>3. r.inflate = "ok"
      BY <1>6
    <3>. QED
      BY <1>4, <2>1, <3>2, <3>3 DEF SwAnswer
  <2>. QED
    BY <1>2, <1>4, <1>5, <2>2
<1>. QED
  BY <1>7, <1>8

LEMMA OutEos ==
    ASSUME Inv, StatInv, ChainInv, EosInv, OutStep PROVE EosInv'
<1>. USE DEF Inv, TypeInv, ProtocolInv
<1>1. /\ UNCHANGED <<caller, req, pcIn, pos, dptr, tmp>>
      /\ caller = "run" /\ Live' \subseteq Live
      /\ sess'.single_thread = sess.single_thread
      /\ sess'.stat = sess.stat \/ sess'.stat = "DATA_ERROR"
      /\ \/ sess'.last_submitted <=> sess.last_submitted
         \/ OutCopy /\ Whole
  BY OutKeeps
<1>2. SUFFICES ASSUME Streaming' PROVE EosInv'
  BY DEF EosInv
<1>3. NextPos' = NextPos
  BY <1>1 DEF NextPos
<1>4. sess.stat = "OK" /\ sess'.stat = "OK" /\ pcOut' \notin {"stop", "err"}
      /\ Deflate(req.fmt) /\ req.fmt # "4b"
  BY <1>1, <1>2 DEF Streaming, Deflate
<1>5. pcOut \notin {"stop", "err", "skip"}
  <2>1. ~OutStop
    BY <1>4, OutStopFacts
  <2>2. pcOut # "stop" /\ pcOut # "err"
    BY <2>1 DEF OutStep, OutStart, OutCallback, OutPolled, OutPollFail,
                OutScan, OutSkip, OutSW, OutCopy, OutTest
  <2>. QED
    BY <1>1, <1>4, <2>2 DEF StatInv
<1>6. Streaming
  BY <1>1, <1>4, <1>5 DEF Streaming
<1>7. CASE OutCopy
  <2>1. /\ pcOut = "copy" /\ res[jOut] \in Live
        /\ pcOut' = "test" /\ sess'.eos = TRUE
        /\ sess'.inflate = sess.inflate
    BY <1>4, <1>7, OutCopyFacts DEF Alike
  <2>2. sess'.inflate # "ok"
    BY <1>6, <2>1 DEF EosInv
  <2>3. Live' = Live \ {res[jOut]}
    BY <1>7, OutCopyStep DEF Took
  <2>4. CASE Whole
    <3>1. res[jOut].pos + res[jOut].src = Total(req.mem)
      <4>1. JobOK(res[jOut]) /\ res[jOut].pos \in Nat
        BY <2>1, LivePlace
      <4>2. Total(req.mem) \in Nat
        BY <2>1, LivePlace, TotalType DEF TypeCall
      <4>. QED
        BY <2>4, <4>1, <4>2 DEF JobOK
    <3>2. Live' = {}
      BY <2>1, <2>3, <3>1, LastLive
    <3>. QED
      BY <2>1, <2>2, <3>2 DEF EosInv
  <2>5. CASE ~Whole
    BY <1>1, <1>6, <2>1, <2>2, <2>5 DEF EosInv
  <2>. QED
    BY <2>4, <2>5
<1>8. CASE OutSW
  <2>1. pcOut = "sw" /\ pcOut' = "test" /\ Live' = Live \ {res[jOut]}
        /\ res[jOut] \in Live
    BY <1>4, <1>8, OutSWFacts, OutSWStep DEF Took
  <2>2. /\ sess'.eos <=> sess'.inflate = "null"
        /\ sess'.inflate \in {"null", "ok"}
        /\ sess'.last_submitted = sess.last_submitted
    <3>1. PICK p, room : /\ p = req.off + sess.in_len
                         /\ room = res[jOut].room
      OBVIOUS
    <3>2. PICK r \in SwResults(SwOne(p, room)) :
             /\ sess'.inflate = r.inflate /\ r.rc = "OK"
             /\ sess'.eos <=> /\ Deflate(req.fmt) /\ r.rc = "OK"
                              /\ r.inflate = "null"
             /\ Alike(sess', sess, {"inflate", "ipos", "force_sw",
                                    "eos", "seq_in", "in_len", "out_len"})
      BY <1>8, <2>1, <3>1, OutSWFacts
    <3>3. p \in Nat /\ p < Total(req.mem) /\ room \in Nat
      BY <1>8, <3>1, OutSWFacts
    <3>4. req.mem \in Sources /\ sess.inflate \in InflateStates
      BY <2>1, LivePlace, SessTyped DEF TypeCall, TypeSess
    <3>5. r.inflate \in {"null", "ok"}
      BY <3>2, <3>3, <3>4, SwOneFact
    <3>6. sess'.last_submitted = sess.last_submitted
      BY <3>2 DEF Alike
    <3>. QED
      BY <1>4, <3>2, <3>5, <3>6
  <2>3. CASE sess'.inflate = "ok"
    <3>1. res[jOut].pos + res[jOut].src = Total(req.mem)
      BY <1>6, <1>8, <2>1, <2>3, OutSWLast
    <3>2. Live' = {} /\ NextPos = Total(req.mem)
      BY <2>1, <3>1, LastLive, LastNext
    <3>3. pcIn = "adv" \/ (pcIn = "done" /\ sess.last_submitted)
      BY <1>6, <2>1, <3>1 DEF EosInv
    <3>. QED
      BY <1>1, <1>3, <2>2, <2>3, <3>2, <3>3 DEF EosInv
  <2>4. CASE sess'.inflate # "ok"
    BY <1>1, <1>6, <2>2, <2>4 DEF EosInv
  <2>. QED
    BY <2>3, <2>4
<1>9. CASE ~OutCopy /\ ~OutSW
  <2>1. Live' = Live
    BY <1>5, <1>9, OutQuietStep, OutCallbackStep
       DEF OutStep, OutSkip, Still
  <2>2. /\ sess'.inflate = sess.inflate /\ sess'.in_len = sess.in_len
        /\ sess'.eos = sess.eos /\ sess'.force_sw = sess.force_sw
    <3>1. CASE OutTest
      BY <3>1, OutTestFacts DEF SessStep, Alike
    <3>2. CASE OutStop
      BY <3>2, OutStopFacts DEF SessStep, Alike
    <3>3. CASE OutStart \/ OutPolled \/ OutPollFail \/ OutScan \/ OutCallback
      BY <3>3, OutCallbackFacts DEF OutStart, OutPolled, OutPollFail, OutScan
    <3>. QED
      BY <1>5, <1>9, <3>1, <3>2, <3>3 DEF OutStep, OutSkip
  <2>. QED
    BY <1>1, <1>3, <1>6, <1>9, <2>1, <2>2 DEF EosInv
<1>. QED
  BY <1>7, <1>8, <1>9

LEMMA DevEos ==
    ASSUME Inv, EosInv, DevStep PROVE EosInv'
<1>1. UNCHANGED <<callVars, sess, inVars, outVars>>
  BY HwCompleteFacts DEF DevStep, FatalError, Restarted, vars, Inv, TypeInv
<1>2. UNCHANGED <<caller, req, sess, pcIn, pos, tmp, pcOut>>
  BY <1>1 DEF callVars, inVars, outVars
<1>3. NextPos' = NextPos
  BY <1>2 DEF NextPos
<1>4. CASE HwComplete
  <2>1. PICK r, a : AnsweredWith(r, a)
    BY <1>4, HwCompleteStep
  <2>2. /\ r \in Live /\ Live' = (Live \ {r}) \cup {a}
        /\ a.pos = r.pos /\ a.src = r.src
    BY <2>1 DEF AnsweredWith
  <2>. QED
    BY <1>2, <1>3, <2>2 DEF EosInv, Streaming, Deflate
<1>5. CASE ~HwComplete
  <2>1. Live' = Live
    BY <1>5, UntouchedStep DEF DevStep, Still
  <2>. QED
    BY <1>2, <1>3, <2>1 DEF EosInv, Streaming, Deflate
<1>. QED
  BY <1>4, <1>5

LEMMA CallEos ==
    ASSUME Inv, StatInv, EosInv, CallStep PROVE EosInv'
<1>1. Live = {} /\ Live' = {} /\ pcIn = "done" /\ pcOut = "done"
  BY CallRests
<1>2. CASE EnterHW
  <2>1. req' = req /\ ~MustGoSW
    BY <1>2, Zenon DEF EnterHW
  <2>2. sess'.in_len = 0 /\ sess'.inflate = sess.inflate
    BY <1>2, EnterHWFacts DEF Inv, TypeInv
  <2>3. Deflate(req.fmt) => sess'.inflate # "ok"
    BY <2>1, <2>2 DEF MustGoSW
  <2>. QED
    BY <1>1, <2>1, <2>2, <2>3 DEF EosInv, Streaming, Deflate
<1>3. CASE NextBatch
  <2>1. /\ caller = "run" /\ sess.single_thread /\ ~sess.last_submitted
        /\ UNCHANGED <<caller, req, sess>>
    BY <1>3, BatchAfter
  <2>2. Streaming' => Streaming
    BY <1>1, <2>1 DEF Streaming, Deflate
  <2>3. Streaming => sess.inflate # "ok"
    BY <1>1, <2>1 DEF EosInv
  <2>4. Streaming => (sess.in_len > 0 => (sess.eos <=> sess.inflate # "ok"))
    BY DEF EosInv
  <2>. QED
    BY <1>1, <2>1, <2>2, <2>3, <2>4 DEF EosInv
<1>4. CASE ~EnterHW /\ ~NextBatch
  <2>1. caller' # "run"
    <3>1. CASE CallNew \/ CallOn
      BY <3>1 DEF CallNew, CallOn, Call
    <3>2. CASE EnterSW \/ EnterRefused
      BY <3>2, EnterSWFacts, EnterRefusedFacts DEF Inv, TypeInv
    <3>3. CASE FinishMismatch \/ Finish
      BY <3>3 DEF FinishMismatch, Finish, Return
    <3>4. CASE FinishSW
      BY <3>4, FinishSWFacts DEF Inv, TypeInv
    <3>. QED
      BY <1>4, <3>1, <3>2, <3>3, <3>4 DEF CallStep, CallerNext
  <2>. QED
    BY <2>1 DEF EosInv, Streaming
<1>. QED
  BY <1>2, <1>3, <1>4

\* The software that finishes a call after both threads have given up has
\* something to decompress and somewhere to put it.
LEMMA LeftOver ==
    ASSUME Inv, FailInv, FinishSW
    PROVE  /\ req.off + sess.in_len < Total(req.mem)
           /\ sess.out_len < req.dest
<1>. USE DEF Inv, TypeInv, ProtocolInv
<1>1. Joined /\ NeedsSW
  BY FinishSWFacts
<1>2. caller = "run" /\ pcIn = "done" /\ Failed
  BY <1>1 DEF Joined, NeedsSW, Failed
<1>3. pos < Total(req.mem) /\ dptr < req.dest
  BY <1>2 DEF FailInv
<1>4. req.off + sess.in_len <= pos /\ sess.out_len <= dptr
  BY <1>2 DEF SpaceInv, SpaceCall, Settled, NextPos, NextDst
<1>5. /\ sess.in_len \in Nat /\ sess.out_len \in Nat /\ req.off \in Nat
      /\ req.dest \in Nat /\ Total(req.mem) \in Nat
  BY <1>2, Counters
<1>6. pos \in Nat /\ dptr \in Nat
  BY DEF TypeIn
<1>. QED
  BY <1>3, <1>4, <1>5, <1>6

LEMMA CallEnd ==
    ASSUME Inv, FailInv, EosInv, CallStep PROVE EndInv'
<1>. USE DEF Inv, TypeInv, ProtocolInv
<1>1. CASE CallNew \/ CallOn \/ EnterHW \/ NextBatch
  <2>1. caller' # "idle"
    <3>1. CASE EnterHW
      BY <3>1, Zenon DEF EnterHW
    <3>2. CASE NextBatch
      BY <3>2 DEF NextBatch, callVars
    <3>3. CASE CallNew \/ CallOn
      BY <3>3 DEF CallNew, CallOn, Call
    <3>. QED
      BY <1>1, <3>1, <3>2, <3>3
  <2>. QED
    BY <2>1 DEF EndInv, EndOfStreamTrue
<1>2. CASE EnterRefused
  <2>1. ret'.rc # "OK"
    BY <1>2 DEF EnterRefused
  <2>. QED
    BY <2>1 DEF EndInv, EndOfStreamTrue
<1>3. CASE EnterSW
  <2>1. PICK r \in SwResults(SwMulti(req.off, req.dest)) :
          /\ SwAnswer(r, req.off, req.dest)
          /\ SwEffect(sess', sess, req.off, r)
          /\ ret' = [rc |-> r.rc, src_len |-> r.n, dest_len |-> r.n]
          /\ caller = "enter" /\ req' = req
    BY <1>3, EnterSWFacts
  <2>2. /\ req.mem \in Sources /\ req.off \in Nat /\ req.off < Total(req.mem)
        /\ req.dest \in Nat /\ sess.inflate \in InflateStates
    BY <2>1, SessTyped DEF TypeCall, TypeSess
  <2>3. ret'.rc = r.rc /\ ret'.src_len = r.n
    BY <2>1
  <2>4. r.n \in Nat /\ r.n <= req.dest
    BY <2>1 DEF SwAnswer
  <2>5. r.rc = "OK" /\ r.n > 0 => r.inflate \in {"null", "ok"}
    <3>1. r.n > 0 => req.dest > 0
      BY <2>2, <2>4
    <3>2. r.rc = "OK" /\ req.dest > 0 => r.inflate \in {"null", "ok"}
      BY <2>2, SwMultiFact
    <3>. QED
      BY <3>1, <3>2
  <2>6. /\ sess'.inflate = r.inflate
        /\ sess'.eos <=> Deflate(req.fmt) /\ r.rc = "OK" /\ r.inflate = "null"
    BY <2>1 DEF SwEffect
  <2>. QED
    BY <2>1, <2>3, <2>5, <2>6 DEF EndInv, EndOfStreamTrue, Deflate
<1>4. CASE Finish
  <2>1. /\ caller = "run" /\ pcOut = "done" /\ UNCHANGED <<req, sess>>
        /\ ret'.rc = sess.stat /\ ret'.src_len = sess.in_len
    BY <1>4 DEF Finish, Joined, Return
  <2>. QED
    BY <2>1 DEF EndInv, EndOfStreamTrue, EosInv, Streaming, Deflate
<1>5. CASE FinishMismatch
  BY <1>5, CallRests DEF FinishMismatch
<1>6. CASE FinishSW
  <2>1. PICK p, room : /\ p = req.off + sess.in_len
                       /\ room = req.dest - sess.out_len
    OBVIOUS
  <2>2. Joined /\ NeedsSW /\ req' = req /\ ret'.rc = sess'.stat
    BY <1>6, FinishSWFacts
  <2>3. caller = "run" /\ sess.stat # "OK"
    BY <2>2 DEF Joined, NeedsSW
  <2>4. \/ p = Total(req.mem) /\ SessStep({"stat"})
        \/ /\ p < Total(req.mem) /\ room \in Nat
           /\ \E r \in SwResults(SwMulti(p, room)) :
                /\ SwAnswer(r, p, room)
                /\ \/ SwEffect(sess', sess, p, r)
                   \/ /\ r.rc = "OK"
                      /\ \E s : /\ SwEffect(s, sess, p, r)
                                /\ CountEffect(sess', s, r.n,
                                     {"in_len", "out_len", "stat"})
    BY <1>6, <2>1, FinishSWFacts, ZenonT(60)
  <2>5. /\ req.mem \in Sources /\ sess.inflate \in InflateStates
        /\ sess.in_len \in Nat /\ sess.out_len \in Nat /\ req.off \in Nat
        /\ req.dest \in Nat
    BY <2>3, Counters, SessTyped DEF TypeSess
  <2>6. p # Total(req.mem) /\ room > 0 /\ p \in Nat
    <3>1. /\ req.off + sess.in_len < Total(req.mem)
          /\ sess.out_len < req.dest /\ Total(req.mem) \in Nat
      BY <1>6, <2>3, LeftOver, Counters
    <3>. QED
      BY <2>1, <2>5, <3>1
  <2>7. ASSUME NEW r, SwEffect(sess', sess, p, r) PROVE EndInv'
    <3>1. sess'.stat = sess.stat
      BY <2>7 DEF SwEffect, Alike
    <3>. QED
      BY <2>2, <2>3, <3>1 DEF EndInv, EndOfStreamTrue
  <2>8. ASSUME p < Total(req.mem), room \in Nat,
               NEW r \in SwResults(SwMulti(p, room)), SwAnswer(r, p, room),
               r.rc = "OK", NEW s, SwEffect(s, sess, p, r),
               CountEffect(sess', s, r.n, {"in_len", "out_len", "stat"})
        PROVE  EndInv'
    <3>1. r.inflate \in {"null", "ok"}
      BY <2>5, <2>6, <2>8, SwMultiFact
    <3>2. /\ sess'.inflate = r.inflate
          /\ sess'.eos <=> Deflate(req.fmt) /\ r.inflate = "null"
      BY <2>8 DEF SwEffect, CountEffect, Alike
    <3>. QED
      BY <2>2, <3>1, <3>2 DEF EndInv, EndOfStreamTrue, Deflate
  <2>. QED
    BY <2>4, <2>6, <2>7, <2>8
<1>. QED
  BY <1>1, <1>2, <1>3, <1>4, <1>5, <1>6 DEF CallStep, CallerNext

LEMMA EndKept ==
    ASSUME Inv, EndInv, InNext \/ OutStep \/ DevStep PROVE EndInv'
<1>1. CASE InNext \/ OutStep
  BY <1>1, StillRunning DEF EndInv, EndOfStreamTrue
<1>2. CASE DevStep
  <2>1. UNCHANGED <<caller, calls, req, ret, sess>>
    BY <1>2, HwCompleteFacts
       DEF DevStep, FatalError, Restarted, vars, callVars, Inv, TypeInv
  <2>. QED
    BY <2>1 DEF EndInv, EndOfStreamTrue, Deflate
<1>. QED
  BY <1>1, <1>2

-----------------------------------------------------------------------------
(* All of it together.                                                     *)

LEMMA ExactStep ==
    ASSUME ~erred => Inv /\ ExactInv, [Next]_vars
    PROVE  ~erred' => Inv' /\ ExactInv'
<1>1. SUFFICES ASSUME ~erred' PROVE Inv' /\ ExactInv'
  OBVIOUS
<1>2. erred' = erred \/ OutErrExit \/ UNCHANGED vars
  BY ErredKept
<1>3. ~erred
  BY <1>1, <1>2, Zenon DEF OutErrExit, vars
<1>4. Inv /\ ExactInv
  BY <1>3
<1>5. \/ CallStep \/ InNext \/ OutStep \/ DevStep
  <2>1. CASE UNCHANGED vars
    BY <2>1 DEF DevStep
  <2>2. CASE Next
    <3>1. TypeOut
      BY <1>4 DEF Inv, TypeInv
    <3>2. Idle => UNCHANGED vars
      BY DEF Idle
    <3>. QED
      BY <1>1, <2>2, <3>1, <3>2, NextCases DEF CallStep, OutStep, DevStep
  <2>. QED
    BY <2>1, <2>2
<1>6. Inv'
  BY <1>1, <1>4, InvStep
<1>7. /\ StatInv /\ ChainInv /\ LentInv /\ PrefixInv /\ TruthInv
      /\ DoneInv /\ CompleteInv /\ FailInv /\ EosInv /\ EndInv
  BY <1>4 DEF ExactInv
<1>8. CallStep => ExactInv'
  BY <1>4, <1>7, CallStat, CallChain, CallLent, CallPrefix, CallTruth,
     CallDone, CallComplete, CallFail, CallEos, CallEnd DEF ExactInv
<1>9. InNext => ExactInv'
  BY <1>4, <1>7, InStat, InChain, InLent, InPrefix, InDone, ReturnedKept,
     InFail, InEos, EndKept DEF ExactInv
<1>10. OutStep => ExactInv'
  BY <1>4, <1>6, <1>7, OutStat, OutChain, OutLent, OutPrefix, OutDone,
     ReturnedKept, OutFail, OutEos, EndKept DEF ExactInv
<1>11. DevStep => ExactInv'
  BY <1>4, <1>7, DevStat, DevChain, DevLent, DevPrefix, DevDone, ReturnedKept,
     DevFail, DevEos, EndKept DEF ExactInv
<1>. QED
  BY <1>5, <1>6, <1>8, <1>9, <1>10, <1>11

LEMMA InitExact == Init => ExactInv
<1>. SUFFICES ASSUME Init PROVE ExactInv
  OBVIOUS
<1>1. caller = "idle" /\ calls = 0 /\ hw = {}
  BY DEF Init
<1>2. \A k \in Slots : ~Answered(cur[k])
  BY DEF Init, Answered
<1>3. Live = {}
  BY <1>1, <1>2 DEF Live
<1>. QED
  BY <1>1, <1>3 DEF ExactInv, StatInv, ChainInv, Settled, LentInv, PrefixInv,
     TruthInv, ReportsTruth, DoneInv, CompleteInv, OkIsComplete,
     FailInv, EosInv, Streaming, EndInv, EndOfStreamTrue

-----------------------------------------------------------------------------
(* The theorems.                                                           *)

\* As long as doDecompressOut does not take its error exit, the cursors of
\* the stream buffers, the sequence numbers of the session and the places of
\* the submitted members agree, in every interleaving of the two threads and
\* the device.
THEOREM PipelineInvariant == Spec => [](~erred => Inv)
<1>1. Init => (~erred => Inv)
  BY InitInv
<1>2. (~erred => Inv) /\ [Next]_vars => (~erred => Inv)'
  BY InvStep
<1>. QED
  BY <1>1, <1>2, PTL DEF Spec

\* Every path of qzDecompressCrcExt but that error exit gives the instance
\* back with all stream buffers free, their own pointers the right way round.
THEOREM BuffersComeBack == Spec => []BuffersRestored
<1>1. (~erred => Inv) => BuffersRestored
  <2>1. SUFFICES ASSUME Inv, caller # "run" PROVE
                 \A k \in Slots : Unused(cur[k]) /\ ptr[k] = AtRest
    BY DEF BuffersRestored
  <2>2. pcOut = "done"
    BY <2>1 DEF Inv, ProtocolInv, StageInv
  <2>. QED
    BY <2>1, <2>2, Resting DEF Inv, ProtocolInv, SeqInv
<1>. QED
  BY <1>1, PipelineInvariant, PTL

\* Neither the copies of doDecompressOut, nor the device writing lent memory,
\* nor a software decoder of either thread or of the caller goes beyond the
\* destination of the application.
THEOREM DestinationRespected == Spec => [](~erred => FitsDestination)
<1>1. (~erred => Inv) => (~erred => FitsDestination)
  BY DEF Inv, FitInv
<1>. QED
  BY <1>1, PipelineInvariant, PTL

\* Both invariants together.
LEMMA Exact == Spec => [](~erred => Inv /\ ExactInv)
<1>1. Init => (~erred => Inv /\ ExactInv)
  BY InitInv, InitExact
<1>2. (~erred => Inv /\ ExactInv) /\ [Next]_vars =>
      (~erred => Inv /\ ExactInv)'
  BY ExactStep
<1>. QED
  BY <1>1, <1>2, PTL DEF Spec

\* As long as doDecompressOut does not take its error exit, what a call of any
\* format but the 4-byte one reports as decompressed is in the destination,
\* in order, whether the device, doDecompressIn's software fallback or the
\* one after the two threads have joined wrote it.
THEOREM ReportsAreTrue == Spec => [](~erred /\ req.fmt # "4b" => ReportsTruth)
<1>1. (~erred => Inv /\ ExactInv) => (~erred /\ req.fmt # "4b" => ReportsTruth)
  BY DEF ExactInv, TruthInv
<1>. QED
  BY <1>1, Exact, PTL

\* As long as doDecompressOut does not take its error exit, a call that
\* returns QZ_OK never stopped between two members for no reason the
\* application can see.
THEOREM OkIsHonest == Spec => [](~erred /\ req.fmt # "4b" => OkIsComplete)
<1>1. (~erred => Inv /\ ExactInv) => (~erred /\ req.fmt # "4b" => OkIsComplete)
  BY DEF ExactInv, CompleteInv
<1>. QED
  BY <1>1, Exact, PTL

\* As long as doDecompressOut does not take its error exit, a deflate call of
\* any format but the 4-byte one that has decompressed something leaves
\* end_of_stream set if and only if the last thing it decompressed was the end
\* of a stream, whoever decompressed it.
THEOREM EndOfStreamIsTrue ==
    Spec => [](~erred /\ req.fmt # "4b" => EndOfStreamTrue)
<1>1. (~erred => Inv /\ ExactInv) =>
      (~erred /\ req.fmt # "4b" => EndOfStreamTrue)
  BY DEF ExactInv, EndInv
<1>. QED
  BY <1>1, Exact, PTL

==============================================================================
