--------------------------- MODULE QzData_proofs ---------------------------
(***************************************************************************)
(* Memory and the data formats.                                            *)
(*                                                                         *)
(* Memory of any number of threads: a buffer has one owner, memory goes    *)
(* back exactly once and to the allocator it came from, and a block of the *)
(* driver that covers at most two pages is pinned on all of them.  The     *)
(* argument follows the addresses: each thread holds some for itself       *)
(* (Priv) and some as buffers of its stream (Strm).  Those of different    *)
(* threads differ, the first are live and in no list, the second are in    *)
(* the used list, and every live block is held or in a list.               *)
(*                                                                         *)
(* Streams of any number of frames, in every data format: decompression    *)
(* finds the frames that were written, reads the stream to its end, and    *)
(* the output keeps to qzMaxCompressedLength.  The argument follows the    *)
(* layout of the stream: every frame lies between its neighbours, holds    *)
(* the header and the footer of its format, and nothing else of it is a    *)
(* structure (Layout, Writers); reading stands on the boundary of a frame, *)
(* with the frames before it delivered (Reading).                          *)
(***************************************************************************)
EXTENDS QzMem, QzFormat, SequenceTheorems, FiniteSetTheorems, WellFoundedInduction, TLAPS

Addr == Nat \cup {NULL}

Block == [at : Nat, sz : Nat \ {0}, from : {"driver", "heap"}]
Node  == [at : Nat, sz : Nat \ {0}, pinned : BOOLEAN]

Busy == {"malloc", "init", "device", "alloc", "register", "store", "got"}

ThRec == [pc : Busy \cup {"idle", "get", "get again", "slot"},
          job : {"none", "stream", "own"}, sz : Nat, pinned : BOOLEAN, a : Addr,
          todo : SUBSET Nat, nodes : Nat, slot : Nat, in : Addr, out : Addr,
          open : BOOLEAN, buf_len : Nat, own : Addr]

RunRec == [calls : Nat, faults : Nat, undone : BOOLEAN, exited : BOOLEAN]
TabRec == [init : BOOLEAN, lock : {None} \cup Threads, ready : BOOLEAN]

\* The driver's pages.
DriverPages == {p \in Nat : p < DriverMem \div PageSz}

\* The addresses of the nodes of a list.
Ats(s) == {s[k].at : k \in DOMAIN s}

Distinct(s) == \A j, k \in DOMAIN s : j # k => s[j].at # s[k].at

LiveAt(h) == {b.at : b \in h.live}

\* What a thread holds for itself: the application's block, and a block that
\* qzMalloc has just obtained.
InFlight(r) == IF r.pc \in {"register", "store"} THEN {r.a} \ {NULL} ELSE {}

Priv(r) == ({r.own} \cup (IF r.pc \in {"register", "store", "got"} THEN {r.a} ELSE {}))
             \ {NULL}

\* What it holds of the pool: the buffers of its stream, and the one it has
\* just taken.
Strm(r) == ({r.in, r.out} \cup (IF r.pc = "slot" THEN {r.a} ELSE {})) \ {NULL}

Refs(r) == Priv(r) \cup Strm(r)

(***************************************************************************)
(* The inductive invariant.                                                *)
(***************************************************************************)

HeapOK(h) ==
  /\ h = [live |-> h.live, wrong |-> {}] /\ h.live \subseteq Block
  /\ \A b, c \in h.live : b # c => b.at + b.sz <= c.at \/ c.at + c.sz <= b.at
  /\ \A b \in h.live : IF b.from = "driver" THEN b.at + b.sz <= DriverMem
                                            ELSE b.at >= DriverMem

PoolOK(h, p) ==
  /\ p = [free |-> p.free, used |-> p.used]
  /\ p.free \in Seq(Node) /\ p.used \in Seq(Node)
  /\ Distinct(p.free) /\ Distinct(p.used) /\ Ats(p.free) \cap Ats(p.used) = {}
  /\ \A l \in {"free", "used"} : \A k \in DOMAIN p[l] :
       \E b \in h.live : b.at = p[l][k].at /\ b.sz = p[l][k].sz

\* The node of a stream's buffer is in the used list and large enough.
InUse(p, a, n) == \E k \in DOMAIN p.used : p.used[k].at = a /\ p.used[k].sz >= n

\* What the record of a thread says of itself.
Control(r) ==
  /\ r \in ThRec
  /\ r.pc = "idle" => r.job = "none"
  /\ r.pc \in Busy => r.job \in {"stream", "own"} /\ r.sz > 0
  /\ r.pc \in {"get", "get again", "slot"} => r.job = "stream" /\ r.sz > 0
  /\ r.job = "stream" => ~r.open /\ r.sz = r.buf_len
  /\ r.job = "own" => r.own = NULL
  /\ r.open => r.in # NULL /\ r.out # NULL
  /\ (~r.open /\ r.job # "stream") => r.in = NULL /\ r.out = NULL

Local(r, h, p) ==
  /\ Priv(r) \subseteq LiveAt(h)
  /\ Priv(r) \cap (Ats(p.free) \cup Ats(p.used)) = {}
  /\ \A a \in Strm(r) : InUse(p, a, r.buf_len)
  /\ r.in # NULL => r.in # r.out
  /\ (r.pc = "slot" /\ r.a # NULL) => r.a \notin {r.in, r.out}
  /\ (r.pc \in {"register", "store", "got"} /\ r.a # NULL) =>
       /\ r.a # r.own
       /\ \E b \in h.live : /\ b.at = r.a /\ b.sz = r.sz
                            /\ r.pc # "got" => b.from = "driver"
  /\ r.pc \in {"register", "store"} => r.a # NULL

Apart(r, q) == Refs(r) \cap Refs(q) = {}

\* Every live block is held, or in a list.
Covered(h, p, T) ==
  LiveAt(h) \subseteq Ats(p.free) \cup Ats(p.used) \cup UNION {Priv(T[t]) : t \in Threads}

TableOK ==
  /\ tab \in TabRec
  /\ table \subseteq DriverPages
  /\ ~tab.init => table = {}
  /\ \A t \in Threads :
       /\ th[t].pc \in {"device", "alloc", "register", "store"} => tab.init
       /\ th[t].pc = "store" => /\ th[t].todo \subseteq Range2Store(th[t].a, th[t].sz)
                                /\ Range2Store(th[t].a, th[t].sz) \ th[t].todo
                                     \subseteq table

\* A block of the driver that has been registered is found.
Registered ==
  \A b \in heap.live :
    (b.from = "driver" /\ \A t \in Threads : b.at \notin InFlight(th[t]))
       => Page(b.at) \in table

Owned ==
  /\ HeapOK(heap) /\ PoolOK(heap, pool)
  /\ th = [t \in Threads |-> th[t]]
  /\ \A t \in Threads : Control(th[t]) /\ Local(th[t], heap, pool)
  /\ \A t, u \in Threads : t # u => Apart(th[t], th[u])
  /\ Covered(heap, pool, th)
  /\ TableOK /\ Registered

\* After the destructor: what the application did not free.
Ended ==
  /\ heap.wrong = {}
  /\ \A b \in heap.live : \E t \in Threads : th[t].own = b.at

MInv ==
  /\ run \in RunRec
  /\ ~run.undone => IF run.exited THEN Ended ELSE Owned

-----------------------------------------------------------------------------
(* Pages.                                                                  *)

LEMMA Constants == /\ PageSz \in Nat \ {0} /\ ListSz \in Nat \ {0}
                   /\ DriverMem \in Nat /\ HeapMem \in Nat
                   /\ Sizes \subseteq Nat \ {0} /\ Threads # {}
                   /\ DriverMem % PageSz = 0
  BY MemConstants

LEMMA NotNull == \A a \in Nat : a # NULL /\ a \in Addr
  BY DEF NULL, Addr

LEMMA DivMod ==
    ASSUME NEW m \in Nat \ {0}, NEW a \in Nat
    PROVE  /\ a % m \in 0 .. (m - 1) /\ a \div m \in Nat
           /\ a = (a \div m) * m + (a % m)
  OBVIOUS

LEMMA DivModUnique ==
    ASSUME NEW m \in Nat \ {0}, NEW q \in Nat, NEW r \in 0 .. (m - 1)
    PROVE  (q * m + r) \div m = q
  OBVIOUS

LEMMA ProductOrder ==
    ASSUME NEW m \in Nat \ {0}, NEW q \in Nat, NEW d \in Nat
    PROVE  /\ q < d => q * m + m <= d * m
           /\ d <= q => d * m <= q * m
<1>1. ASSUME q < d PROVE q * m + m <= d * m
  <2>1. PICK e \in Nat : d = q + 1 + e
    <3>1. d - q - 1 \in Nat /\ d = q + 1 + (d - q - 1)
      BY <1>1
    <3>2. QED  BY <3>1
  <2>2. d * m = q * m + m + e * m /\ e * m \in Nat /\ q * m \in Nat
    BY <2>1
  <2>3. QED  BY <2>2
<1>2. ASSUME d <= q PROVE d * m <= q * m
  <2>1. PICK e \in Nat : q = d + e
    <3>1. q - d \in Nat /\ q = d + (q - d)
      BY <1>2
    <3>2. QED  BY <3>1
  <2>2. q * m = d * m + e * m /\ e * m \in Nat /\ d * m \in Nat
    BY <2>1
  <2>3. QED  BY <2>2
<1>3. QED  BY <1>1, <1>2

LEMMA PageParts ==
    ASSUME NEW a \in Nat
    PROVE  \E q \in Nat, r \in 0 .. (PageSz - 1), x \in Nat :
             /\ q = a \div PageSz /\ r = a % PageSz
             /\ x = q * PageSz /\ a = x + r
<1>1. PICK q \in Nat, r \in 0 .. (PageSz - 1) :
        q = a \div PageSz /\ r = a % PageSz /\ a = q * PageSz + r
  BY Constants, DivMod
<1>2. PICK x \in Nat : x = q * PageSz
  BY Constants
<1>3. QED  BY <1>1, <1>2

\* The pages below DriverMem are those of the addresses below it.
LEMMA PageFact ==
    ASSUME NEW a \in Nat
    PROVE  /\ Page(a) \in Nat
           /\ a < DriverMem <=> Page(a) \in DriverPages
<1>1. PICK q \in Nat, r \in 0 .. (PageSz - 1), x \in Nat :
        /\ q = a \div PageSz /\ r = a % PageSz /\ x = q * PageSz /\ a = x + r
  BY PageParts
<1>2. PICK d \in Nat, y \in Nat : d = DriverMem \div PageSz /\ y = d * PageSz
                                  /\ DriverMem = y
  <2>1. DriverMem = (DriverMem \div PageSz) * PageSz + (DriverMem % PageSz)
    BY Constants, DivMod
  <2>2. DriverMem \div PageSz \in Nat
    BY Constants, DivMod
  <2>3. (DriverMem \div PageSz) * PageSz \in Nat
    BY Constants, <2>2
  <2>4. QED  BY Constants, <2>1, <2>2, <2>3
<1>3. (q < d => x + PageSz <= y) /\ (d <= q => y <= x)
  BY <1>1, <1>2, Constants, ProductOrder
<1>4. a < DriverMem <=> q < d
  BY <1>1, <1>2, <1>3, Constants
<1>5. QED  BY <1>1, <1>2, <1>4 DEF DriverPages, Page

\* storeMmapRange stores the pages of the block.
LEMMA RangeFact ==
    ASSUME NEW a \in Nat, NEW sz \in Nat \ {0}
    PROVE  /\ Range2Store(a, sz) = PagesOf(a, sz)
           /\ Page(a) \in PagesOf(a, sz) /\ Page(a + sz - 1) \in PagesOf(a, sz)
           /\ PagesOf(a, sz) \subseteq Nat
           /\ a + sz <= DriverMem => PagesOf(a, sz) \subseteq DriverPages
<1>1. PICK q \in Nat, r \in 0 .. (PageSz - 1), x \in Nat :
        /\ q = a \div PageSz /\ r = a % PageSz /\ x = q * PageSz /\ a = x + r
  BY PageParts
<1>2. PICK c \in Nat : c = sz + r - 1
  BY <1>1
<1>3. PICK m \in Nat, s \in 0 .. (PageSz - 1), y \in Nat :
        m = c \div PageSz /\ y = m * PageSz /\ c = y + s
  BY Constants, DivMod
<1>4. (a + sz - 1) \div PageSz = q + m
  <2>1. a + sz - 1 = x + y + s
    BY <1>1, <1>2, <1>3
  <2>2. (q + m) * PageSz = q * PageSz + m * PageSz
    BY Constants
  <2>3. ((q + m) * PageSz + s) \div PageSz = q + m
    BY Constants, DivModUnique
  <2>4. QED  BY <1>1, <1>3, <2>1, <2>2, <2>3
<1>5. PagesOf(a, sz) = q .. q + m /\ Page(a) = q /\ Page(a + sz - 1) = q + m
  BY <1>1, <1>4 DEF PagesOf, Page
<1>6. Range2Store(a, sz) = {q + k : k \in 0 .. m}
  BY <1>1, <1>2, <1>3 DEF Range2Store, Page
<1>7. {q + k : k \in 0 .. m} = q .. q + m
  <2>1. ASSUME NEW p \in q .. q + m PROVE p \in {q + k : k \in 0 .. m}
    <3>1. p - q \in 0 .. m /\ p = q + (p - q)
      OBVIOUS
    <3>2. QED  BY <3>1
  <2>2. QED  BY <2>1
<1>8. ASSUME a + sz <= DriverMem PROVE PagesOf(a, sz) \subseteq DriverPages
  <2>1. a + sz - 1 \in Nat /\ a + sz - 1 < DriverMem
    BY <1>8, Constants
  <2>2. q + m \in DriverPages
    BY <1>5, <2>1, PageFact
  <2>3. DriverMem \div PageSz \in Nat
    BY Constants, DivMod
  <2>4. QED  BY <1>5, <2>2, <2>3 DEF DriverPages
<1>9. QED  BY SMTT(30), <1>5, <1>6, <1>7, <1>8

-----------------------------------------------------------------------------
(* Lists.                                                                  *)

\* r is s with n at its end.
Appended(s, n, r) ==
  /\ r \in Seq(Node) /\ Ats(r) = Ats(s) \cup {n.at}
  /\ (Distinct(s) /\ n.at \notin Ats(s)) => Distinct(r)
  /\ \A k \in DOMAIN r : r[k] = n \/ \E j \in DOMAIN s : r[k] = s[j]
  /\ \A j \in DOMAIN s : \E k \in DOMAIN r : r[k] = s[j]
  /\ \E k \in DOMAIN r : r[k] = n

LEMMA AppendFact ==
    ASSUME NEW s \in Seq(Node), NEW n \in Node
    PROVE  Appended(s, n, Append(s, n))
<1>1. PICK L \in Nat : L = Len(s) /\ DOMAIN s = 1 .. L
  OBVIOUS
<1>2. PICK r : r = Append(s, n)
  OBVIOUS
<1>3. /\ r \in Seq(Node) /\ DOMAIN r = 1 .. L + 1 /\ r[L + 1] = n
      /\ \A k \in 1 .. L : r[k] = s[k]
  BY <1>1, <1>2
<1>4. \A k \in 1 .. L + 1 : k = L + 1 \/ k \in 1 .. L
  OBVIOUS
<1>5. Ats(r) = Ats(s) \cup {n.at}
  BY <1>1, <1>3, <1>4 DEF Ats
<1>6. (Distinct(s) /\ n.at \notin Ats(s)) => Distinct(r)
  BY <1>1, <1>3, <1>4 DEF Ats, Distinct
<1>7. /\ \A k \in DOMAIN r : r[k] = n \/ \E j \in DOMAIN s : r[k] = s[j]
      /\ \A j \in DOMAIN s : \E k \in DOMAIN r : r[k] = s[j]
      /\ \E k \in DOMAIN r : r[k] = n
  BY <1>1, <1>3, <1>4
<1>8. Appended(s, n, r)
  BY <1>3, <1>5, <1>6, <1>7 DEF Appended
<1>9. QED  BY <1>2, <1>8

LEMMA RemoveFact ==
    ASSUME NEW s \in Seq(Node), NEW i \in DOMAIN s
    PROVE  /\ RemoveAt(s, i) \in Seq(Node)
           /\ Distinct(s) => /\ Distinct(RemoveAt(s, i))
                             /\ Ats(RemoveAt(s, i)) = Ats(s) \ {s[i].at}
           /\ \A k \in DOMAIN RemoveAt(s, i) :
                \E j \in DOMAIN s : RemoveAt(s, i)[k] = s[j]
           /\ \A j \in DOMAIN s \ {i} :
                \E k \in DOMAIN RemoveAt(s, i) : RemoveAt(s, i)[k] = s[j]
<1>1. PICK L \in Nat : L = Len(s) /\ DOMAIN s = 1 .. L /\ i \in 1 .. L
  OBVIOUS
<1>2. PICK r : r = RemoveAt(s, i)
  OBVIOUS
<1>3. /\ r \in Seq(Node) /\ DOMAIN r = 1 .. L - 1
      /\ \A k \in 1 .. L - 1 : r[k] = IF k < i THEN s[k] ELSE s[k + 1]
  <2>1. PICK u, v : /\ u = SubSeq(s, 1, i - 1) /\ v = SubSeq(s, i + 1, L)
                    /\ r = u \o v
    BY <1>1, <1>2 DEF RemoveAt
  <2>2. /\ u \in Seq(Node) /\ Len(u) = i - 1 /\ \A k \in 1 .. i - 1 : u[k] = s[k]
    <3>1. \A k \in 1 .. i - 1 : s[k] \in Node
      BY <1>1
    <3>2. /\ SubSeq(s, 1, i - 1) \in Seq(Node)
          /\ Len(SubSeq(s, 1, i - 1)) = IF 1 <= i - 1 THEN (i - 1) - 1 + 1 ELSE 0
          /\ \A k \in 1 .. (i - 1) - 1 + 1 : SubSeq(s, 1, i - 1)[k] = s[1 + k - 1]
      BY <1>1, <3>1, SubSeqProperties
    <3>3. \A k \in 1 .. i - 1 : k \in 1 .. (i - 1) - 1 + 1 /\ 1 + k - 1 = k
      BY <1>1
    <3>4. QED  BY <1>1, <2>1, <3>2, <3>3
  <2>3. /\ v \in Seq(Node) /\ Len(v) = L - i
        /\ \A k \in 1 .. L - i : v[k] = s[i + k]
    <3>1. \A k \in i + 1 .. L : s[k] \in Node
      BY <1>1
    <3>2. /\ SubSeq(s, i + 1, L) \in Seq(Node)
          /\ Len(SubSeq(s, i + 1, L)) = IF i + 1 <= L THEN L - (i + 1) + 1 ELSE 0
          /\ \A k \in 1 .. L - (i + 1) + 1 :
               SubSeq(s, i + 1, L)[k] = s[(i + 1) + k - 1]
      BY <1>1, <3>1, SubSeqProperties
    <3>3. \A k \in 1 .. L - i : k \in 1 .. L - (i + 1) + 1 /\ (i + 1) + k - 1 = i + k
      BY <1>1
    <3>4. Len(v) = L - i
      <4>1. CASE i + 1 <= L
        BY <1>1, <2>1, <3>2, <4>1
      <4>2. CASE ~(i + 1 <= L)
        BY <1>1, <2>1, <3>2, <4>2
      <4>3. QED  BY <4>1, <4>2
    <3>5. \A k \in 1 .. L - i : v[k] = s[i + k]
      BY <2>1, <3>2, <3>3
    <3>6. QED  BY <2>1, <3>2, <3>4, <3>5
  <2>4. /\ r \in Seq(Node) /\ Len(r) = Len(u) + Len(v)
        /\ \A k \in 1 .. Len(u) + Len(v) :
             r[k] = IF k <= Len(u) THEN u[k] ELSE v[k - Len(u)]
    <3>1. u \in Seq(Node) /\ v \in Seq(Node) /\ r = u \o v
      BY <2>1, <2>2, <2>3
    <3>2. /\ u \o v \in Seq(Node) /\ Len(u \o v) = Len(u) + Len(v)
          /\ \A k \in 1 .. Len(u) + Len(v) :
               (u \o v)[k] = IF k <= Len(u) THEN u[k] ELSE v[k - Len(u)]
      BY <3>1, ConcatProperties
    <3>3. QED  BY <3>1, <3>2
  <2>5. Len(r) = L - 1
    <3>1. Len(r) = Len(u) + Len(v)
      BY Zenon, <2>4
    <3>2. Len(u) = i - 1 /\ Len(v) = L - i
      BY Zenon, <2>2, <2>3
    <3>3. i \in Int /\ L \in Int
      BY <1>1
    <3>4. QED  BY <3>1, <3>2, <3>3
  <2>6. ASSUME NEW k \in 1 .. L - 1
        PROVE  r[k] = IF k < i THEN s[k] ELSE s[k + 1]
    <3>1. Len(u) = i - 1 /\ Len(v) = L - i
      BY Zenon, <2>2, <2>3
    <3>2. k \in 1 .. Len(u) + Len(v)
      BY <1>1, <3>1
    <3>3. r[k] = IF k <= Len(u) THEN u[k] ELSE v[k - Len(u)]
      BY Zenon, <2>4, <3>2
    <3>4. CASE k < i
      <4>1. k \in 1 .. i - 1 /\ k <= Len(u)
        BY <1>1, <3>1, <3>4
      <4>2. u[k] = s[k]
        BY Zenon, <2>2, <4>1
      <4>3. QED  BY <3>4, <3>3, <4>1, <4>2
    <3>5. CASE ~(k < i)
      <4>1. k - (i - 1) \in 1 .. L - i /\ i + (k - (i - 1)) = k + 1
        BY <1>1, <3>5
      <4>2. ~(k <= Len(u)) /\ k - Len(u) = k - (i - 1)
        BY <1>1, <3>1, <3>5
      <4>3. v[k - (i - 1)] = s[i + (k - (i - 1))]
        BY Zenon, <2>3, <4>1
      <4>4. QED  BY <3>5, <3>3, <4>1, <4>2, <4>3
    <3>6. QED  BY <3>4, <3>5
  <2>7. QED  BY <1>1, <2>4, <2>5, <2>6
<1>4. \A j \in 1 .. L : j # i =>
        IF j < i THEN j \in 1 .. L - 1 /\ r[j] = s[j]
                 ELSE j - 1 \in 1 .. L - 1 /\ r[j - 1] = s[j]
  BY <1>1, <1>3
<1>5. \A k \in 1 .. L - 1 : \E j \in 1 .. L : j # i /\ r[k] = s[j]
                              /\ j = IF k < i THEN k ELSE k + 1
  BY <1>1, <1>3
<1>6. ASSUME Distinct(s) PROVE Distinct(r) /\ Ats(r) = Ats(s) \ {s[i].at}
  <2>1. ASSUME NEW j \in DOMAIN r, NEW k \in DOMAIN r, j # k
        PROVE  r[j].at # r[k].at
    <3>1. PICK x, y \in 1 .. L : /\ r[j] = s[x] /\ x = IF j < i THEN j ELSE j + 1
                                 /\ r[k] = s[y] /\ y = IF k < i THEN k ELSE k + 1
      BY <1>3, <1>5
    <3>2. x # y
      BY <1>1, <1>3, <2>1, <3>1
    <3>3. QED  BY <1>1, <1>6, <3>1, <3>2 DEF Distinct
  <2>2. \A j \in 1 .. L : j # i => s[j].at # s[i].at
    BY <1>1, <1>6 DEF Distinct
  <2>3. Ats(r) \subseteq Ats(s) \ {s[i].at}
    <3>1. SUFFICES ASSUME NEW k \in 1 .. L - 1
                   PROVE  r[k].at \in Ats(s) /\ r[k].at # s[i].at
      BY <1>3 DEF Ats
    <3>2. PICK j \in 1 .. L : j # i /\ r[k] = s[j]
      BY <1>5
    <3>3. QED  BY <1>1, <2>2, <3>2 DEF Ats
  <2>4. Ats(s) \ {s[i].at} \subseteq Ats(r)
    <3>1. SUFFICES ASSUME NEW j \in 1 .. L, s[j].at # s[i].at
                   PROVE  s[j].at \in Ats(r)
      BY <1>1 DEF Ats
    <3>2. j # i
      BY <3>1
    <3>3. PICK k \in 1 .. L - 1 : r[k] = s[j]
      BY <1>4, <3>2
    <3>4. QED  BY <1>3, <3>3 DEF Ats
  <2>5. QED  BY <2>1, <2>3, <2>4 DEF Distinct
<1>7. QED  BY <1>1, <1>2, <1>3, <1>4, <1>5, <1>6

-----------------------------------------------------------------------------
(* What a step has to show when it changes the record of one thread.       *)

LEMMA ThreadStep ==
    ASSUME Owned, NEW t \in Threads, NEW r, th' = [th EXCEPT ![t] = r],
           HeapOK(heap'), PoolOK(heap', pool'), Control(r),
           Local(r, heap', pool'),
           \A u \in Threads \ {t} : Local(th[u], heap', pool') /\ Apart(r, th[u]),
           Covered(heap', pool', th'), TableOK', Registered'
    PROVE  Owned'
<1>1. /\ th' = [u \in Threads |-> th'[u]] /\ th'[t] = r
      /\ \A u \in Threads \ {t} : th'[u] = th[u]
  BY DEF Owned
<1>2. \A u \in Threads : Control(th'[u]) /\ Local(th'[u], heap', pool')
  BY <1>1 DEF Owned
<1>3. \A u, v \in Threads : u # v => Apart(th'[u], th'[v])
  <2>1. ASSUME NEW u \in Threads, NEW v \in Threads, u # v
        PROVE  Apart(th'[u], th'[v])
    <3>1. CASE u = t
      BY <1>1, <2>1, <3>1
    <3>2. CASE v = t
      <4>1. Apart(r, th[u])
        BY <2>1, <3>2
      <4>2. QED  BY <1>1, <2>1, <3>2, <4>1 DEF Apart
    <3>3. CASE u # t /\ v # t
      BY <1>1, <2>1, <3>3 DEF Owned
    <3>4. QED  BY <3>1, <3>2, <3>3
  <2>2. QED  BY <2>1
<1>4. QED  BY <1>1, <1>2, <1>3 DEF Owned

LEMMA TableStep ==
    ASSUME Owned, NEW t \in Threads, NEW r, th' = [th EXCEPT ![t] = r],
           tab' \in TabRec, table \subseteq table', table' \subseteq DriverPages,
           tab.init => tab'.init, ~tab'.init => table' = {},
           r.pc \in {"device", "alloc", "register", "store"} => tab'.init,
           r.pc = "store" => /\ r.todo \subseteq Range2Store(r.a, r.sz)
                             /\ Range2Store(r.a, r.sz) \ r.todo \subseteq table'
    PROVE  TableOK'
<1>1. /\ th'[t] = r /\ \A u \in Threads \ {t} : th'[u] = th[u]
  BY DEF Owned
<1>2. ASSUME NEW u \in Threads
      PROVE  /\ th'[u].pc \in {"device", "alloc", "register", "store"} => tab'.init
             /\ th'[u].pc = "store" =>
                  /\ th'[u].todo \subseteq Range2Store(th'[u].a, th'[u].sz)
                  /\ Range2Store(th'[u].a, th'[u].sz) \ th'[u].todo \subseteq table'
  <2>1. CASE u = t
    BY <1>1, <2>1
  <2>2. CASE u # t
    BY <1>1, <2>2 DEF Owned, TableOK
  <2>3. QED  BY <2>1, <2>2
<1>3. \A x, y : Range2Store(x, y)' = Range2Store(x, y)
  BY DEF Range2Store, Page
<1>4. QED  BY <1>2, <1>3 DEF TableOK

LEMMA RegStep ==
    ASSUME Owned, NEW t \in Threads, NEW r, th' = [th EXCEPT ![t] = r],
           table \subseteq table',
           \A b \in heap'.live : \/ b \in heap.live \/ b.from # "driver"
                                 \/ b.at \in InFlight(r),
           \A x \in InFlight(th[t]) : \/ x \in InFlight(r) \/ Page(x) \in table'
                                      \/ \A b \in heap'.live : b.at # x
    PROVE  Registered'
<1>1. /\ th'[t] = r /\ \A u \in Threads \ {t} : th'[u] = th[u]
  BY DEF Owned
<1>2. ASSUME NEW b \in heap'.live, b.from = "driver",
             \A u \in Threads : b.at \notin InFlight(th'[u])
      PROVE  Page(b.at) \in table'
  <2>1. b.at \notin InFlight(r)
    BY <1>1, <1>2
  <2>2. b \in heap.live
    BY <1>2, <2>1
  <2>3. CASE \A u \in Threads : b.at \notin InFlight(th[u])
    BY <1>2, <2>2, <2>3 DEF Owned, Registered
  <2>4. CASE \E u \in Threads : b.at \in InFlight(th[u])
    <3>1. b.at \in InFlight(th[t])
      BY <1>1, <1>2, <2>4
    <3>2. QED  BY <1>2, <2>1, <3>1
  <2>5. QED  BY <2>3, <2>4
<1>3. QED  BY <1>2 DEF Registered, Page, InFlight

\* The step of a thread that neither obtains nor gives up an address.
LEMMA SameHolding ==
    ASSUME Owned, NEW t \in Threads, NEW r, th' = [th EXCEPT ![t] = r],
           heap' = heap, pool' = pool, Control(r),
           Local(r, heap, pool), Priv(r) = Priv(th[t]), Strm(r) \subseteq Strm(th[t]),
           TableOK', Registered'
    PROVE  Owned'
<1>1. \A u \in Threads \ {t} : Local(th[u], heap', pool') /\ Apart(r, th[u])
  BY DEF Owned, Apart, Refs
<1>2. /\ th'[t] = r /\ \A u \in Threads \ {t} : th'[u] = th[u]
  BY DEF Owned
<1>3. \A u \in Threads : Priv(th'[u]) = Priv(th[u])
  BY <1>2
<1>4. Covered(heap', pool', th')
  BY <1>3 DEF Owned, Covered
<1>5. QED  BY <1>1, <1>4, ThreadStep DEF Owned

LEMMA RunStep ==
    ASSUME run \in RunRec, Next
    PROVE  /\ run' \in RunRec /\ (run.undone => run'.undone)
           /\ (run'.exited = run.exited \/ Exit)
<1> DEFINE Kept == /\ run' \in RunRec /\ (run.undone => run'.undone)
                   /\ run'.exited = run.exited
<1>1. CASE Exit
  BY <1>1 DEF Exit, RunRec
<1>2. run.calls + 1 \in Nat /\ run.faults + 1 \in Nat
  BY DEF RunRec
<1>3. Fault => Kept
  BY <1>2 DEF Fault, RunRec
<1>4. UNCHANGED run => Kept
  OBVIOUS
<1>5. run' = [run EXCEPT !.calls = @ + 1] => Kept
  BY <1>2 DEF RunRec
<1>6. ASSUME NEW t \in Threads, Act(t) PROVE Kept
  <2>1. CASE TestInit(t) \/ InitTable(t) \/ AllocPinned(t) \/ AllocCommon(t)
             \/ Register(t) \/ StorePage(t) \/ GetNode(t) \/ AddNode(t)
             \/ EndStream(t) \/ Got(t) \/ Free(t)
    BY <1>4, <2>1 DEF TestInit, InitTable, AllocPinned, AllocCommon, Register,
         StorePage, GetNode, AddNode, EndStream, Got, Free
  <2>2. CASE Device(t) \/ AllocFails(t) \/ StoreFails(t)
    BY <1>3, <1>4, <2>2 DEF Device, AllocFails, StoreFails
  <2>3. CASE InitStream(t) \/ Malloc(t)
    BY <1>5, <2>3 DEF InitStream, Malloc
  <2>4. CASE Slot(t)
    <3>1. UNCHANGED run \/ \E x : run' = [run EXCEPT !.undone = @ \/ x # {}]
      BY <2>4 DEF Slot
    <3>2. ASSUME NEW x, run' = [run EXCEPT !.undone = @ \/ x # {}]
          PROVE Kept
      <4>1. PICK f \in BOOLEAN : f = (run.undone \/ x # {})
        OBVIOUS
      <4>2. run' = [run EXCEPT !.undone = f] /\ (run.undone => f)
        BY <3>2, <4>1
      <4>3. QED  BY <4>2 DEF RunRec
    <3>3. QED  BY <1>4, <3>1, <3>2
  <2>5. QED  BY <1>6, <2>1, <2>2, <2>3, <2>4 DEF Act
<1>7. QED  BY <1>1, <1>6 DEF Next

-----------------------------------------------------------------------------
(* The steps that only move a thread on.                                   *)

Holding == {"register", "store", "got", "slot"}

LEMMA QuietStep ==
    ASSUME Owned, NEW t \in Threads, NEW r, th' = [th EXCEPT ![t] = r],
           heap' = heap, pool' = pool, Control(r),
           th[t].pc \notin Holding,
           r.pc \in Holding => r.pc \in {"got", "slot"} /\ r.a = NULL,
           r.own = th[t].own, r.in = th[t].in, r.out = th[t].out,
           r.buf_len = th[t].buf_len \/ (r.in = NULL /\ r.out = NULL),
           tab' \in TabRec, table' = table, tab.init => tab'.init,
           r.pc \in {"device", "alloc"} => tab'.init
    PROVE  Owned'
<1>1. PICK q : q = th[t]
  OBVIOUS
<1>2. Control(q) /\ Local(q, heap, pool) /\ TableOK
  BY <1>1 DEF Owned
<1>3. Priv(r) = Priv(q) /\ Strm(r) = Strm(q) /\ InFlight(q) = {}
  BY <1>1 DEF Holding, Priv, Strm, InFlight
<1>4. \A a \in Strm(r) : InUse(pool, a, r.buf_len)
  <2>1. CASE r.buf_len = th[t].buf_len
    BY <1>1, <1>2, <1>3, <2>1 DEF Local
  <2>2. CASE r.in = NULL /\ r.out = NULL
    <3>1. Strm(r) = {}
      BY <2>2 DEF Strm, Holding
    <3>2. QED  BY <3>1
  <2>3. QED  BY <2>1, <2>2
<1>5. Local(r, heap, pool)
  BY <1>1, <1>2, <1>3, <1>4 DEF Local, Holding
<1>6. TableOK'
  <2>1. table \subseteq DriverPages /\ (~tab'.init => table' = {})
    BY <1>2 DEF TableOK
  <2>2. r.pc \in {"device", "alloc", "register", "store"} => tab'.init
    BY DEF Holding
  <2>3. r.pc # "store"
    BY DEF Holding
  <2>4. QED  BY <2>1, <2>2, <2>3, TableStep
<1>7. Registered'
  BY <1>1, <1>3, RegStep
<1>8. QED  BY <1>1, <1>3, <1>5, <1>6, <1>7, SameHolding

LEMMA TestInitStep == ASSUME Owned, NEW t \in Threads, TestInit(t) PROVE Owned'
<1>1. PICK q, r : q = th[t] /\ r = [q EXCEPT !.pc = IF tab.init THEN "device" ELSE "init"]
  OBVIOUS
<1>2. /\ th' = [th EXCEPT ![t] = r] /\ q.pc = "malloc" /\ heap' = heap
      /\ pool' = pool /\ tab' = tab /\ table' = table /\ Control(q)
  BY <1>1 DEF TestInit, Step, At, Owned
<1>3. /\ r \in ThRec /\ r.pc = (IF tab.init THEN "device" ELSE "init")
      /\ r.own = q.own /\ r.in = q.in /\ r.out = q.out /\ r.buf_len = q.buf_len
      /\ r.job = q.job /\ r.sz = q.sz /\ r.open = q.open
  BY <1>1, <1>2 DEF ThRec, Control, Busy
<1>4. Control(r)
  BY <1>2, <1>3 DEF Control, Busy
<1>5. tab' \in TabRec /\ (r.pc \in {"device", "alloc"} => tab'.init)
  BY <1>2, <1>3 DEF Owned, TableOK
<1>6. q.pc \notin Holding /\ r.pc \notin Holding
  BY <1>2, <1>3 DEF Holding
<1>7. QED  BY ZenonT(40), <1>1, <1>2, <1>3, <1>4, <1>5, <1>6, QuietStep

LEMMA InitTableStep == ASSUME Owned, NEW t \in Threads, InitTable(t) PROVE Owned'
<1>1. PICK q, r : q = th[t] /\ r = [q EXCEPT !.pc = "device"]
  OBVIOUS
<1>2. /\ th' = [th EXCEPT ![t] = r] /\ q.pc = "init" /\ heap' = heap
      /\ pool' = pool /\ tab' = [tab EXCEPT !.init = TRUE] /\ Control(q)
      /\ table' = Cleared
  BY <1>1 DEF InitTable, Step, At, Owned
<1>3. /\ r \in ThRec /\ r.pc = "device"
      /\ r.own = q.own /\ r.in = q.in /\ r.out = q.out /\ r.buf_len = q.buf_len
      /\ r.job = q.job /\ r.sz = q.sz /\ r.open = q.open
  BY <1>1, <1>2 DEF ThRec, Control, Busy
<1>4. Control(r)
  BY <1>2, <1>3 DEF Control, Busy
<1>5. tab' \in TabRec /\ tab'.init /\ table' = table
  BY <1>2 DEF Owned, TableOK, TabRec, Cleared
<1>6. QED  BY <1>1, <1>2, <1>3, <1>4, <1>5, QuietStep DEF Holding

LEMMA DeviceStep == ASSUME Owned, NEW t \in Threads, Device(t) PROVE Owned'
<1>1. PICK ok \in BOOLEAN :
        /\ tab' = [tab EXCEPT !.ready = @ \/ (th[t].pinned /\ ok)]
        /\ Step(t, [th[t] EXCEPT !.pc = IF ok THEN "alloc" ELSE "got", !.a = NULL])
  BY DEF Device
<1>2. PICK q, r : /\ q = th[t]
                  /\ r = [q EXCEPT !.pc = IF ok THEN "alloc" ELSE "got", !.a = NULL]
  OBVIOUS
<1>3. /\ th' = [th EXCEPT ![t] = r] /\ q.pc = "device" /\ heap' = heap
      /\ pool' = pool /\ table' = table /\ Control(q) /\ tab \in TabRec /\ tab.init
  BY <1>1, <1>2 DEF Device, Step, At, Owned, TableOK
<1>4. PICK d \in BOOLEAN : d = (tab.ready \/ (th[t].pinned /\ ok))
  OBVIOUS
<1>5. tab' = [tab EXCEPT !.ready = d]
  BY <1>1, <1>4
<1>6. tab' \in TabRec /\ tab'.init
  BY <1>3, <1>5 DEF TabRec
<1>7. /\ r \in ThRec /\ r.pc = (IF ok THEN "alloc" ELSE "got") /\ r.a = NULL
      /\ r.own = q.own /\ r.in = q.in /\ r.out = q.out /\ r.buf_len = q.buf_len
      /\ r.job = q.job /\ r.sz = q.sz /\ r.open = q.open
  BY ZenonT(40), <1>2, <1>3 DEF ThRec, Control, Busy, Addr
<1>8. Control(r)
  BY <1>3, <1>7 DEF Control, Busy
<1>9. /\ q.pc \notin Holding
      /\ r.pc \in Holding => r.pc \in {"got", "slot"} /\ r.a = NULL
  BY <1>3, <1>7 DEF Holding
<1>10. QED  BY ZenonT(60), <1>2, <1>3, <1>6, <1>7, <1>8, <1>9, QuietStep

LEMMA AllocFailsStep == ASSUME Owned, NEW t \in Threads, AllocFails(t) PROVE Owned'
<1>1. PICK q, r : q = th[t] /\ r = [q EXCEPT !.pc = "got", !.a = NULL]
  OBVIOUS
<1>2. /\ th' = [th EXCEPT ![t] = r] /\ q.pc = "alloc" /\ heap' = heap
      /\ pool' = pool /\ tab' = tab /\ table' = table /\ Control(q)
      /\ tab \in TabRec
  BY <1>1 DEF AllocFails, Step, At, Owned, TableOK
<1>3. /\ r \in ThRec /\ r.pc = "got" /\ r.a = NULL
      /\ r.own = q.own /\ r.in = q.in /\ r.out = q.out /\ r.buf_len = q.buf_len
      /\ r.job = q.job /\ r.sz = q.sz /\ r.open = q.open
  BY <1>1, <1>2 DEF ThRec, Control, Busy, Addr
<1>4. Control(r)
  BY <1>2, <1>3 DEF Control, Busy
<1>5. QED  BY <1>1, <1>2, <1>3, <1>4, QuietStep DEF Holding

LEMMA InitStreamStep == ASSUME Owned, NEW t \in Threads, InitStream(t) PROVE Owned'
<1>1. PICK sz \in Sizes :
        Step(t, [th[t] EXCEPT !.pc = "get", !.job = "stream", !.sz = sz, !.buf_len = sz,
                           !.pinned = TRUE, !.slot = 1])
  BY DEF InitStream
<1>2. PICK q, r : /\ q = th[t]
                  /\ r = [q EXCEPT !.pc = "get", !.job = "stream", !.sz = sz,
                                   !.buf_len = sz, !.pinned = TRUE, !.slot = 1]
  OBVIOUS
<1>3. /\ th' = [th EXCEPT ![t] = r] /\ q.pc = "idle" /\ heap' = heap /\ ~q.open
      /\ pool' = pool /\ tab' = tab /\ table' = table /\ Control(q)
      /\ tab \in TabRec /\ sz \in Nat \ {0}
  BY <1>1, <1>2, Constants DEF InitStream, Step, At, Owned, TableOK
<1>4. q.in = NULL /\ q.out = NULL
  BY <1>3 DEF Control
<1>5. /\ r \in ThRec /\ r.pc = "get" /\ r.job = "stream" /\ r.sz = sz
      /\ r.own = q.own /\ r.in = q.in /\ r.out = q.out /\ r.buf_len = sz
      /\ r.open = q.open
  BY <1>2, <1>3 DEF ThRec, Control, Busy
<1>6. Control(r)
  BY <1>3, <1>4, <1>5 DEF Control, Busy
<1>7. QED  BY <1>2, <1>3, <1>4, <1>5, <1>6, QuietStep DEF Holding

LEMMA MallocStep == ASSUME Owned, NEW t \in Threads, Malloc(t) PROVE Owned'
<1>1. PICK sz \in Sizes, pinned \in BOOLEAN :
        Step(t, [th[t] EXCEPT !.pc = "malloc", !.job = "own", !.sz = sz, !.pinned = pinned])
  BY DEF Malloc
<1>2. PICK q, r : /\ q = th[t]
                  /\ r = [q EXCEPT !.pc = "malloc", !.job = "own", !.sz = sz,
                                   !.pinned = pinned]
  OBVIOUS
<1>3. /\ th' = [th EXCEPT ![t] = r] /\ q.pc = "idle" /\ heap' = heap /\ q.own = NULL
      /\ pool' = pool /\ tab' = tab /\ table' = table /\ Control(q)
      /\ tab \in TabRec /\ sz \in Nat \ {0}
  BY <1>1, <1>2, Constants DEF Malloc, Step, At, Owned, TableOK
<1>4. /\ r \in ThRec /\ r.pc = "malloc" /\ r.job = "own" /\ r.sz = sz
      /\ r.own = q.own /\ r.in = q.in /\ r.out = q.out /\ r.buf_len = q.buf_len
      /\ r.open = q.open
  BY ZenonT(40), <1>2, <1>3 DEF ThRec, Control, Busy
<1>5. Control(r)
  BY <1>3, <1>4 DEF Control, Busy
<1>6. QED  BY <1>2, <1>3, <1>4, <1>5, QuietStep DEF Holding

-----------------------------------------------------------------------------
(* The steps of qzMalloc.                                                  *)

LEMMA HeldSize ==
    ASSUME NEW q, Control(q), q.a # NULL
    PROVE  q.a \in Nat /\ (q.pc \in Busy => q.sz \in Nat \ {0})
           /\ "register" \in Busy /\ "store" \in Busy /\ "got" \in Busy
<1>1. q.a \in Addr /\ q.sz \in Nat
  BY DEF Control, ThRec
<1>2. q.a \in Nat
  BY <1>1 DEF Addr
<1>3. q.pc \in Busy => q.sz > 0
  BY DEF Control
<1>4. QED  BY <1>1, <1>2, <1>3 DEF Busy

LEMMA RegisterStep == ASSUME Owned, NEW t \in Threads, Register(t) PROVE Owned'
<1>1. PICK q : q = th[t]
  OBVIOUS
<1>2. PICK known \in BOOLEAN : known = (Found(q.a) /\ Found(q.a + q.sz - 1))
  OBVIOUS
<1>3. PICK r : r = IF known THEN [q EXCEPT !.pc = "got"]
                   ELSE [q EXCEPT !.pc = "store", !.todo = Range2Store(q.a, q.sz)]
  OBVIOUS
<1>4. /\ th' = [th EXCEPT ![t] = r] /\ q.pc = "register" /\ heap' = heap
      /\ pool' = pool /\ table' = table
      /\ tab' = [tab EXCEPT !.lock = IF known THEN None ELSE t]
  BY <1>1, <1>2, <1>3 DEF Register, Step, At
<1>5. /\ Control(q) /\ q \in ThRec /\ Local(q, heap, pool) /\ q.a # NULL
      /\ TableOK /\ tab \in TabRec /\ tab.init
  BY <1>1, <1>4 DEF Owned, Control, Local, TableOK
<1>6. q.a \in Nat /\ q.sz \in Nat \ {0}
  BY <1>4, <1>5, HeldSize
<1>7. Range2Store(q.a, q.sz) \subseteq Nat
  BY <1>6, RangeFact
<1>8. /\ r \in ThRec /\ r.pc = (IF known THEN "got" ELSE "store")
      /\ r.a = q.a /\ r.sz = q.sz
      /\ r.own = q.own /\ r.in = q.in /\ r.out = q.out /\ r.buf_len = q.buf_len
      /\ r.job = q.job /\ r.open = q.open
      /\ ~known => r.todo = Range2Store(q.a, q.sz)
  <2>1. CASE known
    BY <1>3, <1>5, <2>1 DEF ThRec, Busy
  <2>2. CASE ~known
    BY <1>3, <1>5, <1>7, <2>2 DEF ThRec, Busy
  <2>3. QED  BY <2>1, <2>2
<1>9. r.pc \in {"got", "store"} /\ (known => r.pc = "got") /\ (r.pc = "store" => ~known)
  BY <1>8
<1>10. Control(r)
  BY <1>4, <1>5, <1>8, <1>9 DEF Control, Busy
<1>11. /\ Priv(r) = Priv(q) /\ Strm(r) = Strm(q)
       /\ InFlight(q) = {q.a} /\ InFlight(r) \subseteq {q.a}
       /\ ~known => InFlight(r) = {q.a}
  BY <1>4, <1>5, <1>8, <1>9 DEF Priv, Strm, InFlight
<1>12. Local(r, heap, pool)
  BY <1>4, <1>5, <1>8, <1>9, <1>11 DEF Local
<1>13. TableOK'
  <2>1. tab' \in TabRec /\ tab'.init
    BY <1>4, <1>5 DEF TabRec
  <2>2. r.pc = "store" => /\ r.todo \subseteq Range2Store(r.a, r.sz)
                          /\ Range2Store(r.a, r.sz) \ r.todo \subseteq table'
    BY <1>8, <1>9
  <2>3. table \subseteq DriverPages
    BY <1>5 DEF TableOK
  <2>4. QED  BY <1>4, <2>1, <2>2, <2>3, TableStep
<1>14. Registered'
  <2>1. known => Page(q.a) \in table
    BY <1>2 DEF Found, LoadAddr
  <2>2. QED  BY <1>1, <1>4, <1>11, <2>1, RegStep
<1>15. QED  BY <1>1, <1>4, <1>10, <1>11, <1>12, <1>13, <1>14, SameHolding

LEMMA StorePageStep == ASSUME Owned, NEW t \in Threads, StorePage(t) PROVE Owned'
<1>1. PICK q : q = th[t]
  OBVIOUS
<1>2. PICK p \in q.todo :
        /\ table' = table \cup {p}
        /\ tab' = [tab EXCEPT !.lock = IF q.todo \ {p} = {} THEN None ELSE t]
        /\ Step(t, [q EXCEPT !.todo = q.todo \ {p},
                             !.pc = IF q.todo \ {p} = {} THEN "got" ELSE "store"])
  BY <1>1 DEF StorePage
<1>3. PICK rest, done : rest = q.todo \ {p} /\ done \in BOOLEAN /\ done = (rest = {})
  OBVIOUS
<1>4. PICK r : r = [q EXCEPT !.todo = rest, !.pc = IF done THEN "got" ELSE "store"]
  OBVIOUS
<1>5. /\ th' = [th EXCEPT ![t] = r] /\ q.pc = "store" /\ heap' = heap
      /\ pool' = pool /\ table' = table \cup {p}
      /\ tab' = [tab EXCEPT !.lock = IF done THEN None ELSE t]
  BY <1>1, <1>2, <1>3, <1>4 DEF StorePage, Step, At
<1>6. /\ Control(q) /\ q \in ThRec /\ Local(q, heap, pool) /\ q.a # NULL
      /\ TableOK /\ tab \in TabRec /\ tab.init /\ HeapOK(heap)
      /\ q.todo \subseteq Range2Store(q.a, q.sz)
      /\ Range2Store(q.a, q.sz) \ q.todo \subseteq table
  BY <1>1, <1>5 DEF Owned, Control, Local, TableOK
<1>7. q.a \in Nat /\ q.sz \in Nat \ {0}
  BY <1>5, <1>6, HeldSize
<1>8. /\ r \in ThRec /\ r.pc = (IF done THEN "got" ELSE "store")
      /\ r.a = q.a /\ r.sz = q.sz /\ r.todo = rest
      /\ r.own = q.own /\ r.in = q.in /\ r.out = q.out /\ r.buf_len = q.buf_len
      /\ r.job = q.job /\ r.open = q.open
  BY <1>3, <1>4, <1>6 DEF ThRec, Busy
<1>9. r.pc \in {"got", "store"} /\ (done => r.pc = "got") /\ (~done => r.pc = "store")
  BY <1>3, <1>8
<1>10. Control(r)
  BY <1>5, <1>6, <1>8, <1>9 DEF Control, Busy
<1>11. /\ Priv(r) = Priv(q) /\ Strm(r) = Strm(q)
       /\ InFlight(q) = {q.a} /\ (~done => InFlight(r) = {q.a})
  BY <1>5, <1>6, <1>8, <1>9 DEF Priv, Strm, InFlight
<1>12. Local(r, heap, pool)
  BY <1>5, <1>6, <1>8, <1>9, <1>11 DEF Local
<1>13. Range2Store(q.a, q.sz) \subseteq DriverPages
  <2>1. PICK b \in heap.live : b.at = q.a /\ b.sz = q.sz /\ b.from = "driver"
    BY <1>5, <1>6 DEF Local
  <2>2. q.a + q.sz <= DriverMem
    BY <1>6, <2>1 DEF HeapOK
  <2>3. QED  BY <1>7, <2>2, RangeFact
<1>14. Range2Store(q.a, q.sz) \ rest \subseteq table'
  BY <1>3, <1>5, <1>6
<1>15. TableOK'
  <2>1. tab' \in TabRec /\ tab'.init
    BY <1>5, <1>6 DEF TabRec
  <2>2. r.pc = "store" => /\ r.todo \subseteq Range2Store(r.a, r.sz)
                          /\ Range2Store(r.a, r.sz) \ r.todo \subseteq table'
    BY <1>3, <1>6, <1>8, <1>14
  <2>3. table \subseteq table' /\ table' \subseteq DriverPages
    BY <1>5, <1>6, <1>13 DEF TableOK
  <2>4. QED  BY <1>5, <2>1, <2>2, <2>3, TableStep
<1>16. Registered'
  <2>1. done => Page(q.a) \in table'
    BY ZenonT(40), <1>3, <1>7, <1>14, RangeFact
  <2>2. table \subseteq table'
    BY <1>5
  <2>3. QED  BY <1>1, <1>3, <1>5, <1>11, <2>1, <2>2, RegStep
<1>17. QED  BY <1>1, <1>5, <1>10, <1>11, <1>12, <1>15, <1>16, SameHolding

LEMMA GotStep == ASSUME Owned, NEW t \in Threads, Got(t) PROVE Owned'
<1>1. PICK q, r : /\ q = th[t]
                  /\ r = [q EXCEPT !.pc = "idle", !.job = None, !.sz = 0,
                                   !.pinned = FALSE, !.own = q.a, !.a = NULL]
  OBVIOUS
<1>2. /\ th' = [th EXCEPT ![t] = r] /\ q.pc = "got" /\ q.job = "own"
      /\ heap' = heap /\ pool' = pool /\ tab' = tab /\ table' = table
  BY <1>1 DEF Got, Step, At
<1>3. /\ Control(q) /\ q \in ThRec /\ Local(q, heap, pool) /\ TableOK
      /\ tab \in TabRec /\ q.own = NULL
  BY <1>1, <1>2 DEF Owned, Control, TableOK
<1>4. /\ r \in ThRec /\ r.pc = "idle" /\ r.job = "none" /\ r.own = q.a /\ r.a = NULL
      /\ r.in = q.in /\ r.out = q.out /\ r.buf_len = q.buf_len /\ r.open = q.open
  <2>1. PICK o \in Addr : o = q.a
    BY <1>3 DEF ThRec
  <2>2. PICK n \in Addr : n = NULL
    BY DEF Addr
  <2>3. r = [q EXCEPT !.pc = "idle", !.job = "none", !.sz = 0,
                      !.pinned = FALSE, !.own = o, !.a = n]
    BY <1>1, <2>1, <2>2 DEF None
  <2>4. QED  BY <1>3, <2>1, <2>2, <2>3 DEF ThRec
<1>5. Control(r)
  BY <1>2, <1>3, <1>4 DEF Control, Busy
<1>6. Priv(r) = Priv(q) /\ Strm(r) = Strm(q) /\ InFlight(q) = {}
  BY <1>2, <1>3, <1>4 DEF Priv, Strm, InFlight
<1>7. Local(r, heap, pool)
  BY <1>2, <1>3, <1>4, <1>6 DEF Local
<1>8. TableOK'
  <2>1. /\ table' \subseteq DriverPages /\ (~tab'.init => table' = {})
        /\ r.pc \notin {"device", "alloc", "register", "store"}
    BY <1>2, <1>3, <1>4 DEF TableOK
  <2>2. QED  BY <1>2, <1>3, <2>1, TableStep
<1>9. Registered'
  BY <1>1, <1>2, <1>6, RegStep
<1>10. QED  BY <1>1, <1>2, <1>5, <1>6, <1>7, <1>8, <1>9, SameHolding

-----------------------------------------------------------------------------
(* New blocks.                                                             *)

LEMMA CoveredElements ==
    ASSUME NEW h, NEW p, NEW T
    PROVE  Covered(h, p, T) <=>
             \A x \in LiveAt(h) : \/ x \in Ats(p.free) \/ x \in Ats(p.used)
                                  \/ \E t \in Threads : x \in Priv(T[t])
  BY DEF Covered

\* Whatever is held is live.
LEMMA RefsLive ==
    ASSUME NEW h, NEW p, PoolOK(h, p)
    PROVE  /\ Ats(p.free) \subseteq LiveAt(h) /\ Ats(p.used) \subseteq LiveAt(h)
           /\ \A r : Local(r, h, p) => Refs(r) \subseteq LiveAt(h)
                                       /\ Strm(r) \subseteq Ats(p.used)
<1>1. /\ \A k \in DOMAIN p.free : \E b \in h.live : b.at = p.free[k].at
      /\ \A k \in DOMAIN p.used : \E b \in h.live : b.at = p.used[k].at
  BY DEF PoolOK
<1>2. Ats(p.free) \subseteq LiveAt(h) /\ Ats(p.used) \subseteq LiveAt(h)
  BY <1>1 DEF Ats, LiveAt
<1>3. ASSUME NEW r, Local(r, h, p)
      PROVE  Refs(r) \subseteq LiveAt(h) /\ Strm(r) \subseteq Ats(p.used)
  <2>1. Strm(r) \subseteq Ats(p.used)
    BY <1>3 DEF Local, InUse, Ats
  <2>2. Priv(r) \subseteq LiveAt(h)
    BY <1>3 DEF Local
  <2>3. QED  BY <1>2, <2>1, <2>2 DEF Refs
<1>4. QED  BY <1>2, <1>3

LEMMA LiveMore ==
    ASSUME NEW h, NEW g, NEW p, h.live \subseteq g.live
    PROVE  /\ LiveAt(h) \subseteq LiveAt(g)
           /\ PoolOK(h, p) => PoolOK(g, p)
           /\ \A r : Local(r, h, p) => Local(r, g, p)
<1>1. LiveAt(h) \subseteq LiveAt(g)
  BY DEF LiveAt
<1>2. PoolOK(h, p) => PoolOK(g, p)
  BY DEF PoolOK
<1>3. ASSUME NEW r, Local(r, h, p) PROVE Local(r, g, p)
  <2>1. Priv(r) \subseteq LiveAt(g)
    BY <1>1, <1>3 DEF Local
  <2>2. (r.pc \in {"register", "store", "got"} /\ r.a # NULL) =>
          \E b \in g.live : /\ b.at = r.a /\ b.sz = r.sz
                            /\ r.pc # "got" => b.from = "driver"
    BY <1>3 DEF Local
  <2>3. QED  BY <1>3, <2>1, <2>2 DEF Local
<1>4. QED  BY <1>1, <1>2, <1>3

LEMMA BlocksFact ==
    ASSUME HeapOK(heap), NEW from \in {"driver", "heap"}, NEW sz \in Nat \ {0},
           NEW b \in Blocks(from, sz), NEW g,
           g = [heap EXCEPT !.live = @ \cup {b}]
    PROVE  /\ b.at \in Nat /\ b.sz = sz /\ b.from = from
           /\ b.at \notin LiveAt(heap) /\ g.live = heap.live \cup {b}
           /\ HeapOK(g)
<1>1. PICK x \in Int :
        /\ b = [at |-> x, sz |-> sz, from |-> from]
        /\ x \in (IF from = "driver" THEN 0 .. DriverMem - sz
                                     ELSE DriverMem .. DriverMem + HeapMem - sz)
        /\ \A c \in heap.live : c.at + c.sz <= x \/ x + sz <= c.at
  BY Constants DEF Blocks
<1>2. x \in Nat /\ IF from = "driver" THEN x + sz <= DriverMem ELSE x >= DriverMem
  BY <1>1, Constants
<1>3. b \in Block /\ b.at = x /\ b.sz = sz /\ b.from = from
  BY <1>1, <1>2 DEF Block
<1>4. \A c \in heap.live : c.at \in Nat /\ c.sz \in Nat \ {0}
  BY DEF HeapOK, Block
<1>5. \A c \in heap.live : c.at # x
  BY <1>1, <1>2, <1>4
<1>6. b.at \notin LiveAt(heap)
  BY <1>3, <1>5 DEF LiveAt
<1>7. g = [live |-> heap.live \cup {b}, wrong |-> {}]
  BY DEF HeapOK
<1>8. \A c, d \in g.live : c # d => c.at + c.sz <= d.at \/ d.at + d.sz <= c.at
  <2>1. \A c, d \in heap.live : c # d => c.at + c.sz <= d.at \/ d.at + d.sz <= c.at
    BY DEF HeapOK
  <2>2. \A c \in heap.live : c.at + c.sz <= b.at \/ b.at + b.sz <= c.at
    BY <1>1, <1>3
  <2>3. g.live = heap.live \cup {b}
    BY <1>7
  <2>4. QED  BY <2>1, <2>2, <2>3
<1>9. \A c \in g.live : IF c.from = "driver" THEN c.at + c.sz <= DriverMem
                                             ELSE c.at >= DriverMem
  BY <1>2, <1>3, <1>7 DEF HeapOK
<1>10. g.live \subseteq Block
  BY <1>3, <1>7 DEF HeapOK
<1>11. HeapOK(g)
  BY <1>7, <1>8, <1>9, <1>10 DEF HeapOK
<1>12. QED  BY <1>2, <1>3, <1>6, <1>7, <1>11

\* An allocator returns a block to a thread that goes on with it.
LEMMA NewBlock ==
    ASSUME Owned, NEW t \in Threads, NEW r, NEW from \in {"driver", "heap"},
           NEW b \in Blocks(from, th[t].sz),
           th[t].pc = "alloc",
           th' = [th EXCEPT ![t] = r],
           heap' = [heap EXCEPT !.live = @ \cup {b}],
           pool' = pool, tab' = tab, table' = table,
           r = [th[t] EXCEPT !.pc = IF from = "driver" THEN "register" ELSE "got",
                             !.a = b.at]
    PROVE  Owned'
<1>1. PICK q : q = th[t]
  OBVIOUS
<1>2. /\ Control(q) /\ q \in ThRec /\ Local(q, heap, pool) /\ HeapOK(heap)
      /\ PoolOK(heap, pool) /\ TableOK /\ q.pc = "alloc"
  BY <1>1 DEF Owned, Control
<1>3. q.sz \in Nat \ {0}
  <2>1. q.sz \in Nat /\ q.pc \in Busy
    BY <1>2 DEF ThRec, Busy
  <2>2. QED  BY <1>2, <2>1 DEF Control
<1>4. /\ b.at \in Nat /\ b.sz = q.sz /\ b.from = from
      /\ b.at \notin LiveAt(heap) /\ heap'.live = heap.live \cup {b}
      /\ HeapOK(heap')
  BY <1>1, <1>2, <1>3, BlocksFact
<1>5. PICK pc \in {"register", "got"} : pc = IF from = "driver" THEN "register" ELSE "got"
  OBVIOUS
<1>6. b.at # NULL /\ b.at \in Addr
  BY <1>4 DEF NULL, Addr
<1>7. /\ r \in ThRec /\ r.pc = pc /\ r.a = b.at
      /\ r.own = q.own /\ r.in = q.in /\ r.out = q.out /\ r.buf_len = q.buf_len
      /\ r.job = q.job /\ r.sz = q.sz /\ r.open = q.open
  <2>1. r = [q EXCEPT !.pc = pc, !.a = b.at]
    BY <1>1, <1>5
  <2>2. QED  BY <1>2, <1>6, <2>1 DEF ThRec, Busy
<1>8. Control(r)
  BY <1>2, <1>5, <1>7 DEF Control, Busy
<1>9. /\ Priv(r) = Priv(q) \cup {b.at} /\ Strm(r) = Strm(q)
      /\ InFlight(q) = {} /\ (from = "driver" => InFlight(r) = {b.at})
  BY <1>2, <1>5, <1>6, <1>7 DEF Priv, Strm, InFlight
<1>10. heap.live \subseteq heap'.live /\ LiveAt(heap') = LiveAt(heap) \cup {b.at}
  BY <1>4 DEF LiveAt
<1>11. PoolOK(heap', pool') /\ Local(q, heap', pool')
       /\ \A u \in Threads \ {t} : Local(th[u], heap', pool')
  BY <1>2, <1>10, LiveMore DEF Owned
<1>12. /\ Ats(pool.free) \subseteq LiveAt(heap) /\ Ats(pool.used) \subseteq LiveAt(heap)
       /\ \A u \in Threads : Refs(th[u]) \subseteq LiveAt(heap)
  BY <1>2, RefsLive DEF Owned
<1>13. Local(r, heap', pool')
  <2>1. Priv(r) \subseteq LiveAt(heap')
    BY <1>9, <1>10, <1>11 DEF Local
  <2>2. Priv(r) \cap (Ats(pool'.free) \cup Ats(pool'.used)) = {}
    BY <1>4, <1>9, <1>11, <1>12 DEF Local
  <2>3. r.a # r.own
    <3>1. CASE r.own = NULL
      BY <1>6, <1>7, <3>1
    <3>2. CASE r.own # NULL
      <4>1. r.own \in Priv(q)
        BY <1>7, <3>2 DEF Priv
      <4>2. QED  BY <1>2, <1>4, <1>7, <4>1 DEF Local
    <3>3. QED  BY <3>1, <3>2
  <2>4. \E c \in heap'.live : /\ c.at = r.a /\ c.sz = r.sz
                              /\ r.pc # "got" => c.from = "driver"
    BY <1>4, <1>5, <1>7
  <2>5. r.pc # "slot" /\ r.a # NULL
    BY <1>5, <1>6, <1>7
  <2>6. (\A a \in Strm(r) : InUse(pool', a, r.buf_len)) /\ (r.in # NULL => r.in # r.out)
    BY <1>7, <1>9, <1>11 DEF Local
  <2>7. QED  BY <2>1, <2>2, <2>3, <2>4, <2>5, <2>6 DEF Local
<1>14. \A u \in Threads \ {t} : Apart(r, th[u])
  <2>1. Refs(r) = Refs(q) \cup {b.at}
    BY <1>9 DEF Refs
  <2>2. \A u \in Threads \ {t} : Apart(q, th[u])
    BY <1>1 DEF Owned
  <2>3. QED  BY <1>4, <1>12, <2>1, <2>2 DEF Apart
<1>15. Covered(heap', pool', th')
  <2>1. /\ th'[t] = r /\ \A u \in Threads \ {t} : th'[u] = th[u]
    BY DEF Owned
  <2>2. \A u \in Threads : Priv(th[u]) \subseteq Priv(th'[u])
    BY <1>1, <1>9, <2>1
  <2>3. b.at \in Priv(th'[t])
    BY <1>9, <2>1
  <2>4. Covered(heap, pool, th)
    BY DEF Owned
  <2>5. \A x \in LiveAt(heap) : \/ x \in Ats(pool.free) \/ x \in Ats(pool.used)
                                \/ \E u \in Threads : x \in Priv(th[u])
    BY <2>4, CoveredElements
  <2>6. \A x \in LiveAt(heap') : \/ x \in Ats(pool'.free) \/ x \in Ats(pool'.used)
                                 \/ \E u \in Threads : x \in Priv(th'[u])
    BY ZenonT(40), <1>10, <2>2, <2>3, <2>5
  <2>7. QED  BY <2>6, CoveredElements
<1>16. TableOK'
  <2>1. /\ table' \subseteq DriverPages /\ (~tab'.init => table' = {})
        /\ tab' \in TabRec /\ tab'.init /\ r.pc # "store"
    BY <1>1, <1>2, <1>5, <1>7 DEF TableOK
  <2>2. QED  BY <2>1, TableStep
<1>17. Registered'
  <2>1. \A c \in heap'.live : \/ c \in heap.live \/ c.from # "driver"
                              \/ c.at \in InFlight(r)
    BY <1>4, <1>9
  <2>2. QED  BY <1>1, <1>9, <2>1, RegStep
<1>18. QED  BY <1>4, <1>8, <1>11, <1>13, <1>14, <1>15, <1>16, <1>17, ThreadStep

LEMMA AllocPinnedStep == ASSUME Owned, NEW t \in Threads, AllocPinned(t) PROVE Owned'
<1>1. PICK b \in Blocks("driver", th[t].sz) :
        /\ heap' = [heap EXCEPT !.live = @ \cup {b}]
        /\ Step(t, [th[t] EXCEPT !.pc = "register", !.a = b.at])
  BY DEF AllocPinned
<1>2. QED  BY <1>1, NewBlock DEF AllocPinned, Step, At

LEMMA AllocCommonStep == ASSUME Owned, NEW t \in Threads, AllocCommon(t) PROVE Owned'
<1>1. PICK b \in Blocks("heap", th[t].sz) :
        /\ heap' = [heap EXCEPT !.live = @ \cup {b}]
        /\ Step(t, [th[t] EXCEPT !.pc = "got", !.a = b.at])
  BY DEF AllocCommon
<1>2. QED  BY <1>1, NewBlock DEF AllocCommon, Step, At

-----------------------------------------------------------------------------
(* Blocks that go back.                                                    *)

\* What a correct deallocation leaves.
Without(h, a) == [h EXCEPT !.live = {b \in @ : b.at # a}]

LEMMA WithoutFact ==
    ASSUME NEW h, HeapOK(h), NEW a
    PROVE  /\ HeapOK(Without(h, a)) /\ Without(h, a).live \subseteq h.live
           /\ LiveAt(Without(h, a)) = LiveAt(h) \ {a}
           /\ \A p : (PoolOK(h, p) /\ a \notin Ats(p.free) \cup Ats(p.used))
                       => PoolOK(Without(h, a), p)
           /\ \A r, p : (Local(r, h, p) /\ a \notin Priv(r))
                          => Local(r, Without(h, a), p)
<1>1. PICK g : g = Without(h, a)
  OBVIOUS
<1>2. g = [live |-> {b \in h.live : b.at # a}, wrong |-> {}]
  <2>1. PICK S : S = {b \in h.live : b.at # a}
    OBVIOUS
  <2>2. g = [h EXCEPT !.live = S]
    BY <1>1, <2>1 DEF Without
  <2>3. PICK L : L = h.live /\ h = [live |-> L, wrong |-> {}]
    BY DEF HeapOK
  <2>4. g = [live |-> S, wrong |-> {}]
    BY <2>2, <2>3
  <2>5. QED  BY <2>1, <2>4
<1>3. HeapOK(g) /\ g.live \subseteq h.live
  BY <1>2 DEF HeapOK
<1>4. LiveAt(g) = LiveAt(h) \ {a}
  BY <1>2 DEF LiveAt
<1>5. ASSUME NEW p, PoolOK(h, p), a \notin Ats(p.free) \cup Ats(p.used)
      PROVE  PoolOK(g, p)
  <2>1. /\ \A k \in DOMAIN p.free : p.free[k].at # a
        /\ \A k \in DOMAIN p.used : p.used[k].at # a
    BY <1>5 DEF Ats
  <2>2. ASSUME NEW l \in {"free", "used"}, NEW k \in DOMAIN p[l]
        PROVE  \E b \in g.live : b.at = p[l][k].at /\ b.sz = p[l][k].sz
    <3>1. PICK b \in h.live : b.at = p[l][k].at /\ b.sz = p[l][k].sz
      BY <1>5 DEF PoolOK
    <3>2. b.at # a
      BY <2>1, <3>1
    <3>3. QED  BY <1>2, <3>1, <3>2
  <2>3. QED  BY <1>5, <2>2 DEF PoolOK
<1>6. ASSUME NEW r, NEW p, Local(r, h, p), a \notin Priv(r) PROVE Local(r, g, p)
  <2>1. Priv(r) \subseteq LiveAt(g)
    BY <1>4, <1>6 DEF Local
  <2>2. (r.pc \in {"register", "store", "got"} /\ r.a # NULL) =>
          \E b \in g.live : /\ b.at = r.a /\ b.sz = r.sz
                            /\ r.pc # "got" => b.from = "driver"
    <3>1. SUFFICES ASSUME r.pc \in {"register", "store", "got"}, r.a # NULL
                   PROVE  \E b \in g.live : /\ b.at = r.a /\ b.sz = r.sz
                                            /\ r.pc # "got" => b.from = "driver"
      OBVIOUS
    <3>2. r.a \in Priv(r)
      BY <3>1 DEF Priv
    <3>3. PICK b \in h.live : /\ b.at = r.a /\ b.sz = r.sz
                              /\ r.pc # "got" => b.from = "driver"
      BY <1>6, <3>1 DEF Local
    <3>4. b \in g.live
      BY <1>2, <1>6, <3>2, <3>3
    <3>5. QED  BY <3>3, <3>4
  <2>3. QED  BY <1>6, <2>1, <2>2 DEF Local
<1>7. QED  BY <1>1, <1>3, <1>4, <1>5, <1>6

\* qzFree of a registered block, or of one of malloc's, finds the right
\* deallocator.
LEMMA RightDeallocator ==
    ASSUME NEW h, HeapOK(h), table \subseteq DriverPages, NEW b \in h.live,
           b.from = "driver" => Page(b.at) \in table
    PROVE  /\ b.from = Deallocator(b.at)
           /\ \A c \in h.live : c.at = b.at => c = b
<1>1. PICK a : a = b.at
  OBVIOUS
<1>2. a \in Nat /\ b.from \in {"driver", "heap"}
  BY <1>1 DEF HeapOK, Block
<1>3. b.from = "heap" => Page(a) \notin table
  <2>1. b.from = "heap" => ~(a < DriverMem)
    BY <1>1, <1>2, Constants DEF HeapOK
  <2>2. QED  BY <1>2, <2>1, PageFact
<1>4. b.from = Deallocator(a)
  BY <1>1, <1>2, <1>3 DEF Deallocator, Found, LoadAddr
<1>5. \A c \in h.live : c.at = a => c = b
  <2>1. \A c \in h.live : c.at \in Nat /\ c.sz \in Nat \ {0}
    BY DEF HeapOK, Block
  <2>2. \A c \in h.live : c # b => c.at + c.sz <= b.at \/ b.at + b.sz <= c.at
    BY DEF HeapOK
  <2>3. QED  BY <1>1, <2>1, <2>2
<1>6. QED  BY <1>1, <1>4, <1>5

LEMMA FreedFact ==
    ASSUME NEW h, HeapOK(h), table \subseteq DriverPages, NEW b \in h.live,
           b.from = "driver" => Page(b.at) \in table
    PROVE  Freed(h, b.at) = Without(h, b.at)
<1>1. PICK a : a = b.at
  OBVIOUS
<1>2. b.from = Deallocator(a) /\ \A c \in h.live : c.at = a => c = b
  BY <1>1, RightDeallocator
<1>3. PICK mine : mine = {c \in h.live : c.at = a /\ c.from = Deallocator(a)}
  OBVIOUS
<1>4. mine # {} /\ h.live \ mine = {c \in h.live : c.at # a}
  BY <1>1, <1>2, <1>3
<1>5. Freed(h, a) = [h EXCEPT !.live = h.live \ mine]
  BY <1>3, <1>4 DEF Freed
<1>6. QED  BY <1>1, <1>4, <1>5 DEF Without

\* A thread gives back a block it alone holds.
LEMMA BlockGone ==
    ASSUME Owned, NEW t \in Threads, NEW r, th' = [th EXCEPT ![t] = r],
           NEW a, a \in Priv(th[t]), Priv(r) = Priv(th[t]) \ {a},
           InFlight(th[t]) \subseteq {a},
           heap' = Without(heap, a), pool' = pool, tab' \in TabRec,
           tab'.init = tab.init, table' = table, Control(r),
           r.pc \notin {"device", "alloc", "register", "store", "slot"},
           r.pc = "got" => r.a = NULL,
           r.in = th[t].in, r.out = th[t].out, r.buf_len = th[t].buf_len,
           th[t].pc # "slot"
    PROVE  Owned'
<1>1. PICK q : q = th[t]
  OBVIOUS
<1>2. /\ Local(q, heap, pool) /\ HeapOK(heap) /\ PoolOK(heap, pool)
      /\ a \notin Ats(pool.free) \cup Ats(pool.used)
  BY <1>1 DEF Owned, Local
<1>3. /\ HeapOK(heap') /\ heap'.live \subseteq heap.live
      /\ LiveAt(heap') = LiveAt(heap) \ {a} /\ PoolOK(heap', pool')
      /\ \A u : (Local(u, heap, pool) /\ a \notin Priv(u)) => Local(u, heap', pool')
  BY <1>2, WithoutFact
<1>4. \A u \in Threads \ {t} : a \notin Priv(th[u])
  BY DEF Owned, Apart, Refs
<1>5. \A u \in Threads \ {t} : Local(th[u], heap', pool')
  BY <1>3, <1>4 DEF Owned
<1>6. Strm(r) = Strm(q)
  BY <1>1 DEF Strm
<1>7. Local(r, heap', pool')
  <2>1. Priv(r) \subseteq LiveAt(heap')
    BY <1>1, <1>2, <1>3 DEF Local
  <2>2. QED  BY <1>1, <1>2, <1>6, <2>1 DEF Local
<1>8. \A u \in Threads \ {t} : Apart(r, th[u])
  BY <1>1, <1>6 DEF Owned, Apart, Refs
<1>9. Covered(heap', pool', th')
  <2>1. /\ th'[t] = r /\ \A u \in Threads \ {t} : th'[u] = th[u]
    BY DEF Owned
  <2>2. \A x \in LiveAt(heap) : \/ x \in Ats(pool.free) \/ x \in Ats(pool.used)
                                \/ \E u \in Threads : x \in Priv(th[u])
    BY CoveredElements DEF Owned
  <2>3. \A u \in Threads : Priv(th[u]) \ {a} \subseteq Priv(th'[u])
    BY <2>1
  <2>4. \A x \in LiveAt(heap') : \/ x \in Ats(pool'.free) \/ x \in Ats(pool'.used)
                                 \/ \E u \in Threads : x \in Priv(th'[u])
    BY <1>3, <2>2, <2>3
  <2>5. QED  BY <2>4, CoveredElements
<1>10. TableOK'
  <2>1. table' \subseteq DriverPages /\ (~tab'.init => table' = {})
    BY DEF Owned, TableOK
  <2>2. QED  BY <2>1, TableStep
<1>11. Registered'
  <2>1. \A b \in heap'.live : b.at # a
    BY DEF Without, Owned, HeapOK
  <2>2. \A b \in heap'.live : b \in heap.live
    BY <1>3
  <2>3. \A x \in InFlight(th[t]) : \A b \in heap'.live : b.at # x
    BY <2>1
  <2>4. table \subseteq table'
    OBVIOUS
  <2>5. QED  BY ZenonT(60), <2>2, <2>3, <2>4, RegStep
<1>12. QED  BY <1>3, <1>5, <1>7, <1>8, <1>9, <1>10, <1>11, ThreadStep

LEMMA StoreFailsStep == ASSUME Owned, NEW t \in Threads, StoreFails(t) PROVE Owned'
<1>1. PICK q : q = th[t]
  OBVIOUS
<1>2. PICK r : r = [q EXCEPT !.pc = "got", !.todo = {}, !.a = NULL]
  OBVIOUS
<1>3. /\ th' = [th EXCEPT ![t] = r] /\ q.pc = "store" /\ heap' = Without(heap, q.a)
      /\ pool' = pool /\ table' = table /\ tab' = [tab EXCEPT !.lock = None]
  BY <1>1, <1>2 DEF StoreFails, Step, At, Without
<1>4. /\ Control(q) /\ q \in ThRec /\ Local(q, heap, pool) /\ q.a # NULL
      /\ TableOK /\ tab \in TabRec /\ q.a # q.own
  BY <1>1, <1>3 DEF Owned, Control, Local, TableOK
<1>5. /\ r \in ThRec /\ r.pc = "got" /\ r.a = NULL
      /\ r.own = q.own /\ r.in = q.in /\ r.out = q.out /\ r.buf_len = q.buf_len
      /\ r.job = q.job /\ r.sz = q.sz /\ r.open = q.open
  <2>1. PICK n \in Addr : n = NULL
    BY DEF Addr
  <2>2. r = [q EXCEPT !.pc = "got", !.todo = {}, !.a = n]
    BY <1>2, <2>1
  <2>3. QED  BY <1>4, <2>1, <2>2 DEF ThRec, Busy
<1>6. Control(r)
  BY <1>3, <1>4, <1>5 DEF Control, Busy
<1>7. /\ Priv(q) = ({q.own} \cup {q.a}) \ {NULL} /\ Priv(r) = {q.own} \ {NULL}
      /\ InFlight(q) = {q.a}
  BY <1>3, <1>4, <1>5 DEF Priv, InFlight
<1>8. q.a \in Priv(q) /\ Priv(r) = Priv(q) \ {q.a}
  BY <1>4, <1>7
<1>9. tab' \in TabRec /\ tab'.init = tab.init
  BY <1>3, <1>4 DEF TabRec
<1>10. QED  BY <1>1, <1>3, <1>5, <1>6, <1>7, <1>8, <1>9, BlockGone

LEMMA FreeStep == ASSUME Owned, NEW t \in Threads, Free(t) PROVE Owned'
<1>1. PICK q : q = th[t]
  OBVIOUS
<1>2. PICK r : r = [q EXCEPT !.own = NULL]
  OBVIOUS
<1>3. /\ th' = [th EXCEPT ![t] = r] /\ q.pc = "idle" /\ heap' = Freed(heap, q.own)
      /\ pool' = pool /\ table' = table /\ tab' = tab /\ q.own # NULL
  BY <1>1, <1>2 DEF Free, Step, At
<1>4. /\ Control(q) /\ q \in ThRec /\ Local(q, heap, pool) /\ HeapOK(heap)
      /\ TableOK /\ tab \in TabRec /\ table \subseteq DriverPages
  BY <1>1 DEF Owned, Control, TableOK
<1>5. /\ r \in ThRec /\ r.pc = "idle" /\ r.own = NULL /\ r.a = q.a
      /\ r.in = q.in /\ r.out = q.out /\ r.buf_len = q.buf_len
      /\ r.job = q.job /\ r.sz = q.sz /\ r.open = q.open
  <2>1. PICK n \in Addr : n = NULL
    BY DEF Addr
  <2>2. r = [q EXCEPT !.own = n]
    BY <1>2, <2>1
  <2>3. QED  BY <1>3, <1>4, <2>1, <2>2 DEF ThRec
<1>6. Control(r)
  BY <1>3, <1>4, <1>5 DEF Control, Busy
<1>7. Priv(q) = {q.own} /\ Priv(r) = {} /\ InFlight(q) = {}
  BY <1>3, <1>5 DEF Priv, InFlight
<1>8. PICK b \in heap.live : b.at = q.own
  BY <1>4, <1>7 DEF Local, LiveAt
<1>9. b.from = "driver" => Page(b.at) \in table
  <2>1. \A u \in Threads : InFlight(th[u]) \subseteq Priv(th[u])
    BY DEF InFlight, Priv
  <2>2. \A u \in Threads \ {t} : q.own \notin Priv(th[u])
    BY <1>1, <1>7 DEF Owned, Apart, Refs
  <2>3. \A u \in Threads : b.at \notin InFlight(th[u])
    BY <1>1, <1>7, <1>8, <2>1, <2>2
  <2>4. QED  BY <2>3 DEF Owned, Registered
<1>10. heap' = Without(heap, q.own)
  BY <1>3, <1>4, <1>8, <1>9, FreedFact
<1>11. QED  BY <1>1, <1>3, <1>4, <1>5, <1>6, <1>7, <1>10, BlockGone

-----------------------------------------------------------------------------
(* The pool.                                                               *)

\* A thread moves addresses between itself and the lists.
LEMMA PoolStep ==
    ASSUME Owned, NEW t \in Threads, NEW r, th' = [th EXCEPT ![t] = r],
           heap' = heap, tab' = tab, table' = table,
           PoolOK(heap, pool'), Control(r), Local(r, heap, pool'),
           \A x, m : InUse(pool, x, m) => InUse(pool', x, m),
           Ats(pool'.free) \cup Ats(pool'.used)
             = Ats(pool.free) \cup Ats(pool.used) \cup (Priv(th[t]) \ Priv(r)),
           Priv(r) \subseteq Priv(th[t]),
           Strm(r) \subseteq Strm(th[t]) \cup Ats(pool.free),
           r.pc \notin {"device", "alloc", "register", "store"},
           th[t].pc \notin {"register", "store"}
    PROVE  Owned'
<1>1. PICK q : q = th[t]
  OBVIOUS
<1>2. /\ Local(q, heap, pool) /\ PoolOK(heap, pool) /\ TableOK /\ HeapOK(heap)
      /\ Ats(pool.free) \cap Ats(pool.used) = {}
  BY <1>1 DEF Owned, PoolOK
<1>3. \A u \in Threads \ {t} : /\ Local(th[u], heap, pool) /\ Apart(q, th[u])
                               /\ Strm(th[u]) \subseteq Ats(pool.used)
                               /\ Priv(th[u]) \cap (Ats(pool.free) \cup Ats(pool.used)) = {}
  BY <1>1, <1>2, RefsLive DEF Owned, Local
<1>4. ASSUME NEW u \in Threads \ {t}
      PROVE  Local(th[u], heap', pool') /\ Apart(r, th[u])
  <2>1. Priv(th[u]) \cap (Ats(pool'.free) \cup Ats(pool'.used)) = {}
    BY <1>1, <1>3 DEF Apart, Refs
  <2>2. \A a \in Strm(th[u]) : InUse(pool', a, th[u].buf_len)
    BY <1>3 DEF Local
  <2>3. Local(th[u], heap', pool')
    BY <1>3, <2>1, <2>2 DEF Local
  <2>4. Apart(r, th[u])
    BY <1>1, <1>2, <1>3 DEF Apart, Refs
  <2>5. QED  BY <2>3, <2>4
<1>5. Covered(heap', pool', th')
  <2>1. /\ th'[t] = r /\ \A u \in Threads \ {t} : th'[u] = th[u]
    BY DEF Owned
  <2>2. \A x \in LiveAt(heap) : \/ x \in Ats(pool.free) \/ x \in Ats(pool.used)
                                \/ \E u \in Threads : x \in Priv(th[u])
    BY CoveredElements DEF Owned
  <2>3. ASSUME NEW x, NEW u \in Threads, x \in Priv(th[u])
        PROVE  \/ x \in Ats(pool'.free) \/ x \in Ats(pool'.used)
               \/ x \in Priv(th'[u])
    <3>1. CASE u = t
      BY <2>1, <2>3, <3>1
    <3>2. CASE u # t
      BY <2>1, <2>3, <3>2
    <3>3. QED  BY <3>1, <3>2
  <2>4. \A x \in LiveAt(heap') : \/ x \in Ats(pool'.free) \/ x \in Ats(pool'.used)
                                 \/ \E u \in Threads : x \in Priv(th'[u])
    BY <2>2, <2>3
  <2>5. QED  BY <2>4, CoveredElements
<1>6. TableOK'
  <2>1. /\ table' \subseteq DriverPages /\ (~tab'.init => table' = {})
        /\ tab' \in TabRec
    BY DEF Owned, TableOK
  <2>2. QED  BY <2>1, TableStep
<1>7. Registered'
  <2>1. InFlight(th[t]) = {}
    BY DEF InFlight
  <2>2. QED  BY <2>1, RegStep
<1>8. QED  BY <1>2, <1>4, <1>5, <1>6, <1>7, ThreadStep

\* The node n has moved from the list f, now g, to the end of u, now v.
MovedTo(f, u, n, g, v) ==
  /\ g \in Seq(Node) /\ v \in Seq(Node) /\ Distinct(g) /\ Distinct(v)
  /\ Ats(g) = Ats(f) \ {n.at} /\ Ats(v) = Ats(u) \cup {n.at}
  /\ \A i \in DOMAIN g : \E j \in DOMAIN f : g[i] = f[j]
  /\ \A i \in DOMAIN v : v[i] = n \/ \E j \in DOMAIN u : v[i] = u[j]
  /\ \A j \in DOMAIN u : \E i \in DOMAIN v : v[i] = u[j]
  /\ \E i \in DOMAIN v : v[i] = n
  /\ \A j \in DOMAIN f : f[j] = n \/ \E i \in DOMAIN g : g[i] = f[j]

LEMMA MoveFact ==
    ASSUME NEW f \in Seq(Node), NEW u \in Seq(Node), Distinct(f), Distinct(u),
           Ats(f) \cap Ats(u) = {}, NEW k \in DOMAIN f
    PROVE  /\ f[k] \in Node /\ f[k].at \in Nat /\ f[k].sz \in Nat
           /\ f[k].at \in Ats(f) /\ f[k].at \notin Ats(u)
           /\ MovedTo(f, u, f[k], RemoveAt(f, k), Append(u, f[k]))
<1>1. PICK n \in Node : n = f[k]
  OBVIOUS
<1>2. n.at \in Nat /\ n.sz \in Nat
  BY DEF Node
<1>3. n.at \in Ats(f) /\ n.at \notin Ats(u)
  BY <1>1 DEF Ats
<1>4. PICK g : g = RemoveAt(f, k)
  OBVIOUS
<1>5. /\ g \in Seq(Node) /\ Distinct(g) /\ Ats(g) = Ats(f) \ {n.at}
      /\ \A i \in DOMAIN g : \E j \in DOMAIN f : g[i] = f[j]
      /\ \A j \in DOMAIN f \ {k} : \E i \in DOMAIN g : g[i] = f[j]
  BY <1>1, <1>4, RemoveFact
<1>6. PICK v : v = Append(u, n)
  OBVIOUS
<1>7. /\ v \in Seq(Node) /\ Distinct(v) /\ Ats(v) = Ats(u) \cup {n.at}
      /\ \A i \in DOMAIN v : v[i] = n \/ \E j \in DOMAIN u : v[i] = u[j]
      /\ \A j \in DOMAIN u : \E i \in DOMAIN v : v[i] = u[j]
      /\ \E i \in DOMAIN v : v[i] = n
  <2>1. Appended(u, n, v)
    BY <1>6, AppendFact
  <2>2. QED  BY <1>3, <2>1 DEF Appended
<1>8. \A j \in DOMAIN f : f[j] = n \/ \E i \in DOMAIN g : g[i] = f[j]
  BY <1>1, <1>5
<1>9. MovedTo(f, u, n, g, v)
  BY <1>5, <1>7, <1>8 DEF MovedTo
<1>10. QED  BY <1>1, <1>2, <1>3, <1>4, <1>6, <1>9

LEMMA NodesLive ==
    ASSUME NEW h, NEW p, PoolOK(h, p)
    PROVE  /\ \A k \in DOMAIN p.free :
                \E b \in h.live : b.at = p.free[k].at /\ b.sz = p.free[k].sz
           /\ \A k \in DOMAIN p.used :
                \E b \in h.live : b.at = p.used[k].at /\ b.sz = p.used[k].sz
  BY DEF PoolOK

LEMMA PoolMade ==
    ASSUME NEW h, NEW f \in Seq(Node), NEW u \in Seq(Node),
           Distinct(f), Distinct(u), Ats(f) \cap Ats(u) = {},
           \A k \in DOMAIN f : \E b \in h.live : b.at = f[k].at /\ b.sz = f[k].sz,
           \A k \in DOMAIN u : \E b \in h.live : b.at = u[k].at /\ b.sz = u[k].sz
    PROVE  PoolOK(h, [free |-> f, used |-> u])
<1>1. PICK p : p = [free |-> f, used |-> u]
  OBVIOUS
<1>2. p.free = f /\ p.used = u
  BY <1>1
<1>3. ASSUME NEW l \in {"free", "used"}, NEW k \in DOMAIN p[l]
      PROVE  \E b \in h.live : b.at = p[l][k].at /\ b.sz = p[l][k].sz
  <2>1. CASE l = "free"
    BY <1>2, <1>3, <2>1
  <2>2. CASE l = "used"
    BY <1>2, <1>3, <2>2
  <2>3. QED  BY <1>3, <2>1, <2>2
<1>4. p = [free |-> p.free, used |-> p.used]
  BY <1>1, <1>2
<1>5. PoolOK(h, p)
  BY <1>2, <1>3, <1>4 DEF PoolOK
<1>6. QED  BY <1>1, <1>5

\* What taking the node k from the free list does to the pool.
TakenOK(h, p, k, w) ==
  /\ PoolOK(h, w) /\ p.free[k].at \in Nat /\ p.free[k].sz \in Nat
  /\ p.free[k].at \in Ats(p.free) /\ p.free[k].at \notin Ats(p.used)
  /\ Ats(w.free) \cup Ats(w.used) = Ats(p.free) \cup Ats(p.used)
  /\ \A x, m : InUse(p, x, m) => InUse(w, x, m)
  /\ \A m : p.free[k].sz >= m => InUse(w, p.free[k].at, m)

LEMMA TakenFact ==
    ASSUME NEW h, NEW p, PoolOK(h, p), NEW k \in DOMAIN p.free, NEW w,
           w = [free |-> RemoveAt(p.free, k), used |-> Append(p.used, p.free[k])]
    PROVE  TakenOK(h, p, k, w)
<1>1. PICK f, u : f = p.free /\ u = p.used
  OBVIOUS
<1>2. /\ f \in Seq(Node) /\ u \in Seq(Node) /\ Distinct(f) /\ Distinct(u)
      /\ Ats(f) \cap Ats(u) = {} /\ k \in DOMAIN f
  BY <1>1 DEF PoolOK
<1>3. PICK n, g, v : n = f[k] /\ g = RemoveAt(f, k) /\ v = Append(u, n)
  OBVIOUS
<1>4. /\ n \in Node /\ n.at \in Nat /\ n.sz \in Nat
      /\ n.at \in Ats(f) /\ n.at \notin Ats(u) /\ MovedTo(f, u, n, g, v)
  BY <1>2, <1>3, MoveFact
<1>5. w = [free |-> g, used |-> v] /\ w.free = g /\ w.used = v
  BY <1>1, <1>3
<1>6. /\ \A j \in DOMAIN f : \E b \in h.live : b.at = f[j].at /\ b.sz = f[j].sz
      /\ \A j \in DOMAIN u : \E b \in h.live : b.at = u[j].at /\ b.sz = u[j].sz
  BY <1>1, NodesLive
<1>7. \E b \in h.live : b.at = n.at /\ b.sz = n.sz
  BY <1>2, <1>3, <1>6
<1>8. \A i \in DOMAIN g : \E b \in h.live : b.at = g[i].at /\ b.sz = g[i].sz
  <2>1. \A i \in DOMAIN g : \E j \in DOMAIN f : g[i] = f[j]
    BY <1>4 DEF MovedTo
  <2>2. QED  BY <1>6, <2>1
<1>9. \A i \in DOMAIN v : \E b \in h.live : b.at = v[i].at /\ b.sz = v[i].sz
  <2>1. \A i \in DOMAIN v : v[i] = n \/ \E j \in DOMAIN u : v[i] = u[j]
    BY <1>4 DEF MovedTo
  <2>2. QED  BY <1>6, <1>7, <2>1
<1>10. PoolOK(h, w)
  <2>1. /\ g \in Seq(Node) /\ v \in Seq(Node) /\ Distinct(g) /\ Distinct(v)
        /\ Ats(g) \cap Ats(v) = {}
    BY <1>2, <1>4 DEF MovedTo
  <2>2. PoolOK(h, [free |-> g, used |-> v])
    BY <1>8, <1>9, <2>1, PoolMade
  <2>3. QED  BY <1>5, <2>2
<1>11. Ats(g) \cup Ats(v) = Ats(f) \cup Ats(u)
  BY <1>4 DEF MovedTo
<1>12. ASSUME NEW x, NEW m, InUse(p, x, m) PROVE InUse(w, x, m)
  <2>1. PICK j \in DOMAIN u : u[j].at = x /\ u[j].sz >= m
    BY <1>1, <1>12 DEF InUse
  <2>2. PICK i \in DOMAIN v : v[i] = u[j]
    BY <1>4 DEF MovedTo
  <2>3. QED  BY <1>5, <2>1, <2>2 DEF InUse
<1>13. ASSUME NEW m, n.sz >= m PROVE InUse(w, n.at, m)
  <2>1. PICK i \in DOMAIN v : v[i] = n
    BY <1>4 DEF MovedTo
  <2>2. QED  BY <1>5, <1>13, <2>1 DEF InUse
<1>14. QED  BY <1>1, <1>3, <1>4, <1>5, <1>10, <1>11, <1>12, <1>13 DEF TakenOK

\* The thread t takes the node k and has the record r from then on.
TakesNode(t, k, r) ==
  /\ k \in Candidates(th[t].sz, th[t].pinned) /\ pool' = Taken(k)
  /\ th[t].pc \in {"get", "get again"} /\ th' = [th EXCEPT ![t] = r]
  /\ r \in ThRec /\ r.pc = "slot" /\ r.a = pool.free[k].at
  /\ r.own = th[t].own /\ r.in = th[t].in /\ r.out = th[t].out
  /\ r.buf_len = th[t].buf_len /\ r.job = th[t].job /\ r.sz = th[t].sz
  /\ r.open = th[t].open
  /\ heap' = heap /\ tab' = tab /\ table' = table

LEMMA TakenStep ==
    ASSUME Owned, NEW t \in Threads, NEW k, NEW r, TakesNode(t, k, r)
    PROVE  Owned'
<1>1. PICK q, a : q = th[t] /\ a = pool.free[k].at
  OBVIOUS
<1>t. /\ k \in Candidates(q.sz, q.pinned) /\ pool' = Taken(k)
      /\ q.pc \in {"get", "get again"} /\ th' = [th EXCEPT ![t] = r]
      /\ r \in ThRec /\ r.pc = "slot" /\ r.a = a
      /\ r.own = q.own /\ r.in = q.in /\ r.out = q.out /\ r.buf_len = q.buf_len
      /\ r.job = q.job /\ r.sz = q.sz /\ r.open = q.open
      /\ heap' = heap /\ tab' = tab /\ table' = table
  BY <1>1 DEF TakesNode
<1>2. /\ Local(q, heap, pool) /\ PoolOK(heap, pool) /\ Control(q) /\ q \in ThRec
      /\ q.pc \in {"get", "get again"}
  BY <1>t, <1>1 DEF Owned, Control
<1>3. PICK s : a = pool.free[k].at /\ s = pool.free[k].sz
  BY <1>1
<1>4. k \in DOMAIN pool.free /\ q.sz <= s
  BY <1>t, <1>3 DEF Candidates
<1>5. /\ PoolOK(heap, pool') /\ a \in Nat /\ s \in Nat
      /\ a \in Ats(pool.free) /\ a \notin Ats(pool.used)
      /\ Ats(pool'.free) \cup Ats(pool'.used) = Ats(pool.free) \cup Ats(pool.used)
      /\ \A x, m : InUse(pool, x, m) => InUse(pool', x, m)
      /\ \A m : s >= m => InUse(pool', a, m)
  <2>1. pool' = [free |-> RemoveAt(pool.free, k), used |-> Append(pool.used, pool.free[k])]
    BY <1>t DEF Taken
  <2>2. TakenOK(heap, pool, k, pool')
    BY <1>2, <1>4, <2>1, TakenFact
  <2>3. QED  BY <1>3, <2>2 DEF TakenOK
<1>6. /\ r \in ThRec /\ r.pc = "slot" /\ r.a = a /\ a # NULL
      /\ r.own = q.own /\ r.in = q.in /\ r.out = q.out /\ r.buf_len = q.buf_len
      /\ r.job = q.job /\ r.sz = q.sz /\ r.open = q.open
  <2>1. a \in Nat
    BY <1>5
  <2>2. a # NULL
    BY <2>1, NotNull
  <2>3. QED  BY <1>t, <2>2
<1>7. q.job = "stream" /\ q.sz > 0 /\ q.sz = q.buf_len
  BY <1>2 DEF Control
<1>8. Control(r)
  BY <1>2, <1>6, <1>7 DEF Control, Busy
<1>9. Priv(r) = Priv(q) /\ Strm(r) = Strm(q) \cup {a}
  BY <1>2, <1>6 DEF Priv, Strm
<1>10. Local(r, heap, pool')
  <2>1. InUse(pool', a, r.buf_len)
    <3>1. s >= r.buf_len
      BY <1>4, <1>5, <1>6, <1>7
    <3>2. QED  BY <1>5, <3>1
  <2>2. \A x \in Strm(r) : InUse(pool', x, r.buf_len)
    BY <1>2, <1>5, <1>6, <1>9, <2>1 DEF Local
  <2>3. Strm(q) \subseteq Ats(pool.used)
    BY <1>2, RefsLive
  <2>4. r.a \notin {r.in, r.out}
    BY <1>5, <1>6, <2>3 DEF Strm
  <2>5. Priv(r) \cap (Ats(pool'.free) \cup Ats(pool'.used)) = {}
    BY <1>2, <1>5, <1>9 DEF Local
  <2>6. Priv(r) \subseteq LiveAt(heap) /\ (r.in # NULL => r.in # r.out)
    BY <1>2, <1>6, <1>9 DEF Local
  <2>7. QED  BY <1>6, <2>2, <2>4, <2>5, <2>6 DEF Local
<1>11. Ats(pool'.free) \cup Ats(pool'.used)
         = Ats(pool.free) \cup Ats(pool.used) \cup (Priv(q) \ Priv(r))
  BY <1>5, <1>9
<1>12. /\ Priv(r) \subseteq Priv(q)
       /\ Strm(r) \subseteq Strm(q) \cup Ats(pool.free)
       /\ r.pc \notin {"device", "alloc", "register", "store"}
       /\ q.pc \notin {"register", "store"}
  BY <1>2, <1>5, <1>6, <1>9
<1>13. QED  BY <1>t, <1>1, <1>5, <1>8, <1>10, <1>11, <1>12, PoolStep

LEMMA GetNodeStep == ASSUME Owned, NEW t \in Threads, GetNode(t) PROVE Owned'
<1>1. PICK q : q = th[t]
  OBVIOUS
<1>2. /\ q.pc \in {"get", "get again"} /\ heap' = heap /\ tab' = tab /\ table' = table
      /\ \/ \E k \in Candidates(q.sz, q.pinned) :
              /\ pool' = Taken(k)
              /\ th' = [th EXCEPT ![t] = [q EXCEPT !.pc = "slot",
                                                   !.a = pool.free[k].at]]
         \/ /\ pool' = pool
            /\ th' = [th EXCEPT ![t] =
                        IF q.pc = "get" THEN [q EXCEPT !.pc = "malloc", !.nodes = 0]
                        ELSE [q EXCEPT !.pc = "slot", !.a = NULL]]
  BY <1>1 DEF GetNode, Step
<1>3. CASE \E k \in Candidates(q.sz, q.pinned) :
              /\ pool' = Taken(k)
              /\ th' = [th EXCEPT ![t] = [q EXCEPT !.pc = "slot",
                                                   !.a = pool.free[k].at]]
  <2>1. PICK k, a, r :
          /\ k \in Candidates(q.sz, q.pinned)
          /\ pool' = Taken(k) /\ a = pool.free[k].at /\ th' = [th EXCEPT ![t] = r]
          /\ r = [q EXCEPT !.pc = "slot", !.a = a]
    BY <1>3
  <2>2. Control(q) /\ q \in ThRec /\ PoolOK(heap, pool) /\ k \in DOMAIN pool.free
    BY <1>1, <2>1 DEF Owned, Control, Candidates
  <2>3. a \in Addr
    <3>1. pool.free[k] \in Node
      BY <2>2 DEF PoolOK
    <3>2. QED  BY <2>1, <3>1 DEF Node, Addr
  <2>4. /\ r \in ThRec /\ r.pc = "slot" /\ r.a = a
        /\ r.own = q.own /\ r.in = q.in /\ r.out = q.out /\ r.buf_len = q.buf_len
        /\ r.job = q.job /\ r.sz = q.sz /\ r.open = q.open
    BY <2>1, <2>2, <2>3 DEF ThRec
  <2>5. TakesNode(t, k, r)
    <3>1. /\ pool' = Taken(k) /\ r.a = pool.free[k].at /\ th' = [th EXCEPT ![t] = r]
      BY <2>1, <2>4
    <3>2. QED  BY <1>1, <1>2, <2>1, <2>4, <3>1 DEF TakesNode
  <2>6. QED  BY <2>5, TakenStep
<1>4. CASE /\ pool' = pool
           /\ th' = [th EXCEPT ![t] =
                       IF q.pc = "get" THEN [q EXCEPT !.pc = "malloc", !.nodes = 0]
                       ELSE [q EXCEPT !.pc = "slot", !.a = NULL]]
  <2>1. PICK r : r = IF q.pc = "get" THEN [q EXCEPT !.pc = "malloc", !.nodes = 0]
                     ELSE [q EXCEPT !.pc = "slot", !.a = NULL]
    OBVIOUS
  <2>2. Control(q) /\ q \in ThRec /\ tab \in TabRec
    BY <1>1 DEF Owned, Control, TableOK
  <2>3. /\ r \in ThRec /\ r.pc \in {"malloc", "slot"}
        /\ r.pc = "slot" => r.a = NULL
        /\ r.own = q.own /\ r.in = q.in /\ r.out = q.out /\ r.buf_len = q.buf_len
        /\ r.job = q.job /\ r.sz = q.sz /\ r.open = q.open
    <3>1. CASE q.pc = "get"
      <4>1. r = [q EXCEPT !.pc = "malloc", !.nodes = 0]
        BY <2>1, <3>1
      <4>2. QED  BY <2>2, <4>1 DEF ThRec, Busy
    <3>2. CASE q.pc # "get"
      <4>1. PICK x \in Addr : x = NULL
        BY DEF Addr
      <4>2. r = [q EXCEPT !.pc = "slot", !.a = x]
        BY <2>1, <3>2, <4>1
      <4>3. QED  BY <2>2, <4>1, <4>2 DEF ThRec
    <3>3. QED  BY <3>1, <3>2
  <2>4. Control(r)
    BY <1>2, <2>2, <2>3 DEF Control, Busy
  <2>5. /\ q.pc \notin Holding /\ r.pc \notin {"device", "alloc"}
        /\ r.pc \in Holding => r.pc \in {"got", "slot"} /\ r.a = NULL
    BY <1>2, <2>3 DEF Holding
  <2>6. th' = [th EXCEPT ![t] = r] /\ pool' = pool
    BY <1>4, <2>1
  <2>7. QED  BY <1>1, <1>2, <2>2, <2>3, <2>4, <2>5, <2>6, QuietStep
<1>5. QED  BY <1>2, <1>3, <1>4

LEMMA AddNodeStep == ASSUME Owned, NEW t \in Threads, AddNode(t) PROVE Owned'
<1>1. PICK q : q = th[t]
  OBVIOUS
<1>2. /\ q.pc = "got" /\ q.job = "stream" /\ heap' = heap /\ tab' = tab /\ table' = table
      /\ IF q.a = NULL
         THEN /\ th' = [th EXCEPT ![t] = [q EXCEPT !.pc = "get again"]]
              /\ pool' = pool
         ELSE /\ pool' = [pool EXCEPT !.free =
                            Append(@, [at |-> q.a, sz |-> q.sz, pinned |-> q.pinned])]
              /\ th' = [th EXCEPT ![t] = [q EXCEPT !.nodes = @ + 1,
                          !.pc = IF q.nodes + 1 < ListSz THEN "malloc" ELSE "get again"]]
  BY <1>1 DEF AddNode, Step, At
<1>3. /\ Local(q, heap, pool) /\ PoolOK(heap, pool) /\ Control(q) /\ q \in ThRec
      /\ TableOK /\ tab \in TabRec
  BY <1>1 DEF Owned, Control, TableOK
<1>4. CASE q.a = NULL
  <2>1. PICK r : r = [q EXCEPT !.pc = "get again"] /\ th' = [th EXCEPT ![t] = r]
    BY <1>2, <1>4
  <2>2. /\ r \in ThRec /\ r.pc = "get again" /\ r.a = q.a
        /\ r.own = q.own /\ r.in = q.in /\ r.out = q.out /\ r.buf_len = q.buf_len
        /\ r.job = q.job /\ r.sz = q.sz /\ r.open = q.open
    BY <1>3, <2>1 DEF ThRec
  <2>3. Control(r)
    BY <1>2, <1>3, <2>2 DEF Control, Busy
  <2>4. Priv(r) = Priv(q) /\ Strm(r) = Strm(q) /\ InFlight(q) = {}
    BY <1>2, <1>4, <2>2 DEF Priv, Strm, InFlight
  <2>5. Local(r, heap, pool)
    BY <1>3, <2>2, <2>4 DEF Local
  <2>6. TableOK'
    <3>1. /\ table' \subseteq DriverPages /\ (~tab'.init => table' = {})
          /\ r.pc \notin {"device", "alloc", "register", "store"}
      BY <1>2, <1>3, <2>2 DEF TableOK
    <3>2. QED  BY <1>2, <1>3, <2>1, <3>1, TableStep
  <2>7. Registered'
    BY <1>1, <1>2, <2>1, <2>4, RegStep
  <2>8. pool' = pool
    BY <1>2, <1>4
  <2>9. QED  BY <1>1, <1>2, <2>1, <2>3, <2>4, <2>5, <2>6, <2>7, <2>8, SameHolding
<1>5. CASE q.a # NULL
  <2>1. q.a \in Nat /\ q.sz \in Nat \ {0}
    BY <1>2, <1>3, <1>5, HeldSize
  <2>2. PICK n : n = [at |-> q.a, sz |-> q.sz, pinned |-> q.pinned]
    OBVIOUS
  <2>3. n \in Node /\ n.at = q.a /\ n.sz = q.sz
    <3>1. q.pinned \in BOOLEAN
      BY <1>3 DEF ThRec
    <3>2. QED  BY <2>1, <2>2, <3>1 DEF Node
  <2>4. PICK f, u, g : f = pool.free /\ u = pool.used /\ g = Append(f, n)
    OBVIOUS
  <2>5. /\ f \in Seq(Node) /\ u \in Seq(Node) /\ Distinct(f) /\ Distinct(u)
        /\ Ats(f) \cap Ats(u) = {} /\ pool = [free |-> f, used |-> u]
    BY <1>3, <2>4 DEF PoolOK
  <2>6. pool' = [free |-> g, used |-> u] /\ pool'.free = g /\ pool'.used = u
    <3>1. pool' = [pool EXCEPT !.free = g]
      BY <1>2, <1>5, <2>2, <2>4
    <3>2. QED  BY <2>5, <3>1
  <2>7. q.a \in Priv(q)
    BY <1>2, <1>5 DEF Priv
  <2>8. q.a \notin Ats(f) \cup Ats(u)
    BY <1>3, <2>4, <2>7 DEF Local
  <2>9. Appended(f, n, g)
    BY <2>3, <2>4, <2>5, AppendFact
  <2>10. g \in Seq(Node) /\ Distinct(g) /\ Ats(g) = Ats(f) \cup {q.a}
    BY <2>3, <2>5, <2>8, <2>9 DEF Appended
  <2>11. PoolOK(heap, pool')
    <3>1. /\ \A k \in DOMAIN f : \E b \in heap.live : b.at = f[k].at /\ b.sz = f[k].sz
          /\ \A k \in DOMAIN u : \E b \in heap.live : b.at = u[k].at /\ b.sz = u[k].sz
      BY <1>3, <2>4, NodesLive
    <3>2. \E b \in heap.live : b.at = n.at /\ b.sz = n.sz
      BY <1>2, <1>3, <1>5, <2>3 DEF Local
    <3>3. \A k \in DOMAIN g : \E b \in heap.live : b.at = g[k].at /\ b.sz = g[k].sz
      <4>1. \A k \in DOMAIN g : g[k] = n \/ \E j \in DOMAIN f : g[k] = f[j]
        BY <2>9 DEF Appended
      <4>2. QED  BY <3>1, <3>2, <4>1
    <3>4. Ats(g) \cap Ats(u) = {}
      BY <2>5, <2>8, <2>10
    <3>5. PoolOK(heap, [free |-> g, used |-> u])
      BY <2>5, <2>10, <3>1, <3>3, <3>4, PoolMade
    <3>6. QED  BY <2>6, <3>5
  <2>12. PICK pc, m, r :
           /\ pc \in {"malloc", "get again"} /\ m \in Nat
           /\ r = [q EXCEPT !.nodes = m, !.pc = pc] /\ th' = [th EXCEPT ![t] = r]
    <3>0. q.nodes \in Nat
      BY <1>3 DEF ThRec
    <3>1. q.nodes + 1 \in Nat
      BY <3>0
    <3>2. (IF q.nodes + 1 < ListSz THEN "malloc" ELSE "get again") \in {"malloc", "get again"}
      OBVIOUS
    <3>3. QED  BY <1>2, <1>5, <3>1, <3>2
  <2>13. /\ r \in ThRec /\ r.pc \in {"malloc", "get again"} /\ r.a = q.a
         /\ r.own = q.own /\ r.in = q.in /\ r.out = q.out /\ r.buf_len = q.buf_len
         /\ r.job = q.job /\ r.sz = q.sz /\ r.open = q.open
    BY <1>3, <2>12 DEF ThRec, Busy
  <2>14. Control(r)
    BY <1>2, <1>3, <2>13 DEF Control, Busy
  <2>15. /\ Priv(q) = ({q.own} \ {NULL}) \cup {q.a} /\ Priv(r) = {q.own} \ {NULL}
         /\ Strm(r) = Strm(q)
    BY <1>2, <1>5, <2>13 DEF Priv, Strm
  <2>16. q.a # q.own
    BY <1>2, <1>3, <1>5 DEF Local
  <2>17. Local(r, heap, pool')
    <3>1. \A x, k : InUse(pool, x, k) <=> InUse(pool', x, k)
      BY <2>4, <2>6 DEF InUse
    <3>2. \A x \in Strm(r) : InUse(pool', x, r.buf_len)
      BY <1>3, <2>13, <2>15, <3>1 DEF Local
    <3>3. Priv(r) \cap (Ats(pool'.free) \cup Ats(pool'.used)) = {}
      BY <1>3, <2>4, <2>6, <2>10, <2>15, <2>16 DEF Local
    <3>4. Priv(r) \subseteq LiveAt(heap) /\ (r.in # NULL => r.in # r.out)
      BY <1>3, <2>13, <2>15 DEF Local
    <3>5. QED  BY <2>13, <3>2, <3>3, <3>4 DEF Local
  <2>18. \A x, k : InUse(pool, x, k) => InUse(pool', x, k)
    BY <2>4, <2>6 DEF InUse
  <2>19. Ats(pool'.free) \cup Ats(pool'.used)
           = Ats(pool.free) \cup Ats(pool.used) \cup (Priv(q) \ Priv(r))
    BY <2>4, <2>6, <2>10, <2>15, <2>16
  <2>20. /\ Priv(r) \subseteq Priv(q) /\ Strm(r) \subseteq Strm(q) \cup Ats(pool.free)
         /\ r.pc \notin {"device", "alloc", "register", "store"}
         /\ q.pc \notin {"register", "store"} /\ th' = [th EXCEPT ![t] = r]
    BY <1>2, <2>12, <2>13, <2>15
  <2>21. QED  BY <1>1, <1>2, <2>11, <2>14, <2>17, <2>18, <2>19, <2>20, PoolStep
<1>6. QED  BY <1>4, <1>5

-----------------------------------------------------------------------------
(* initStream.                                                             *)

\* The buffers of the stream after a slot are among those before it.
LEMMA SlotHeld ==
    ASSUME NEW r, NEW q, Control(q), Local(q, heap, pool), q.pc = "slot",
           Control(r), r.pc \in {"idle", "get"}, r.own = q.own,
           {r.in, r.out} \subseteq {q.in, q.out, q.a, NULL},
           r.in # NULL => r.in # r.out,
           r.buf_len = q.buf_len \/ (r.in = NULL /\ r.out = NULL)
    PROVE  Local(r, heap, pool) /\ Priv(r) = Priv(q) /\ Strm(r) \subseteq Strm(q)
<1>1. Priv(r) = Priv(q) /\ Strm(r) \subseteq Strm(q)
  BY DEF Priv, Strm
<1>2. \A a \in Strm(r) : InUse(pool, a, r.buf_len)
  <2>1. CASE r.buf_len = q.buf_len
    BY <1>1, <2>1 DEF Local
  <2>2. CASE r.in = NULL /\ r.out = NULL
    <3>1. Strm(r) = {}
      BY <2>2 DEF Strm
    <3>2. QED  BY <3>1
  <2>3. QED  BY <2>1, <2>2
<1>3. Local(r, heap, pool)
  BY <1>1, <1>2 DEF Local
<1>4. QED  BY <1>1, <1>3

LEMMA SlotMoves ==
    ASSUME Owned, NEW t \in Threads, NEW r, NEW q, q = th[t],
           q.pc = "slot", th' = [th EXCEPT ![t] = r], heap' = heap, pool' = pool,
           tab' = tab, table' = table,
           Control(r), r.pc \in {"idle", "get"}, r.own = q.own,
           {r.in, r.out} \subseteq {q.in, q.out, q.a, NULL},
           r.in # NULL => r.in # r.out,
           r.buf_len = q.buf_len \/ (r.in = NULL /\ r.out = NULL)
    PROVE  Owned'
<1>1. Control(q) /\ Local(q, heap, pool) /\ TableOK /\ tab \in TabRec
  BY DEF Owned, TableOK
<1>2. Local(r, heap, pool) /\ Priv(r) = Priv(q) /\ Strm(r) \subseteq Strm(q)
  BY <1>1, SlotHeld
<1>3. TableOK'
  <2>1. /\ table' \subseteq DriverPages /\ (~tab'.init => table' = {})
        /\ r.pc \notin {"device", "alloc", "register", "store"}
    BY <1>1 DEF TableOK
  <2>2. QED  BY <1>1, <2>1, TableStep
<1>4. Registered'
  <2>1. InFlight(th[t]) = {}
    BY DEF InFlight
  <2>2. QED  BY <2>1, RegStep
<1>5. QED  BY <1>2, <1>3, <1>4, SameHolding

LEMMA SlotStep ==
    ASSUME Owned, NEW t \in Threads, Slot(t), run \in RunRec, ~run'.undone
    PROVE  Owned'
<1> DEFINE s == th[t].slot
           In == IF s \in {1, 3} THEN th[t].a ELSE th[t].in
           Out == IF s \in {2, 4} THEN th[t].a ELSE th[t].out
           Later == {n \in s + 1 .. 4 : \/ n = 2 \/ (n = 3 /\ In = NULL)
                                        \/ (n = 4 /\ Out = NULL)}
           Held == [th[t] EXCEPT !.in = In, !.out = Out, !.a = NULL]
           First == CHOOSE n \in Later : \A m \in Later : n <= m
           Got2 == {In, Out} \ {NULL}
<1>1. /\ th[t].pc = "slot" /\ tab' = tab /\ table' = table /\ pool' = pool
      /\ IF Later # {}
         THEN /\ Step(t, [Held EXCEPT !.pc = "get", !.slot = First,
                                      !.pinned = First = 2])
              /\ heap' = heap
         ELSE IF In # NULL /\ Out # NULL
         THEN /\ Step(t, [IdleThread EXCEPT !.own = th[t].own, !.open = TRUE, !.in = In,
                                            !.out = Out, !.buf_len = th[t].buf_len])
              /\ heap' = heap
         ELSE /\ Step(t, [IdleThread EXCEPT !.own = th[t].own])
              /\ heap' = IF Got2 = {} THEN heap ELSE Freed(heap, CHOOSE x \in Got2 : TRUE)
              /\ run' = [run EXCEPT !.undone = @ \/ Got2 # {}]
  BY DEF Slot, At
<1>2. PICK q, in, buf, next, n, got :
        /\ q = th[t] /\ in = In /\ buf = Out /\ next = Later /\ n = First /\ got = Got2
  OBVIOUS
<1>3. Control(q) /\ q \in ThRec /\ Local(q, heap, pool) /\ q.pc = "slot"
  BY <1>1, <1>2 DEF Owned, Control
<1>4. q.slot \in Nat /\ q.in \in Addr /\ q.out \in Addr /\ q.a \in Addr /\ NULL \in Addr
  BY <1>3 DEF ThRec, Addr
<1>5. \/ in = q.a /\ buf = q.out
      \/ in = q.in /\ buf = q.a
      \/ in = q.in /\ buf = q.out
  BY <1>2
<1>6. /\ {in, buf} \subseteq {q.in, q.out, q.a, NULL} /\ (in # NULL => in # buf)
      /\ in \in Addr /\ buf \in Addr
  <2>1. (q.in # NULL => q.in # q.out) /\ (q.a # NULL => q.a \notin {q.in, q.out})
    BY <1>3 DEF Local
  <2>2. QED  BY <1>4, <1>5, <2>1
<1>7. next # {} => n \in Nat
  <2>1. next \subseteq {2, 3, 4}
    BY <1>2, <1>4
  <2>2. next # {} => \E x \in next : \A m \in next : x <= m
    <3>1. CASE 2 \in next
      BY <2>1, <3>1
    <3>2. CASE 2 \notin next /\ 3 \in next
      BY <2>1, <3>2
    <3>3. CASE 2 \notin next /\ 3 \notin next
      <4>1. next \subseteq {4}
        BY <2>1, <3>3
      <4>2. next = {4} \/ next = {}
        BY <4>1
      <4>3. QED  BY <4>2
    <3>4. QED  BY <3>1, <3>2, <3>3
  <2>3. n = CHOOSE x \in next : \A m \in next : x <= m
    BY <1>2
  <2>4. next # {} => n \in next
    BY <2>2, <2>3
  <2>5. next # {} => n \in {2, 3, 4}
    BY <2>1, <2>4
  <2>6. QED  BY <2>5
<1> HIDE DEF s, In, Out, Later, Held, First, Got2
<1>8. CASE next # {}
  <2>1. PICK f \in BOOLEAN : f = (n = 2)
    OBVIOUS
  <2>x. PICK x \in Addr : x = NULL
    BY <1>4
  <2>2. PICK r : r = [q EXCEPT !.in = in, !.out = buf, !.a = x, !.pc = "get",
                               !.slot = n, !.pinned = f]
    OBVIOUS
  <2>3. th' = [th EXCEPT ![t] = r] /\ heap' = heap
    <3>1. Held = [q EXCEPT !.in = in, !.out = buf, !.a = NULL]
      BY <1>2 DEF Held
    <3>2. th' = [th EXCEPT ![t] = [Held EXCEPT !.pc = "get", !.slot = n, !.pinned = f]]
          /\ heap' = heap
      BY <1>1, <1>2, <1>8, <2>1 DEF Step
    <3>3. QED  BY <2>x, <2>2, <3>1, <3>2
  <2>4. n \in Nat
    BY <1>7, <1>8
  <2>5. /\ r \in ThRec /\ r.pc = "get" /\ r.in = in /\ r.out = buf
        /\ r.own = q.own /\ r.buf_len = q.buf_len
        /\ r.job = q.job /\ r.sz = q.sz /\ r.open = q.open
    BY <1>3, <1>6, <2>1, <2>2, <2>4 DEF ThRec
  <2>6. Control(r)
    BY <1>3, <2>5 DEF Control, Busy
  <2>7. {r.in, r.out} \subseteq {q.in, q.out, q.a, NULL} /\ (r.in # NULL => r.in # r.out)
    BY <1>6, <2>5
  <2>8. q = th[t] /\ q.pc = "slot" /\ tab' = tab /\ table' = table /\ pool' = pool
    BY <1>1, <1>2
  <2>9. QED  BY <2>3, <2>5, <2>6, <2>7, <2>8, SlotMoves
<1>9. CASE next = {} /\ in # NULL /\ buf # NULL
  <2>1. PICK r : r = [IdleThread EXCEPT !.own = q.own, !.open = TRUE, !.in = in,
                                            !.out = buf, !.buf_len = q.buf_len]
    OBVIOUS
  <2>2. th' = [th EXCEPT ![t] = r] /\ heap' = heap
    BY <1>1, <1>2, <1>9, <2>1 DEF Step
  <2>3. q.own \in Addr /\ q.buf_len \in Nat
    BY <1>3 DEF ThRec
  <2>4. /\ r \in ThRec /\ r.pc = "idle" /\ r.in = in /\ r.out = buf
        /\ r.own = q.own /\ r.buf_len = q.buf_len
        /\ r.job = "none" /\ r.open = TRUE
    BY <1>4, <1>6, <2>1, <2>3 DEF ThRec, IdleThread, None
  <2>5. Control(r)
    BY <1>9, <2>4 DEF Control, Busy
  <2>6. {r.in, r.out} \subseteq {q.in, q.out, q.a, NULL} /\ (r.in # NULL => r.in # r.out)
    BY <1>6, <2>4
  <2>7. q = th[t] /\ q.pc = "slot" /\ tab' = tab /\ table' = table /\ pool' = pool
    BY <1>1, <1>2
  <2>8. QED  BY <2>2, <2>4, <2>5, <2>6, <2>7, SlotMoves
<1>10. CASE next = {} /\ ~(in # NULL /\ buf # NULL)
  <2>1. PICK r : r = [IdleThread EXCEPT !.own = q.own]
    OBVIOUS
  <2>2. /\ th' = [th EXCEPT ![t] = r]
        /\ heap' = IF got = {} THEN heap ELSE Freed(heap, CHOOSE x \in got : TRUE)
        /\ run' = [run EXCEPT !.undone = @ \/ got # {}]
    BY <1>1, <1>2, <1>10, <2>1 DEF Step
  <2>3. got = {}
    <3>1. PICK f \in BOOLEAN : f = (run.undone \/ got # {})
      OBVIOUS
    <3>2. run' = [run EXCEPT !.undone = f]
      BY <2>2, <3>1
    <3>3. run'.undone = f
      BY <3>2 DEF RunRec
    <3>4. QED  BY <3>1, <3>3
  <2>4. q.own \in Addr
    BY <1>3 DEF ThRec
  <2>5. /\ r \in ThRec /\ r.pc = "idle" /\ r.in = NULL /\ r.out = NULL
        /\ r.own = q.own /\ r.job = "none" /\ r.open = FALSE
    BY <1>4, <2>1, <2>4 DEF ThRec, IdleThread, None
  <2>6. Control(r)
    BY <2>5 DEF Control, Busy
  <2>7. heap' = heap
    BY <2>2, <2>3
  <2>8. {r.in, r.out} \subseteq {q.in, q.out, q.a, NULL} /\ (r.in # NULL => r.in # r.out)
    BY <2>5
  <2>9. q = th[t] /\ q.pc = "slot" /\ tab' = tab /\ table' = table /\ pool' = pool
    BY <1>1, <1>2
  <2>10. QED  BY <2>2, <2>5, <2>6, <2>7, <2>8, <2>9, SlotMoves
<1>11. QED  BY <1>8, <1>9, <1>10

-----------------------------------------------------------------------------
(* qzEndStream.                                                            *)

\* What giving back the buffer a does to the pool p and the heap h.
BackOK(p, h, a, w, g) ==
  /\ HeapOK(g) /\ PoolOK(g, w) /\ g.live \subseteq h.live
  /\ LiveAt(g) \subseteq LiveAt(h) /\ (a \in LiveAt(g) => a \in Ats(w.free))
  /\ Ats(p.free) \subseteq Ats(w.free) /\ Ats(w.used) = Ats(p.used) \ {a}
  /\ \A r : (Local(r, h, p) /\ a \notin Strm(r)) => Local(r, g, w)

\* Enough for the threads that do not hold the buffer.
GaveUp(h, p, a, w, g) ==
  /\ a \in Ats(p.used) /\ Ats(w.free) \subseteq Ats(p.free) \cup {a}
  /\ Ats(w.used) \subseteq Ats(p.used)
  /\ \A x, m : (x # a /\ InUse(p, x, m)) => InUse(w, x, m)
  /\ \A r : (Local(r, h, p) /\ a \notin Priv(r)) => Local(r, g, p)

LEMMA OthersKept ==
    ASSUME NEW h, NEW p, NEW g, NEW w, NEW a, GaveUp(h, p, a, w, g)
    PROVE  \A r : (Local(r, h, p) /\ a \notin Strm(r)) => Local(r, g, w)
<1> SUFFICES ASSUME NEW r, Local(r, h, p), a \notin Strm(r) PROVE Local(r, g, w)
  OBVIOUS
<1>1. a \notin Priv(r)
  BY DEF Local, GaveUp
<1>2. Local(r, g, p)
  BY <1>1 DEF GaveUp
<1>3. Priv(r) \cap (Ats(w.free) \cup Ats(w.used)) = {}
  BY <1>1, <1>2 DEF Local, GaveUp
<1>4. \A x \in Strm(r) : InUse(w, x, r.buf_len)
  BY <1>2 DEF Local, GaveUp
<1>5. QED  BY <1>2, <1>3, <1>4 DEF Local

LEMMA KeptBack ==
    ASSUME NEW h, HeapOK(h), NEW p, PoolOK(h, p), NEW k \in DOMAIN p.used, NEW w, NEW a,
           a = p.used[k].at,
           w = [used |-> RemoveAt(p.used, k), free |-> Append(p.free, p.used[k])]
    PROVE  BackOK(p, h, a, w, h)
<1>1. PICK f, u : f = p.free /\ u = p.used
  OBVIOUS
<1>2. /\ f \in Seq(Node) /\ u \in Seq(Node) /\ Distinct(f) /\ Distinct(u)
      /\ Ats(u) \cap Ats(f) = {} /\ k \in DOMAIN u
  BY <1>1 DEF PoolOK
<1>3. PICK n, g, v : n = u[k] /\ g = RemoveAt(u, k) /\ v = Append(f, n)
  OBVIOUS
<1>4. /\ n \in Node /\ n.at \in Nat /\ n.sz \in Nat /\ n.at = a
      /\ n.at \in Ats(u) /\ n.at \notin Ats(f) /\ MovedTo(u, f, n, g, v)
  BY <1>1, <1>2, <1>3, MoveFact
<1>5. w = [free |-> v, used |-> g] /\ w.free = v /\ w.used = g
  BY <1>1, <1>3
<1>6. /\ \A j \in DOMAIN f : \E b \in h.live : b.at = f[j].at /\ b.sz = f[j].sz
      /\ \A j \in DOMAIN u : \E b \in h.live : b.at = u[j].at /\ b.sz = u[j].sz
  BY <1>1, NodesLive
<1>7. \E b \in h.live : b.at = n.at /\ b.sz = n.sz
  BY <1>2, <1>3, <1>6
<1>8. \A i \in DOMAIN g : \E b \in h.live : b.at = g[i].at /\ b.sz = g[i].sz
  <2>1. \A i \in DOMAIN g : \E j \in DOMAIN u : g[i] = u[j]
    BY <1>4 DEF MovedTo
  <2>2. QED  BY <1>6, <2>1
<1>9. \A i \in DOMAIN v : \E b \in h.live : b.at = v[i].at /\ b.sz = v[i].sz
  <2>1. \A i \in DOMAIN v : v[i] = n \/ \E j \in DOMAIN f : v[i] = f[j]
    BY <1>4 DEF MovedTo
  <2>2. QED  BY <1>6, <1>7, <2>1
<1>10. /\ g \in Seq(Node) /\ v \in Seq(Node) /\ Distinct(g) /\ Distinct(v)
       /\ Ats(g) = Ats(u) \ {a} /\ Ats(v) = Ats(f) \cup {a}
  BY <1>4 DEF MovedTo
<1>11. PoolOK(h, w)
  <2>1. Ats(v) \cap Ats(g) = {}
    BY <1>2, <1>10
  <2>2. PoolOK(h, [free |-> v, used |-> g])
    BY <1>8, <1>9, <1>10, <2>1, PoolMade
  <2>3. QED  BY <1>5, <2>2
<1>12. ASSUME NEW x, NEW m, x # a, InUse(p, x, m) PROVE InUse(w, x, m)
  <2>1. PICK j \in DOMAIN u : u[j].at = x /\ u[j].sz >= m
    BY <1>1, <1>12 DEF InUse
  <2>2. PICK i \in DOMAIN g : g[i] = u[j]
    BY <1>4, <1>12, <2>1 DEF MovedTo
  <2>3. QED  BY <1>5, <2>1, <2>2 DEF InUse
<1>13. /\ a \in Ats(p.used) /\ Ats(w.free) \subseteq Ats(p.free) \cup {a}
       /\ Ats(w.used) \subseteq Ats(p.used)
  BY <1>1, <1>4, <1>5, <1>10
<1>14. \A r : (Local(r, h, p) /\ a \notin Strm(r)) => Local(r, h, w)
  <2>1. GaveUp(h, p, a, w, h)
    BY <1>12, <1>13 DEF GaveUp
  <2>2. QED  BY <2>1, OthersKept
<1>15. QED  BY <1>1, <1>5, <1>10, <1>11, <1>14 DEF BackOK

LEMMA FreedBack ==
    ASSUME NEW h, HeapOK(h), NEW p, PoolOK(h, p), NEW k \in DOMAIN p.used, NEW w, NEW a,
           a = p.used[k].at, w = [p EXCEPT !.used = RemoveAt(p.used, k)]
    PROVE  BackOK(p, h, a, w, Without(h, a))
<1>1. PICK f, u : f = p.free /\ u = p.used
  OBVIOUS
<1>2. /\ f \in Seq(Node) /\ u \in Seq(Node) /\ Distinct(f) /\ Distinct(u)
      /\ Ats(u) \cap Ats(f) = {} /\ k \in DOMAIN u /\ p = [free |-> f, used |-> u]
  BY <1>1 DEF PoolOK
<1>3. PICK n, g, v : n = u[k] /\ g = RemoveAt(u, k) /\ v = Append(f, n)
  OBVIOUS
<1>4. /\ n \in Node /\ n.at = a
      /\ n.at \in Ats(u) /\ n.at \notin Ats(f) /\ MovedTo(u, f, n, g, v)
  BY <1>1, <1>2, <1>3, MoveFact
<1>5. w = [free |-> f, used |-> g] /\ w.free = f /\ w.used = g
  BY <1>1, <1>2, <1>3
<1>6. /\ \A j \in DOMAIN f : \E b \in h.live : b.at = f[j].at /\ b.sz = f[j].sz
      /\ \A j \in DOMAIN u : \E b \in h.live : b.at = u[j].at /\ b.sz = u[j].sz
  BY <1>1, NodesLive
<1>7. \A i \in DOMAIN g : \E b \in h.live : b.at = g[i].at /\ b.sz = g[i].sz
  <2>1. \A i \in DOMAIN g : \E j \in DOMAIN u : g[i] = u[j]
    BY <1>4 DEF MovedTo
  <2>2. QED  BY <1>6, <2>1
<1>8. g \in Seq(Node) /\ Distinct(g) /\ Ats(g) = Ats(u) \ {a}
  BY <1>4 DEF MovedTo
<1>9. PoolOK(h, w)
  <2>1. Ats(f) \cap Ats(g) = {}
    BY <1>2, <1>8
  <2>2. PoolOK(h, [free |-> f, used |-> g])
    BY <1>2, <1>6, <1>7, <1>8, <2>1, PoolMade
  <2>3. QED  BY <1>5, <2>2
<1>10. ASSUME NEW x, NEW m, x # a, InUse(p, x, m) PROVE InUse(w, x, m)
  <2>1. PICK j \in DOMAIN u : u[j].at = x /\ u[j].sz >= m
    BY <1>1, <1>10 DEF InUse
  <2>2. PICK i \in DOMAIN g : g[i] = u[j]
    BY <1>4, <1>10, <2>1 DEF MovedTo
  <2>3. QED  BY <1>5, <2>1, <2>2 DEF InUse
<1>11. PICK l : l = Without(h, a)
  OBVIOUS
<1>12. /\ HeapOK(l) /\ l.live \subseteq h.live /\ LiveAt(l) = LiveAt(h) \ {a}
       /\ PoolOK(l, w)
       /\ \A r : (Local(r, h, p) /\ a \notin Priv(r)) => Local(r, l, p)
  <2>1. a \notin Ats(w.free) \cup Ats(w.used)
    BY <1>4, <1>5, <1>8
  <2>2. QED  BY <1>9, <1>11, <2>1, WithoutFact
<1>13. /\ a \in Ats(p.used) /\ Ats(w.free) \subseteq Ats(p.free) \cup {a}
       /\ Ats(w.used) \subseteq Ats(p.used)
  BY <1>1, <1>4, <1>5, <1>8
<1>14. \A r : (Local(r, h, p) /\ a \notin Strm(r)) => Local(r, l, w)
  <2>1. GaveUp(h, p, a, w, l)
    BY <1>10, <1>12, <1>13 DEF GaveUp
  <2>2. QED  BY <2>1, OthersKept
<1>15. QED  BY <1>1, <1>5, <1>8, <1>11, <1>12, <1>14 DEF BackOK

LEMMA GivenBackFact ==
    ASSUME NEW h, HeapOK(h), NEW p, PoolOK(h, p), table \subseteq DriverPages,
           NEW a, a \in Ats(p.used), NEW R, R = GivenBack(p, h, a),
           \A b \in h.live : (b.at = a /\ b.from = "driver") => Page(b.at) \in table
    PROVE  BackOK(p, h, a, R.pool, R.heap)
<1>1. PICK ks : ks = {k \in DOMAIN p.used : p.used[k].at = a}
  OBVIOUS
<1>2. PICK k \in DOMAIN p.used : p.used[k].at = a
  BY DEF Ats
<1>3. p.used \in Seq(Node) /\ Distinct(p.used) /\ k \in Nat
  BY <1>2 DEF PoolOK
<1>4. ks = {k}
  BY <1>1, <1>2, <1>3 DEF Distinct
<1>5. PICK c : c = CHOOSE i \in ks : \A j \in ks : i <= j
  OBVIOUS
<1>6. c = k
  <2>1. k <= k
    BY <1>3
  <2>2. \E i \in ks : \A j \in ks : i <= j
    BY <1>4, <2>1
  <2>3. c \in ks
    BY <1>5, <2>2
  <2>4. QED  BY <1>4, <2>3
<1>7. R = Returned(p, h, k)
  BY <1>1, <1>4, <1>5, <1>6 DEF GivenBack
<1>8. CASE Len(p.free) >= ListSz
  <2>1. PICK w : w = [p EXCEPT !.used = RemoveAt(p.used, k)]
    OBVIOUS
  <2>2. R = [pool |-> w, heap |-> Freed(h, a)]
    BY <1>2, <1>7, <1>8, <2>1 DEF Returned
  <2>3. PICK b \in h.live : b.at = a
    <3>1. \A j \in DOMAIN p.used : \E b \in h.live : b.at = p.used[j].at
      BY NodesLive
    <3>2. QED  BY <1>2, <3>1
  <2>4. Freed(h, a) = Without(h, a)
    BY <2>3, FreedFact
  <2>5. BackOK(p, h, a, w, Without(h, a))
    BY <1>2, <2>1, FreedBack
  <2>6. R.pool = w /\ R.heap = Without(h, a)
    BY <2>2, <2>4
  <2>7. QED  BY <2>5, <2>6
<1>9. CASE ~(Len(p.free) >= ListSz)
  <2>1. PICK w : w = [used |-> RemoveAt(p.used, k), free |-> Append(p.free, p.used[k])]
    OBVIOUS
  <2>2. R = [pool |-> w, heap |-> h]
    BY <1>7, <1>9, <2>1 DEF Returned
  <2>3. BackOK(p, h, a, w, h)
    BY <1>2, <2>1, KeptBack
  <2>4. R.pool = w /\ R.heap = h
    BY <2>2
  <2>5. QED  BY <2>3, <2>4
<1>10. QED  BY <1>8, <1>9

LEMMA EndStreamStep == ASSUME Owned, NEW t \in Threads, EndStream(t) PROVE Owned'
<1>1. PICK q : q = th[t]
  OBVIOUS
<1>2. PICK one, two, r : /\ one = GivenBack(pool, heap, q.out)
                         /\ two = GivenBack(one.pool, one.heap, q.in)
                         /\ r = [IdleThread EXCEPT !.own = q.own]
  OBVIOUS
<1>3. /\ q.pc = "idle" /\ q.open /\ pool' = two.pool /\ heap' = two.heap
      /\ th' = [th EXCEPT ![t] = r] /\ tab' = tab /\ table' = table
  BY <1>1, <1>2 DEF EndStream, Step, At
<1>4. /\ Control(q) /\ q \in ThRec /\ Local(q, heap, pool) /\ TableOK /\ tab \in TabRec
      /\ HeapOK(heap) /\ PoolOK(heap, pool) /\ table \subseteq DriverPages
      /\ q.in # NULL /\ q.out # NULL /\ q.in # q.out
  <2>1. Control(q) /\ q \in ThRec /\ Local(q, heap, pool) /\ TableOK /\ tab \in TabRec
      /\ HeapOK(heap) /\ PoolOK(heap, pool) /\ table \subseteq DriverPages
    BY <1>1 DEF Owned, Control, TableOK
  <2>2. q.in # NULL /\ q.out # NULL
    BY <1>3, <2>1 DEF Control
  <2>3. q.in # q.out
    BY <2>1, <2>2 DEF Local
  <2>4. QED  BY <2>1, <2>2, <2>3
<1>5. Strm(q) = {q.in, q.out} /\ {q.in, q.out} \subseteq Ats(pool.used)
  <2>1. Strm(q) = {q.in, q.out}
    BY <1>3, <1>4 DEF Strm
  <2>2. Strm(q) \subseteq Ats(pool.used)
    BY <1>4, RefsLive
  <2>3. QED  BY <2>1, <2>2
<1>6. \A b \in heap.live : (b.at \in {q.in, q.out} /\ b.from = "driver")
                             => Page(b.at) \in table
  <2>1. \A u \in Threads : InFlight(th[u]) \subseteq Priv(th[u])
    BY DEF InFlight, Priv
  <2>2. \A u \in Threads : Priv(th[u]) \cap Ats(pool.used) = {}
    BY DEF Owned, Local
  <2>3. \A u \in Threads : \A b \in heap.live :
          b.at \in {q.in, q.out} => b.at \notin InFlight(th[u])
    BY <1>5, <2>1, <2>2
  <2>4. QED  BY <2>3 DEF Owned, Registered
<1>7. BackOK(pool, heap, q.out, one.pool, one.heap)
  <2>1. /\ q.out \in Ats(pool.used)
        /\ \A b \in heap.live : (b.at = q.out /\ b.from = "driver") => Page(b.at) \in table
    BY <1>5, <1>6
  <2>2. QED  BY <1>2, <1>4, <2>1, GivenBackFact
<1>8. BackOK(one.pool, one.heap, q.in, two.pool, two.heap)
  <2>1. /\ HeapOK(one.heap) /\ PoolOK(one.heap, one.pool)
        /\ one.heap.live \subseteq heap.live
        /\ Ats(one.pool.used) = Ats(pool.used) \ {q.out}
    BY <1>7 DEF BackOK
  <2>2. /\ q.in \in Ats(one.pool.used)
        /\ \A b \in one.heap.live : (b.at = q.in /\ b.from = "driver")
                                      => Page(b.at) \in table
    BY <1>4, <1>5, <1>6, <2>1
  <2>3. QED  BY <1>2, <1>4, <2>1, <2>2, GivenBackFact
<1>9. /\ HeapOK(heap') /\ PoolOK(heap', pool') /\ heap'.live \subseteq heap.live
      /\ \A u : (Local(u, heap, pool) /\ q.in \notin Strm(u) /\ q.out \notin Strm(u))
                  => Local(u, heap', pool')
  BY <1>3, <1>7, <1>8 DEF BackOK
<1>10. \A x \in LiveAt(heap') : /\ x \in LiveAt(heap)
                                /\ x \in Ats(pool.used) \cup Ats(pool.free)
                                     => x \in Ats(pool'.used) \cup Ats(pool'.free)
  <2>1. /\ LiveAt(one.heap) \subseteq LiveAt(heap)
        /\ q.out \in LiveAt(one.heap) => q.out \in Ats(one.pool.free)
        /\ Ats(pool.free) \subseteq Ats(one.pool.free)
        /\ Ats(one.pool.used) = Ats(pool.used) \ {q.out}
    BY <1>7 DEF BackOK
  <2>2. /\ LiveAt(heap') \subseteq LiveAt(one.heap)
        /\ q.in \in LiveAt(heap') => q.in \in Ats(pool'.free)
        /\ Ats(one.pool.free) \subseteq Ats(pool'.free)
        /\ Ats(pool'.used) = Ats(one.pool.used) \ {q.in}
    BY <1>3, <1>8 DEF BackOK
  <2>3. SUFFICES ASSUME NEW x \in LiveAt(heap')
                 PROVE  /\ x \in LiveAt(heap)
                        /\ x \in Ats(pool.used) \cup Ats(pool.free)
                             => x \in Ats(pool'.used) \cup Ats(pool'.free)
    OBVIOUS
  <2>4. CASE x = q.out
    BY <2>1, <2>2, <2>3, <2>4
  <2>5. CASE x = q.in
    BY <2>1, <2>2, <2>3, <2>5
  <2>6. CASE x # q.in /\ x # q.out
    BY <2>1, <2>2, <2>3, <2>6
  <2>7. QED  BY <2>4, <2>5, <2>6
<1>11. /\ r \in ThRec /\ r.pc = "idle" /\ r.in = NULL /\ r.out = NULL
       /\ r.own = q.own /\ r.job = "none" /\ r.open = FALSE /\ r.buf_len = 0
  <2>1. q.own \in Addr /\ NULL \in Addr
    BY <1>4 DEF ThRec, Addr
  <2>2. QED  BY <1>2, <2>1 DEF ThRec, IdleThread, None
<1>12. Control(r)
  BY <1>11 DEF Control, Busy
<1>13. Priv(r) = Priv(q) /\ Strm(r) = {}
  BY <1>3, <1>11 DEF Priv, Strm
<1>14. Local(r, heap', pool')
  <2>1. Local(r, heap, pool)
    BY <1>4, <1>11, <1>13 DEF Local
  <2>2. QED  BY <1>9, <1>13, <2>1
<1>15. \A u \in Threads \ {t} : Local(th[u], heap', pool') /\ Apart(r, th[u])
  <2>1. \A u \in Threads \ {t} : Local(th[u], heap, pool) /\ Apart(q, th[u])
    BY <1>1 DEF Owned
  <2>2. \A u \in Threads \ {t} : q.in \notin Strm(th[u]) /\ q.out \notin Strm(th[u])
    BY <1>5, <2>1 DEF Apart, Refs
  <2>3. \A u \in Threads \ {t} : Apart(r, th[u])
    BY <1>13, <2>1 DEF Apart, Refs
  <2>4. QED  BY <1>9, <2>1, <2>2, <2>3
<1>16. Covered(heap', pool', th')
  <2>1. /\ th'[t] = r /\ \A u \in Threads \ {t} : th'[u] = th[u]
    BY <1>3 DEF Owned
  <2>2. \A u \in Threads : Priv(th'[u]) = Priv(th[u])
    BY <1>1, <1>13, <2>1
  <2>3. \A x \in LiveAt(heap) : \/ x \in Ats(pool.free) \/ x \in Ats(pool.used)
                                \/ \E u \in Threads : x \in Priv(th[u])
    BY CoveredElements DEF Owned
  <2>4. \A x \in LiveAt(heap') : \/ x \in Ats(pool'.free) \/ x \in Ats(pool'.used)
                                 \/ \E u \in Threads : x \in Priv(th'[u])
    BY <1>10, <2>2, <2>3
  <2>5. QED  BY <2>4, CoveredElements
<1>17. TableOK'
  <2>1. /\ table' \subseteq DriverPages /\ (~tab'.init => table' = {}) /\ tab' \in TabRec
        /\ r.pc \notin {"device", "alloc", "register", "store"}
    BY <1>3, <1>4, <1>11 DEF TableOK
  <2>2. QED  BY <1>3, <2>1, TableStep
<1>18. Registered'
  <2>1. InFlight(th[t]) = {}
    BY <1>1, <1>3 DEF InFlight
  <2>2. QED  BY <1>3, <1>9, <2>1, RegStep
<1>19. QED  BY <1>3, <1>9, <1>12, <1>14, <1>15, <1>16, <1>17, <1>18, ThreadStep

-----------------------------------------------------------------------------
(* The destructor.                                                         *)

LEMMA ConcatFact ==
    ASSUME NEW u \in Seq(Node), NEW f \in Seq(Node), Distinct(u), Distinct(f),
           Ats(f) \cap Ats(u) = {}, NEW n, n = u \o f
    PROVE  /\ DOMAIN n = 1 .. Len(u) + Len(f) /\ Distinct(n)
           /\ Ats(n) = Ats(u) \cup Ats(f)
<1>1. PICK L, M \in Nat : /\ L = Len(u) /\ M = Len(f)
                          /\ DOMAIN u = 1 .. L /\ DOMAIN f = 1 .. M
  OBVIOUS
<1>2. /\ DOMAIN n = 1 .. L + M
      /\ \A k \in 1 .. L + M : n[k] = IF k <= L THEN u[k] ELSE f[k - L]
  BY <1>1
<1>3. \A k \in 1 .. L + M : IF k <= L THEN k \in 1 .. L ELSE k - L \in 1 .. M
  OBVIOUS
<1>4. Ats(n) \subseteq Ats(u) \cup Ats(f)
  <2>1. SUFFICES ASSUME NEW k \in 1 .. L + M PROVE n[k].at \in Ats(u) \cup Ats(f)
    BY <1>2 DEF Ats
  <2>2. CASE k <= L
    BY <1>1, <1>2, <1>3, <2>2 DEF Ats
  <2>3. CASE ~(k <= L)
    BY <1>1, <1>2, <1>3, <2>3 DEF Ats
  <2>4. QED  BY <2>2, <2>3
<1>5. Ats(u) \cup Ats(f) \subseteq Ats(n)
  <2>1. ASSUME NEW k \in 1 .. L PROVE u[k].at \in Ats(n)
    <3>1. k \in 1 .. L + M /\ k <= L
      OBVIOUS
    <3>2. QED  BY <1>2, <3>1 DEF Ats
  <2>2. ASSUME NEW k \in 1 .. M PROVE f[k].at \in Ats(n)
    <3>1. L + k \in 1 .. L + M /\ ~(L + k <= L) /\ (L + k) - L = k
      OBVIOUS
    <3>2. n[L + k] = f[k]
      BY <1>2, <3>1
    <3>3. QED  BY <1>2, <3>1, <3>2 DEF Ats
  <2>3. QED  BY ZenonT(40), <1>1, <2>1, <2>2 DEF Ats
<1>6. ASSUME NEW j \in 1 .. L + M, NEW k \in 1 .. L + M, j # k
      PROVE  n[j].at # n[k].at
  <2>1. \A i \in 1 .. L : u[i].at \in Ats(u)
    BY <1>1 DEF Ats
  <2>2. \A i \in 1 .. M : f[i].at \in Ats(f)
    BY <1>1 DEF Ats
  <2>3. CASE j <= L /\ k <= L
    <3>1. j \in 1 .. L /\ k \in 1 .. L /\ n[j] = u[j] /\ n[k] = u[k]
      BY <1>2, <1>3, <2>3
    <3>2. QED  BY <1>1, <1>6, <3>1 DEF Distinct
  <2>4. CASE ~(j <= L) /\ ~(k <= L)
    <3>1. /\ j - L \in 1 .. M /\ k - L \in 1 .. M /\ j - L # k - L
          /\ n[j] = f[j - L] /\ n[k] = f[k - L]
      BY SMTT(30), <1>2, <1>3, <1>6, <2>4
    <3>2. QED  BY <1>1, <3>1 DEF Distinct
  <2>5. CASE j <= L /\ ~(k <= L)
    <3>1. n[j].at \in Ats(u) /\ n[k].at \in Ats(f)
      BY <1>2, <1>3, <2>1, <2>2, <2>5
    <3>2. QED  BY <3>1
  <2>6. CASE ~(j <= L) /\ k <= L
    <3>1. n[k].at \in Ats(u) /\ n[j].at \in Ats(f)
      BY <1>2, <1>3, <2>1, <2>2, <2>6
    <3>2. QED  BY <3>1
  <2>7. QED  BY <2>3, <2>4, <2>5, <2>6
<1>7. QED  BY ZenonT(40), <1>1, <1>2, <1>4, <1>5, <1>6 DEF Distinct

LEMMA ExitStep == ASSUME Owned, Exit PROVE Ended'
<1>1. /\ \A t \in Threads : th[t].pc = "idle"
      /\ heap' = FreedAll(heap, Cleanup) /\ th' = th
  BY DEF Exit, At
<1>2. /\ HeapOK(heap) /\ PoolOK(heap, pool) /\ table \subseteq DriverPages
      /\ pool.free \in Seq(Node) /\ pool.used \in Seq(Node)
      /\ Distinct(pool.free) /\ Distinct(pool.used)
      /\ Ats(pool.free) \cap Ats(pool.used) = {}
  BY DEF Owned, TableOK, PoolOK
<1>3. PICK n : n = Cleanup
  OBVIOUS
<1>4. Distinct(n) /\ Ats(n) = Ats(pool.used) \cup Ats(pool.free)
      /\ DOMAIN n = 1 .. Len(pool.used) + Len(pool.free)
  BY <1>2, <1>3, ConcatFact DEF Cleanup
<1>5. \A b \in heap.live : b.from = Deallocator(b.at)
  <2>1. \A u \in Threads : InFlight(th[u]) = {}
    BY <1>1 DEF InFlight
  <2>2. \A b \in heap.live : b.from = "driver" => Page(b.at) \in table
    BY <2>1 DEF Owned, Registered
  <2>3. QED  BY <1>2, <2>2, RightDeallocator
<1> DEFINE Mine(k) == {b \in heap.live : b.at = n[k].at /\ b.from = Deallocator(n[k].at)}
           Again(k) == \E j \in 1 .. k - 1 : n[j].at = n[k].at
           Wrong == {k \in DOMAIN n : Mine(k) = {} \/ Again(k)}
<1>6. heap' = [live |-> heap.live \ UNION {Mine(k) : k \in DOMAIN n},
               wrong |-> heap.wrong \cup {n[k].at : k \in Wrong}]
  BY <1>1, <1>3 DEF FreedAll
<1>7. \A k \in DOMAIN n : Mine(k) # {} /\ ~Again(k)
  <2>1. SUFFICES ASSUME NEW k \in DOMAIN n PROVE Mine(k) # {} /\ ~Again(k)
    OBVIOUS
  <2>2. n[k].at \in LiveAt(heap)
    <3>1. n[k].at \in Ats(n)
      BY DEF Ats
    <3>2. QED  BY <1>2, <1>4, <3>1, RefsLive
  <2>3. PICK b \in heap.live : b.at = n[k].at
    BY <2>2 DEF LiveAt
  <2>4. b \in Mine(k)
    <3>1. b.from = Deallocator(b.at)
      BY <1>5
    <3>2. b.from = Deallocator(n[k].at)
      BY <2>3, <3>1
    <3>3. QED  BY <2>3, <3>2
  <2>5. PICK N \in Int : N = Len(pool.used) + Len(pool.free)
    <3>1. PICK x \in Nat, y \in Nat : x = Len(pool.used) /\ y = Len(pool.free)
      BY <1>2, LenProperties
    <3>2. x + y \in Int
      OBVIOUS
    <3>3. QED  BY <3>1, <3>2
  <2>6. \A j \in 1 .. k - 1 : j \in DOMAIN n /\ j # k
    <3>1. DOMAIN n = 1 .. N
      BY <1>4, <2>5
    <3>2. k \in 1 .. N
      BY <3>1
    <3>3. QED  BY <3>1, <3>2
  <2>7. QED  BY <1>4, <2>4, <2>6 DEF Distinct
<1>8. Wrong = {}
  BY <1>7
<1>9. \A b \in heap.live : b.at \in Ats(n) => b \in UNION {Mine(k) : k \in DOMAIN n}
  <2>1. SUFFICES ASSUME NEW b \in heap.live, b.at \in Ats(n)
                 PROVE  \E k \in DOMAIN n : b \in Mine(k)
    OBVIOUS
  <2>2. PICK k \in DOMAIN n : b.at = n[k].at
    BY <2>1 DEF Ats
  <2>3. QED  BY <1>5, <2>2
<1> HIDE DEF Mine, Again, Wrong
<1>10. heap'.wrong = {}
  <2>1. heap.wrong = {}
    BY <1>2 DEF HeapOK
  <2>2. {n[k].at : k \in Wrong} = {}
    BY <1>8
  <2>3. QED  BY <1>6, <2>1, <2>2
<1>11. ASSUME NEW b \in heap'.live PROVE \E t \in Threads : th'[t].own = b.at
  <2>1. b \in heap.live /\ b.at \notin Ats(n)
    BY <1>6, <1>9
  <2>2. b.at \in LiveAt(heap)
    BY <2>1 DEF LiveAt
  <2>3. \/ b.at \in Ats(pool.free) \/ b.at \in Ats(pool.used)
        \/ \E u \in Threads : b.at \in Priv(th[u])
    BY <2>2, CoveredElements DEF Owned
  <2>4. PICK u \in Threads : b.at \in Priv(th[u])
    BY <1>4, <2>1, <2>3
  <2>5. th[u].own = b.at
    BY <1>1, <2>4 DEF Priv
  <2>6. QED  BY <1>1, <2>5
<1>12. QED  BY <1>10, <1>11 DEF Ended

-----------------------------------------------------------------------------
(* The invariant.                                                          *)

LEMMA InitMInv == Init => MInv
<1> SUFFICES ASSUME Init PROVE MInv
  OBVIOUS
<1>1. /\ heap.live = {} /\ heap.wrong = {} /\ heap = [live |-> {}, wrong |-> {}]
      /\ pool.free = << >> /\ pool.used = << >>
      /\ pool = [free |-> << >>, used |-> << >>]
      /\ th = [t \in Threads |-> IdleThread] /\ table = {}
      /\ tab = [init |-> FALSE, lock |-> None, ready |-> FALSE]
      /\ run = [calls |-> 0, faults |-> 0, undone |-> FALSE, exited |-> FALSE]
  BY DEF Init
<1>2. HeapOK(heap)
  BY <1>1 DEF HeapOK
<1>3. << >> \in Seq(Node) /\ DOMAIN << >> = {} /\ Ats(<< >>) = {} /\ Distinct(<< >>)
  <2>1. << >> \in Seq(Node)
    BY EmptySeq
  <2>2. DOMAIN << >> = {}
    OBVIOUS
  <2>3. QED  BY <2>1, <2>2 DEF Ats, Distinct
<1>4. PoolOK(heap, pool)
  <2>1. PoolOK(heap, [free |-> << >>, used |-> << >>])
    BY <1>3, PoolMade
  <2>2. QED  BY <1>1, <2>1
<1>5. \A t \in Threads : th[t] = IdleThread
  BY <1>1
<1>6. PICK r : r = IdleThread
  OBVIOUS
<1>7. /\ r \in ThRec /\ r.pc = "idle" /\ r.job = "none" /\ r.in = NULL /\ r.out = NULL
      /\ r.own = NULL /\ r.open = FALSE
  <2>1. NULL \in Addr
    BY DEF Addr
  <2>2. QED  BY <1>6, <2>1 DEF ThRec, IdleThread, None
<1>8. Control(r)
  BY <1>7 DEF Control, Busy
<1>9. Priv(r) = {} /\ Strm(r) = {} /\ Refs(r) = {}
  BY <1>7 DEF Priv, Strm, Refs
<1>10. Local(r, heap, pool)
  BY <1>7, <1>9 DEF Local
<1>11. \A t, u \in Threads : t # u => Apart(th[t], th[u])
  BY <1>5, <1>6, <1>9 DEF Apart
<1>12. Covered(heap, pool, th)
  BY <1>1 DEF Covered, LiveAt
<1>13. TableOK
  <2>1. tab \in TabRec /\ ~tab.init
    BY <1>1 DEF TabRec
  <2>2. \A t \in Threads : th[t].pc = "idle"
    BY <1>5, <1>6, <1>7
  <2>3. QED  BY <1>1, <2>1, <2>2 DEF TableOK
<1>14. Registered
  BY <1>1 DEF Registered
<1>15. th = [t \in Threads |-> th[t]]
  BY <1>1
<1>16. Owned
  BY <1>2, <1>4, <1>5, <1>6, <1>8, <1>10, <1>11, <1>12, <1>13, <1>14, <1>15 DEF Owned
<1>17. run \in RunRec /\ ~run.exited
  BY <1>1 DEF RunRec
<1>18. QED  BY <1>16, <1>17 DEF MInv

LEMMA ActStep ==
    ASSUME Owned, run \in RunRec, ~run'.undone, NEW t \in Threads, Act(t)
    PROVE  Owned'
<1>1. CASE TestInit(t) \/ InitTable(t) \/ Device(t) \/ AllocPinned(t) \/ AllocCommon(t)
           \/ AllocFails(t) \/ Register(t) \/ StorePage(t) \/ StoreFails(t)
  BY <1>1, TestInitStep, InitTableStep, DeviceStep, AllocPinnedStep, AllocCommonStep,
     AllocFailsStep, RegisterStep, StorePageStep, StoreFailsStep
<1>2. CASE GetNode(t) \/ AddNode(t) \/ InitStream(t) \/ Slot(t) \/ EndStream(t)
  BY <1>2, GetNodeStep, AddNodeStep, InitStreamStep, SlotStep, EndStreamStep
<1>3. CASE Malloc(t) \/ Got(t) \/ Free(t)
  BY <1>3, MallocStep, GotStep, FreeStep
<1>4. QED  BY <1>1, <1>2, <1>3 DEF Act

\* Nothing happens any more once the process has ended.
LEMMA EndedStays == run.exited => ~Next
<1>1. run.exited => ~Exit
  BY Constants DEF Exit, At
<1>2. ASSUME run.exited, NEW t \in Threads PROVE ~Act(t)
  BY <1>2 DEF Act, At, TestInit, InitTable, Device, AllocPinned, AllocCommon,
       AllocFails, Register, StorePage, StoreFails, GetNode, AddNode, InitStream, Slot,
       EndStream, Malloc, Got, Free
<1>3. QED  BY <1>1, <1>2 DEF Next

LEMMA StutterMInv == MInv /\ UNCHANGED vars => MInv'
<1> SUFFICES ASSUME MInv, UNCHANGED vars PROVE MInv'
  OBVIOUS
<1>1. /\ heap' = heap /\ table' = table /\ tab' = tab /\ pool' = pool /\ th' = th
      /\ run' = run
  BY DEF vars
<1>2. Owned => Owned'
  BY <1>1 DEF Owned, TableOK, Registered, Range2Store, Page, DriverPages, TabRec
<1>3. Ended => Ended'
  BY <1>1 DEF Ended
<1>4. QED  BY <1>1, <1>2, <1>3 DEF MInv, RunRec

LEMMA MInvStep == MInv /\ [Next]_vars => MInv'
<1> SUFFICES ASSUME MInv, Next PROVE MInv'
  BY StutterMInv
<1>1. /\ run \in RunRec /\ run' \in RunRec /\ (run.undone => run'.undone)
      /\ (run'.exited = run.exited \/ Exit)
  BY RunStep DEF MInv
<1>2. ~run.exited
  BY EndedStays
<1>3. SUFFICES ASSUME ~run'.undone PROVE IF run'.exited THEN Ended' ELSE Owned'
  BY <1>1 DEF MInv, RunRec
<1>4. Owned
  BY <1>1, <1>2, <1>3 DEF MInv
<1>5. CASE run'.exited
  <2>1. Exit
    BY <1>1, <1>2, <1>5
  <2>2. QED  BY <1>4, <1>5, <2>1, ExitStep
<1>6. CASE ~run'.exited
  <2>1. ~Exit
    BY <1>1, <1>6 DEF Exit, RunRec
  <2>2. QED  BY <1>1, <1>3, <1>4, <1>6, <2>1, ActStep DEF Next
<1>7. QED  BY <1>5, <1>6

\* The inductive invariant: HeapOK, PoolOK, Control and Local for each thread,
\* Apart for each two, Covered, TableOK and Registered, until a set-up is
\* undone; what the application still has once the process has ended.
THEOREM MemInvariant == Spec => []MInv
  BY InitMInv, MInvStep, PTL DEF Spec

-----------------------------------------------------------------------------
(* What the invariant says of the buffers.                                 *)

\* Each buffer of a thread is in Refs.
LEMMA HeldIs ==
    ASSUME NEW x \in Holders
    PROVE  \E t \in Threads, h \in {"own", "in", "out"} :
             /\ x = <<t, h>> /\ HeldAt(x) = th[t][h]
             /\ HeldAt(x) # NULL => /\ HeldAt(x) \in Refs(th[t])
                                    /\ h = "own" => HeldAt(x) \in Priv(th[t])
                                    /\ h # "own" => HeldAt(x) \in Strm(th[t])
<1>1. PICK t \in Threads, h \in {"own", "in", "out"} : x = <<t, h>>
  BY DEF Holders
<1>2. HeldAt(x) = th[t][h]
  BY <1>1 DEF HeldAt
<1>3. ASSUME HeldAt(x) # NULL
      PROVE  /\ HeldAt(x) \in Refs(th[t])
             /\ h = "own" => HeldAt(x) \in Priv(th[t])
             /\ h # "own" => HeldAt(x) \in Strm(th[t])
  <2>1. CASE h = "own"
    BY <1>2, <1>3, <2>1 DEF Priv, Refs
  <2>2. CASE h = "in"
    BY <1>2, <1>3, <2>2 DEF Strm, Refs
  <2>3. CASE h = "out"
    BY <1>2, <1>3, <2>3 DEF Strm, Refs
  <2>4. QED  BY <2>1, <2>2, <2>3
<1>4. QED  BY <1>1, <1>2, <1>3

LEMMA HeldApart ==
    ASSUME Owned, NEW x \in Holders, NEW y \in Holders, x # y, HeldAt(x) # NULL
    PROVE  HeldAt(x) # HeldAt(y)
<1> SUFFICES ASSUME HeldAt(x) = HeldAt(y) PROVE FALSE
  OBVIOUS
<1>1. PICK a : a = HeldAt(x) /\ a = HeldAt(y) /\ a # NULL
  OBVIOUS
<1>2. PICK t \in Threads, h \in {"own", "in", "out"} :
        /\ x = <<t, h>> /\ a = th[t][h] /\ a \in Refs(th[t])
        /\ h = "own" => a \in Priv(th[t])
        /\ h # "own" => a \in Strm(th[t])
  BY <1>1, HeldIs
<1>3. PICK u \in Threads, i \in {"own", "in", "out"} :
        /\ y = <<u, i>> /\ a = th[u][i] /\ a \in Refs(th[u])
        /\ i = "own" => a \in Priv(th[u])
        /\ i # "own" => a \in Strm(th[u])
  BY <1>1, HeldIs
<1>4. t = u
  BY <1>2, <1>3 DEF Owned, Apart
<1>5. h # i
  BY <1>2, <1>3, <1>4
<1>6. /\ Local(th[t], heap, pool) /\ PoolOK(heap, pool)
      /\ Strm(th[t]) \subseteq Ats(pool.used) /\ Priv(th[t]) \cap Ats(pool.used) = {}
  BY RefsLive DEF Owned, Local
<1>7. h # "own" /\ i # "own"
  BY <1>2, <1>3, <1>4, <1>5, <1>6
<1>8. a = th[t].in /\ a = th[t].out
  BY <1>2, <1>3, <1>4, <1>5, <1>7
<1>9. QED  BY <1>1, <1>6, <1>8 DEF Local

LEMMA HeldLive ==
    ASSUME Owned, NEW x \in Holders, HeldAt(x) # NULL
    PROVE  /\ \E b \in heap.live : b.at = HeldAt(x)
           /\ \A k \in DOMAIN pool.free : pool.free[k].at # HeldAt(x)
           /\ x[2] # "own" =>
                \E k \in DOMAIN pool.used : /\ pool.used[k].at = HeldAt(x)
                                            /\ pool.used[k].sz >= th[x[1]].buf_len
<1>1. PICK a : a = HeldAt(x)
  OBVIOUS
<1>2. PICK t \in Threads, h \in {"own", "in", "out"} :
        /\ x = <<t, h>> /\ a = th[t][h] /\ a \in Refs(th[t])
        /\ h = "own" => a \in Priv(th[t])
        /\ h # "own" => a \in Strm(th[t])
  BY <1>1, HeldIs
<1>3. /\ Local(th[t], heap, pool) /\ PoolOK(heap, pool)
      /\ Strm(th[t]) \subseteq Ats(pool.used)
      /\ Priv(th[t]) \cap (Ats(pool.free) \cup Ats(pool.used)) = {}
      /\ Ats(pool.free) \cap Ats(pool.used) = {}
      /\ Refs(th[t]) \subseteq LiveAt(heap)
  BY RefsLive DEF Owned, Local, PoolOK
<1>4. \E b \in heap.live : b.at = a
  BY <1>2, <1>3 DEF LiveAt
<1>5. a \notin Ats(pool.free)
  BY <1>2, <1>3
<1>6. \A k \in DOMAIN pool.free : pool.free[k].at # a
  BY <1>5 DEF Ats
<1>7. h # "own" => InUse(pool, a, th[t].buf_len)
  BY <1>2, <1>3 DEF Local
<1>8. x[1] = t /\ x[2] = h
  BY <1>2
<1>9. QED  BY <1>1, <1>4, <1>6, <1>7, <1>8 DEF InUse

\* Buffers have one owner, whatever the threads and however they interleave:
\* growing the pool, taking a node and giving it back each hold both locks of
\* the lists, and what a thread has between two of these steps is nobody
\* else's (qatzip_stream.c, streamBufferAlloc and streamBufferFree).
THEOREM BuffersOwned == Spec => []OneOwner
<1>1. MInv => OneOwner
  <2>1. SUFFICES ASSUME MInv, ~run.undone /\ ~run.exited
                 PROVE  /\ \A x, y \in Holders : (x # y /\ HeldAt(x) # NULL)
                             => HeldAt(x) # HeldAt(y)
                        /\ \A x \in Holders : HeldAt(x) # NULL =>
                             /\ \E b \in heap.live : b.at = HeldAt(x)
                             /\ \A k \in DOMAIN pool.free : pool.free[k].at # HeldAt(x)
                             /\ x[2] # "own" => \E k \in DOMAIN pool.used :
                                  /\ pool.used[k].at = HeldAt(x)
                                  /\ pool.used[k].sz >= th[x[1]].buf_len
                        /\ \A l \in {"free", "used"} : \A k \in DOMAIN pool[l] :
                             \E b \in heap.live : /\ b.at = pool[l][k].at
                                                  /\ b.sz = pool[l][k].sz
                        /\ \A j, k \in DOMAIN pool.free :
                             j # k => pool.free[j].at # pool.free[k].at
    BY DEF OneOwner
  <2>2. Owned
    BY <2>1 DEF MInv
  <2>3. \A x, y \in Holders : (x # y /\ HeldAt(x) # NULL) => HeldAt(x) # HeldAt(y)
    BY <2>2, HeldApart
  <2>4. \A x \in Holders : HeldAt(x) # NULL =>
          /\ \E b \in heap.live : b.at = HeldAt(x)
          /\ \A k \in DOMAIN pool.free : pool.free[k].at # HeldAt(x)
          /\ x[2] # "own" => \E k \in DOMAIN pool.used :
               /\ pool.used[k].at = HeldAt(x)
               /\ pool.used[k].sz >= th[x[1]].buf_len
    BY <2>2, HeldLive
  <2>5. /\ \A l \in {"free", "used"} : \A k \in DOMAIN pool[l] :
             \E b \in heap.live : b.at = pool[l][k].at /\ b.sz = pool[l][k].sz
        /\ Distinct(pool.free)
    BY <2>2 DEF Owned, PoolOK
  <2>6. QED  BY <2>3, <2>4, <2>5 DEF Distinct
<1>2. QED  BY <1>1, MemInvariant, PTL

\* Memory goes back once, to the allocator it came from, and the destructor
\* leaves only what the application did not free: every deallocation finds
\* its block live, and the page table says "driver" of it exactly when the
\* driver made it (qatzip_mem.c, qzFree; qatzip_stream.c,
\* streamBufferCleanup).
THEOREM FreedExactlyOnce == Spec => []FreedOnce
<1>1. MInv => FreedOnce
  BY DEF MInv, Owned, HeapOK, Ended, FreedOnce
<1>2. QED  BY <1>1, MemInvariant, PTL

-----------------------------------------------------------------------------
(* Pinned at both ends.                                                    *)

Whole ==
  \A b \in heap.live :
    (b.from = "driver" /\ \A t \in Threads : b.at \notin InFlight(th[t]))
       => Ends(b.at, b.sz) \subseteq table

WInv == MInv /\ ((~run.undone /\ ~run.exited) => Whole)

\* The ends of a block are pages of it.
LEMMA EndsOfPages ==
    ASSUME NEW a \in Nat, NEW sz \in Nat \ {0}
    PROVE  Ends(a, sz) \subseteq PagesOf(a, sz)
<1>0. PICK c \in Nat : c = a + sz - 1 /\ a <= c
  <2>1. a + sz - 1 \in Nat /\ a <= a + sz - 1
    OBVIOUS
  <2>2. QED  BY Zenon, <2>1
<1>1. \E q \in Nat, r \in 0 .. (PageSz - 1), x \in Nat :
        /\ q = a \div PageSz /\ r = a % PageSz /\ x = q * PageSz /\ a = x + r
  BY PageParts
<1>2. \E q \in Nat, r \in 0 .. (PageSz - 1), x \in Nat :
        /\ q = c \div PageSz /\ r = c % PageSz /\ x = q * PageSz /\ c = x + r
  BY PageParts
<1>3. PICK q \in Nat, r \in 0 .. (PageSz - 1), x \in Nat :
        /\ q = a \div PageSz /\ r = a % PageSz /\ x = q * PageSz /\ a = x + r
  BY Zenon, <1>1
<1>4. PICK p \in Nat, s \in 0 .. (PageSz - 1), y \in Nat :
        /\ p = c \div PageSz /\ s = c % PageSz /\ y = p * PageSz /\ c = y + s
  BY Zenon, <1>2
<1>5. q <= p
  <2>1. SUFFICES ASSUME p < q PROVE FALSE
    OBVIOUS
  <2>2. y + PageSz <= x
    BY <1>3, <1>4, <2>1, Constants, ProductOrder
  <2>3. QED  BY <1>0, <1>3, <1>4, <2>2, Constants
<1>6. PagesOf(a, sz) = q .. p /\ Ends(a, sz) = {q, p}
  BY <1>0, <1>3, <1>4 DEF PagesOf, Ends, Page
<1>7. QED  BY <1>5, <1>6

LEMMA WholeStep ==
    ASSUME Owned, Whole, NEW t \in Threads, NEW r, th' = [th EXCEPT ![t] = r],
           table \subseteq table',
           \A b \in heap'.live : \/ b \in heap.live \/ b.from # "driver"
                                 \/ b.at \in InFlight(r),
           \A b \in heap'.live : b.at \in InFlight(th[t]) =>
              b.at \in InFlight(r) \/ Ends(b.at, b.sz) \subseteq table'
    PROVE  Whole'
<1>1. /\ th'[t] = r /\ \A u \in Threads \ {t} : th'[u] = th[u]
  BY DEF Owned
<1>2. ASSUME NEW b \in heap'.live, b.from = "driver",
             \A u \in Threads : b.at \notin InFlight(th'[u])
      PROVE  Ends(b.at, b.sz) \subseteq table'
  <2>1. b.at \notin InFlight(r)
    BY <1>1, <1>2
  <2>2. b \in heap.live
    BY <1>2, <2>1
  <2>3. CASE \A u \in Threads : b.at \notin InFlight(th[u])
    BY <1>2, <2>2, <2>3 DEF Whole
  <2>4. CASE \E u \in Threads : b.at \in InFlight(th[u])
    <3>1. b.at \in InFlight(th[t])
      BY <1>1, <1>2, <2>4
    <3>2. QED  BY <1>2, <2>1, <3>1
  <2>5. QED  BY <2>3, <2>4
<1>3. \A x, y : Ends(x, y)' = Ends(x, y)
  BY DEF Ends, Page
<1>4. QED  BY <1>2, <1>3 DEF Whole, InFlight

\* The block in flight, for the two steps that end its registration.
LEMMA InFlightSize ==
    ASSUME Owned, NEW t \in Threads, th[t].pc \in {"register", "store"}
    PROVE  /\ th[t].a \in Nat /\ th[t].sz \in Nat \ {0} /\ InFlight(th[t]) = {th[t].a}
           /\ \A b \in heap.live : b.at = th[t].a => b.sz = th[t].sz
<1>1. PICK q : q = th[t]
  OBVIOUS
<1>2. Control(q) /\ Local(q, heap, pool) /\ q.a # NULL /\ HeapOK(heap)
  BY <1>1 DEF Owned, Local
<1>3. q.a \in Nat /\ q.sz \in Nat \ {0}
  BY <1>1, <1>2, HeldSize
<1>4. InFlight(q) = {q.a}
  BY <1>1, <1>2 DEF InFlight
<1>5. PICK b \in heap.live : b.at = q.a /\ b.sz = q.sz
  BY <1>1, <1>2 DEF Local
<1>6. ASSUME NEW c \in heap.live, c.at = q.a PROVE c.sz = q.sz
  <2>1. c \in Block /\ b \in Block
    BY <1>2, <1>5 DEF HeapOK
  <2>2. c # b => c.at + c.sz <= b.at \/ b.at + b.sz <= c.at
    BY <1>2, <1>5 DEF HeapOK
  <2>3. c = b
    BY <1>5, <1>6, <2>1, <2>2 DEF Block
  <2>4. QED  BY <1>5, <2>3
<1>7. QED  BY <1>1, <1>3, <1>4, <1>6

LEMMA WholeRegister ==
    ASSUME Owned, Whole, NEW t \in Threads, Register(t) PROVE Whole'
<1>1. PICK q : q = th[t]
  OBVIOUS
<1>2. PICK known \in BOOLEAN : known = (Found(q.a) /\ Found(q.a + q.sz - 1))
  OBVIOUS
<1>3. PICK r : r = IF known THEN [q EXCEPT !.pc = "got"]
                   ELSE [q EXCEPT !.pc = "store", !.todo = Range2Store(q.a, q.sz)]
  OBVIOUS
<1>4. /\ th' = [th EXCEPT ![t] = r] /\ q.pc = "register" /\ heap' = heap
      /\ table' = table
  BY <1>1, <1>2, <1>3 DEF Register, Step, At
<1>5. /\ q.a \in Nat /\ q.sz \in Nat \ {0} /\ InFlight(q) = {q.a} /\ q \in ThRec
      /\ \A b \in heap.live : b.at = q.a => b.sz = q.sz
  BY <1>1, <1>4, InFlightSize DEF Owned, Control
<1>6. CASE known
  <2>1. Ends(q.a, q.sz) \subseteq table
    <3>1. Page(q.a) \in table /\ Page(q.a + q.sz - 1) \in table
      BY <1>2, <1>6 DEF Found, LoadAddr
    <3>2. QED  BY <3>1 DEF Ends
  <2>2. \A b \in heap'.live : b.at \in InFlight(th[t]) =>
          Ends(b.at, b.sz) \subseteq table'
    BY <1>1, <1>4, <1>5, <2>1
  <2>3. QED  BY <1>4, <2>2, WholeStep
<1>7. CASE ~known
  <2>1. r = [q EXCEPT !.pc = "store", !.todo = Range2Store(q.a, q.sz)]
    BY <1>3, <1>7
  <2>2. r.pc = "store" /\ r.a = q.a
    BY <1>5, <2>1 DEF ThRec
  <2>3. InFlight(r) = InFlight(q)
    BY <1>4, <2>2 DEF InFlight
  <2>4. QED  BY <1>1, <1>4, <2>3, WholeStep
<1>8. QED  BY <1>6, <1>7

LEMMA WholeStore == ASSUME Owned, Whole, NEW t \in Threads, StorePage(t) PROVE Whole'
<1>1. PICK q : q = th[t]
  OBVIOUS
<1>2. PICK p \in q.todo :
        /\ table' = table \cup {p}
        /\ Step(t, [q EXCEPT !.todo = q.todo \ {p},
                             !.pc = IF q.todo \ {p} = {} THEN "got" ELSE "store"])
  BY <1>1 DEF StorePage
<1>3. PICK rest, done : rest = q.todo \ {p} /\ done \in BOOLEAN /\ done = (rest = {})
  OBVIOUS
<1>4. PICK r : r = [q EXCEPT !.todo = rest, !.pc = IF done THEN "got" ELSE "store"]
  OBVIOUS
<1>5. /\ th' = [th EXCEPT ![t] = r] /\ q.pc = "store" /\ heap' = heap
      /\ table' = table \cup {p}
  BY <1>1, <1>2, <1>3, <1>4 DEF StorePage, Step, At
<1>6. /\ q.a \in Nat /\ q.sz \in Nat \ {0} /\ InFlight(q) = {q.a} /\ q \in ThRec
      /\ \A b \in heap.live : b.at = q.a => b.sz = q.sz
      /\ Range2Store(q.a, q.sz) \ q.todo \subseteq table
  BY <1>1, <1>5, InFlightSize DEF Owned, Control, TableOK
<1>7. r.a = q.a /\ r.pc = IF done THEN "got" ELSE "store"
  BY <1>4, <1>6 DEF ThRec
<1>8. CASE done
  <2>1. Ends(q.a, q.sz) \subseteq table'
    <3>1. Range2Store(q.a, q.sz) \subseteq table'
      BY <1>3, <1>5, <1>6, <1>8
    <3>2. PagesOf(q.a, q.sz) \subseteq table'
      BY <1>6, <3>1, RangeFact
    <3>3. Ends(q.a, q.sz) \subseteq PagesOf(q.a, q.sz)
      BY <1>6, EndsOfPages
    <3>4. QED  BY <3>2, <3>3
  <2>2. \A b \in heap'.live : b.at \in InFlight(th[t]) =>
          Ends(b.at, b.sz) \subseteq table'
    BY <1>1, <1>5, <1>6, <2>1
  <2>3. QED  BY <1>5, <2>2, WholeStep
<1>9. CASE ~done
  <2>1. InFlight(r) = InFlight(q)
    BY <1>5, <1>7, <1>9 DEF InFlight
  <2>2. QED  BY <1>1, <1>5, <2>1, WholeStep
<1>10. QED  BY <1>3, <1>8, <1>9

\* The other steps: nothing in flight, no new block.
LEMMA WholeQuiet ==
    ASSUME Owned, Whole, NEW t \in Threads, NEW r, Step(t, r),
           th[t].pc \notin {"register", "store"}, table \subseteq table',
           \A b \in heap'.live : \/ b \in heap.live \/ b.from # "driver"
                                 \/ b.at \in InFlight(r)
    PROVE  Whole'
<1>1. InFlight(th[t]) = {}
  BY DEF InFlight
<1>2. QED  BY <1>1, WholeStep DEF Step

LEMMA FreedShrinks ==
    ASSUME NEW h, h = [live |-> h.live, wrong |-> h.wrong], NEW a, NEW g,
           g = Freed(h, a)
    PROVE  g = [live |-> g.live, wrong |-> g.wrong] /\ g.live \subseteq h.live
<1>1. PICK L, W, mine, V : /\ L = h.live /\ W = h.wrong /\ V = W \cup {a}
                           /\ mine = {b \in h.live : b.at = a /\ b.from = Deallocator(a)}
  OBVIOUS
<1>2. h = [live |-> L, wrong |-> W]
  BY <1>1
<1>3. PICK K : K = L \ mine
  OBVIOUS
<1>4. g = [h EXCEPT !.wrong = V] \/ g = [h EXCEPT !.live = K]
  BY <1>1, <1>3 DEF Freed
<1>5. g = [live |-> L, wrong |-> V] \/ g = [live |-> K, wrong |-> W]
  BY <1>2, <1>4
<1>6. QED  BY <1>1, <1>3, <1>5

LEMMA BackShrinks ==
    ASSUME NEW h, h = [live |-> h.live, wrong |-> h.wrong], NEW p, NEW a, NEW g,
           g = GivenBack(p, h, a).heap
    PROVE  g = [live |-> g.live, wrong |-> g.wrong] /\ g.live \subseteq h.live
<1>1. g = h \/ \E k : g = Returned(p, h, k).heap
  BY DEF GivenBack
<1>2. ASSUME NEW k, g = Returned(p, h, k).heap PROVE g = h \/ \E x : g = Freed(h, x)
  BY <1>2 DEF Returned
<1>3. QED  BY <1>1, <1>2, FreedShrinks

LEMMA WholeAct ==
    ASSUME Owned, Whole, NEW t \in Threads, Act(t), Owned'
    PROVE  Whole'
<1>1. HeapOK(heap) /\ heap = [live |-> heap.live, wrong |-> heap.wrong]
      /\ (~tab.init => table = {})
  BY DEF Owned, HeapOK, TableOK
<1>2. CASE TestInit(t) \/ InitTable(t) \/ Device(t) \/ AllocFails(t)
  <2>1. /\ \E r : Step(t, r) /\ heap' = heap /\ table \subseteq table'
        /\ th[t].pc \notin {"register", "store"}
    BY <1>1, <1>2 DEF TestInit, InitTable, Device, AllocFails, At, Cleared
  <2>2. QED  BY <2>1, WholeQuiet
<1>3. CASE GetNode(t) \/ AddNode(t) \/ InitStream(t) \/ Malloc(t) \/ Got(t)
  <2>1. /\ \E r : Step(t, r) /\ heap' = heap /\ table \subseteq table'
        /\ th[t].pc \notin {"register", "store"}
    BY <1>3 DEF GetNode, AddNode, InitStream, Malloc, Got, At
  <2>2. QED  BY <2>1, WholeQuiet
<1>4. CASE AllocPinned(t)
  <2>1. PICK b \in Blocks("driver", th[t].sz) :
          /\ heap' = [heap EXCEPT !.live = @ \cup {b}]
          /\ Step(t, [th[t] EXCEPT !.pc = "register", !.a = b.at])
    BY <1>4 DEF AllocPinned
  <2>2. PICK q, a, r : q = th[t] /\ a = b.at /\ r = [q EXCEPT !.pc = "register", !.a = a]
    OBVIOUS
  <2>3. q \in ThRec /\ q.pc = "alloc" /\ q.sz \in Nat \ {0}
    <3>1. Control(q) /\ q \in ThRec /\ q.pc = "alloc"
      BY <1>4, <2>2 DEF Owned, Control, AllocPinned, At
    <3>2. q.sz \in Nat /\ q.sz > 0
      BY <3>1 DEF ThRec, Control, Busy
    <3>3. QED  BY <3>1, <3>2
  <2>4. a \in Nat /\ heap'.live = heap.live \cup {b}
    BY <1>1, <2>1, <2>2, <2>3, BlocksFact
  <2>5. r.pc = "register" /\ r.a = a /\ Step(t, r)
    BY <2>1, <2>2, <2>3 DEF ThRec
  <2>6. b.at \in InFlight(r)
    BY <2>2, <2>4, <2>5, NotNull DEF InFlight
  <2>7. table \subseteq table' /\ th[t].pc \notin {"register", "store"}
    BY <1>4, <2>2, <2>3 DEF AllocPinned
  <2>8. QED  BY <2>4, <2>5, <2>6, <2>7, WholeQuiet
<1>5. CASE AllocCommon(t)
  <2>1. PICK b, r :
          /\ b \in Blocks("heap", th[t].sz)
          /\ heap' = [heap EXCEPT !.live = @ \cup {b}]
          /\ Step(t, r)
    BY <1>5 DEF AllocCommon
  <2>2. b.from = "heap"
    BY <2>1 DEF Blocks
  <2>3. heap'.live = heap.live \cup {b}
    <3>1. PICK L : L = heap.live \cup {b}
      OBVIOUS
    <3>2. heap' = [heap EXCEPT !.live = L]
      BY <2>1, <3>1
    <3>3. QED  BY <1>1, <3>1, <3>2
  <2>4. table \subseteq table' /\ th[t].pc \notin {"register", "store"}
    BY <1>5 DEF AllocCommon, At
  <2>5. QED  BY <2>1, <2>2, <2>3, <2>4, WholeQuiet
<1>6. CASE Register(t)
  BY <1>6, WholeRegister
<1>7. CASE StorePage(t)
  BY <1>7, WholeStore
<1>8. CASE StoreFails(t)
  <2>1. PICK r : /\ th' = [th EXCEPT ![t] = r] /\ heap' = Without(heap, th[t].a)
                 /\ table' = table /\ th[t].pc = "store"
    BY <1>8 DEF StoreFails, Step, At, Without
  <2>2. /\ heap'.live \subseteq heap.live /\ LiveAt(heap') = LiveAt(heap) \ {th[t].a}
    BY <1>1, <2>1, WithoutFact
  <2>3. InFlight(th[t]) \subseteq {th[t].a}
    BY DEF InFlight
  <2>4. \A b \in heap'.live : b.at \notin InFlight(th[t])
    BY <2>2, <2>3 DEF LiveAt
  <2>5. QED  BY <2>1, <2>2, <2>4, WholeStep
<1>9. CASE Slot(t) \/ Free(t)
  <2>1. /\ \E r : Step(t, r) /\ table \subseteq table'
        /\ heap' = heap \/ \E x : heap' = Freed(heap, x)
        /\ th[t].pc \notin {"register", "store"}
    <3>1. CASE Free(t)
      BY <3>1 DEF Free, At
    <3>2. CASE Slot(t)
      BY <3>2 DEF Slot, At
    <3>3. QED  BY <1>9, <3>1, <3>2
  <2>2. heap'.live \subseteq heap.live
    BY <1>1, <2>1, FreedShrinks
  <2>3. QED  BY <2>1, <2>2, WholeQuiet
<1>10. CASE EndStream(t)
  <2>1. PICK one, two, x, y, r :
          /\ one = GivenBack(pool, heap, x) /\ two = GivenBack(one.pool, one.heap, y)
          /\ heap' = two.heap /\ Step(t, r)
          /\ table' = table /\ th[t].pc = "idle"
    BY <1>10 DEF EndStream, At
  <2>2. /\ one.heap = [live |-> one.heap.live, wrong |-> one.heap.wrong]
        /\ one.heap.live \subseteq heap.live
    BY <1>1, <2>1, BackShrinks
  <2>3. heap'.live \subseteq one.heap.live
    BY <2>1, <2>2, BackShrinks
  <2>4. QED  BY <2>1, <2>2, <2>3, WholeQuiet
<1>11. QED  BY <1>2, <1>3, <1>4, <1>5, <1>6, <1>7, <1>8, <1>9, <1>10 DEF Act

LEMMA InitWInv == Init => WInv
<1> SUFFICES ASSUME Init PROVE WInv
  OBVIOUS
<1>1. heap.live = {} /\ \A t \in Threads : th[t] = IdleThread
  BY DEF Init
<1>2. Whole
  BY <1>1 DEF Whole
<1>3. QED  BY <1>2, InitMInv DEF WInv

LEMMA WInvStep == WInv /\ [Next]_vars => WInv'
<1> SUFFICES ASSUME WInv, [Next]_vars PROVE WInv'
  OBVIOUS
<1>1. MInv /\ MInv' /\ run \in RunRec
  BY MInvStep DEF WInv, MInv
<1>2. SUFFICES ASSUME ~run'.undone, ~run'.exited PROVE Whole'
  BY <1>1 DEF WInv
<1>3. CASE UNCHANGED vars
  <2>1. /\ heap' = heap /\ table' = table /\ th' = th /\ run' = run
    BY <1>3 DEF vars
  <2>2. Whole
    BY <1>2, <2>1 DEF WInv
  <2>3. QED  BY <2>1, <2>2 DEF Whole, Ends, Page
<1>4. CASE Next
  <2>1. ~run.exited /\ ~run.undone /\ ~Exit
    BY <1>1, <1>2, <1>4, RunStep, EndedStays DEF Exit, RunRec
  <2>2. Owned /\ Owned' /\ Whole
    BY <1>1, <1>2, <2>1 DEF WInv, MInv
  <2>3. PICK t \in Threads : Act(t)
    BY <1>4, <2>1 DEF Next
  <2>4. QED  BY <2>2, <2>3, WholeAct
<1>5. QED  BY <1>3, <1>4

\* A buffer of a thread is not one that a thread is just registering.
LEMMA HeldNotInFlight ==
    ASSUME Owned, NEW x \in Holders, HeldAt(x) # NULL, NEW u \in Threads
    PROVE  HeldAt(x) \notin InFlight(th[u])
<1>1. PICK a : a = HeldAt(x) /\ a # NULL
  OBVIOUS
<1>2. PICK t \in Threads, h \in {"own", "in", "out"} :
        /\ x = <<t, h>> /\ a = th[t][h] /\ a \in Refs(th[t])
        /\ h = "own" => a \in Priv(th[t])
        /\ h # "own" => a \in Strm(th[t])
  BY <1>1, HeldIs
<1>3. SUFFICES ASSUME a \in InFlight(th[u]) PROVE FALSE
  BY <1>1
<1>4. /\ a \in Priv(th[u]) /\ a \in Refs(th[u]) /\ a = th[u].a
      /\ th[u].pc \in {"register", "store"}
  BY <1>3 DEF InFlight, Priv, Refs
<1>5. t = u
  BY <1>2, <1>4 DEF Owned, Apart
<1>6. /\ Local(th[u], heap, pool) /\ PoolOK(heap, pool)
      /\ Strm(th[u]) \subseteq Ats(pool.used) /\ Priv(th[u]) \cap Ats(pool.used) = {}
  BY RefsLive DEF Owned, Local
<1>7. h = "own" /\ a = th[u].own
  BY <1>2, <1>4, <1>5, <1>6
<1>8. QED  BY <1>1, <1>4, <1>6, <1>7 DEF Local

\* The pages of a block of the heap are not the driver's.
LEMMA HeapPages ==
    ASSUME NEW a \in Nat, NEW sz \in Nat \ {0}, a >= DriverMem
    PROVE  PagesOf(a, sz) \cap DriverPages = {}
<1>1. Page(a) \in Nat /\ Page(a) \notin DriverPages
  BY Constants, PageFact
<1>2. PICK d \in Nat : d = DriverMem \div PageSz
  BY Constants, DivMod
<1>3. Page(a) >= d
  BY <1>1, <1>2 DEF DriverPages
<1>4. \A p \in PagesOf(a, sz) : p \in Int /\ p >= Page(a)
  BY <1>1 DEF PagesOf
<1>5. QED  BY <1>1, <1>2, <1>3, <1>4 DEF DriverPages

\* A driver block is pinned on its first and on its last page for whoever holds
\* it, and heap memory on none of its pages, for blocks of any size: the block
\* is on the table before qzMalloc returns it, freeing it leaves its pages
\* there, and no page is shared (qatzip_mem.c, qzMemRegAddr, qzMemFindAddr).
THEOREM DriverBlocksPinned == Spec => []PinnedEnds
<1>1. WInv => PinnedEnds
  <2>1. SUFFICES ASSUME WInv, ~run.undone, ~run.exited,
                        NEW x \in Holders, NEW b \in heap.live, HeldAt(x) = b.at
                 PROVE  IF b.from = "driver" THEN Ends(b.at, b.sz) \subseteq table
                        ELSE PagesOf(b.at, b.sz) \cap table = {}
    BY DEF PinnedEnds
  <2>2. Owned /\ Whole /\ HeapOK(heap) /\ table \subseteq DriverPages
    BY <2>1 DEF WInv, MInv, Owned, TableOK
  <2>3. b \in Block /\ (b.from # "driver" => b.at >= DriverMem)
    BY <2>1, <2>2 DEF HeapOK
  <2>4. b.at \in Nat /\ b.sz \in Nat \ {0} /\ b.at # NULL
    BY <2>3, NotNull DEF Block
  <2>5. \A u \in Threads : b.at \notin InFlight(th[u])
    BY <2>1, <2>2, <2>4, HeldNotInFlight
  <2>6. CASE b.from = "driver"
    BY <2>2, <2>5, <2>6 DEF Whole
  <2>7. CASE b.from # "driver"
    BY <2>2, <2>3, <2>4, <2>7, HeapPages
  <2>8. QED  BY <2>6, <2>7
<1>2. QED  BY <1>1, InitWInv, WInvStep, PTL DEF Spec
-----------------------------------------------------------------------------
(* The data formats: what is in memory.                                    *)

\* What can be in memory.
Struct ==
  [k : {"std", "named", "end", "adler"}]
    \cup [k : {"qz"}, src : Nat, dest : Nat]
    \cup [k : {"foot", "b4", "blk"}, sz : Nat]
    \cup [k : {"lz4"}, flags : Nat, sz : Nat]
    \cup [k : {"zlib"}, cmf : Nat, flg : Nat]

\* Everything in m ends at e or before.
Mem(m, e) ==
  /\ m = [q \in DOMAIN m |-> m[q]]
  /\ DOMAIN m \subseteq Nat
  /\ \A q \in DOMAIN m : m[q] \in Struct /\ q + SizeOf(m[q]) <= e

\* m with s, written at o.
Added(new, m, o, s) ==
  /\ DOMAIN new = DOMAIN m \cup {o}
  /\ new[o] = s
  /\ \A q \in DOMAIN m : new[q] = m[q]

LEMMA SizeOfKinds ==
    ASSUME NEW s
    PROVE  /\ s.k \in {"std", "named"} => SizeOf(s) = 10
           /\ s.k = "qz" => SizeOf(s) = 24
           /\ s.k = "foot" => SizeOf(s) = 8
           /\ s.k = "end" => SizeOf(s) = 8
           /\ s.k = "b4" => SizeOf(s) = 4
           /\ s.k = "blk" => SizeOf(s) = 4
           /\ s.k = "adler" => SizeOf(s) = 4
           /\ s.k = "lz4" => SizeOf(s) = 15
           /\ s.k = "zlib" => SizeOf(s) = 2
           /\ s.k = "none" => SizeOf(s) = 0
BY Zenon DEF SizeOf

LEMMA StructSize ==
    ASSUME NEW s \in Struct
    PROVE  /\ SizeOf(s) \in Nat /\ SizeOf(s) > 0 /\ s.k # "none"
           /\ s.k \in {"std", "named"} => SizeOf(s) = 10
           /\ s.k = "qz" => SizeOf(s) = 24
           /\ s.k \in {"foot", "end"} => SizeOf(s) = 8
           /\ s.k \in {"b4", "blk", "adler"} => SizeOf(s) = 4
           /\ s.k = "lz4" => SizeOf(s) = 15
           /\ s.k = "zlib" => SizeOf(s) = 2
BY SizeOfKinds DEF Struct

\* Nothing of what ends before is erased.
LEMMA NothingErased ==
    ASSUME NEW m, NEW e \in Nat, Mem(m, e), NEW o \in Nat, e <= o, NEW n \in Nat
    PROVE  Erase(m, o, n) = m
<1>1. \A q \in DOMAIN m : q + SizeOf(m[q]) <= o
  BY StructSize DEF Mem
<1>2. {x \in DOMAIN m : x >= o + n \/ x + SizeOf(m[x]) <= o} = DOMAIN m
  BY <1>1
<1>3. Erase(m, o, n) = [q \in DOMAIN m |-> m[q]]
  BY <1>2 DEF Erase
<1>. QED
  BY <1>3 DEF Mem

LEMMA PutAtEnd ==
    ASSUME NEW m, NEW e \in Nat, Mem(m, e), NEW o \in Nat, e <= o,
           NEW s \in Struct
    PROVE  /\ Added(Put(m, o, s), m, o, s) /\ Mem(Put(m, o, s), o + SizeOf(s))
           /\ o \notin DOMAIN m
<1>1. SizeOf(s) \in Nat /\ SizeOf(s) > 0 /\ s.k # "none"
  BY StructSize
<1>2. Erase(m, o, SizeOf(s)) = m
  BY <1>1, NothingErased
<1>3. Put(m, o, s) = [q \in DOMAIN m \cup {o} |-> IF q = o THEN s ELSE m[q]]
  BY <1>1, <1>2 DEF Put
<1>4. \A q \in DOMAIN m : q \in Nat /\ q < o /\ q + SizeOf(m[q]) <= o
  BY StructSize DEF Mem
<1>5. o \notin DOMAIN m
  BY <1>4
<1> DEFINE new == [q \in DOMAIN m \cup {o} |-> IF q = o THEN s ELSE m[q]]
<1>6. /\ new = [q \in DOMAIN new |-> new[q]] /\ DOMAIN new = {o} \cup DOMAIN m
      /\ new[o] = s /\ \A q \in DOMAIN m : new[q] = m[q]
  BY <1>5
<1> HIDE DEF new
<1>7. Added(new, m, o, s)
  BY <1>6 DEF Added
<1>8. Mem(new, o + SizeOf(s))
  <2>1. \A q \in DOMAIN m : m[q] \in Struct /\ SizeOf(m[q]) \in Nat
    BY StructSize DEF Mem
  <2>. QED
    BY <1>1, <1>4, <1>6, <2>1 DEF Mem
<1>. QED
  BY <1>3, <1>5, <1>7, <1>8 DEF new

-----------------------------------------------------------------------------
(* Frames.                                                                 *)

Fmts == {"DEFLATE_4B", "DEFLATE_RAW", "DEFLATE_GZIP", "DEFLATE_GZIP_EXT",
         "DEFLATE_ZLIB", "LZ4_FH", "LZ4S_BK"}

Frame == [at : Nat, csz : Nat, usz : 0 .. 2 * HwBuffSz,
          std : BOOLEAN, look : BOOLEAN, own : BOOLEAN]

\* Structure s is at o.
Holds(m, o, s) == o \in DOMAIN m /\ m[o] = s

\* What a frame f that ends at e looks like in memory m, by kinds.
QzFrame(m, f, e) ==
  /\ Holds(m, f.at, [k |-> "qz", src |-> f.usz, dest |-> f.csz])
  /\ e = f.at + 32 + f.csz /\ ~ f.std
StdFrame(m, f, e) ==
  /\ Holds(m, f.at, [k |-> "std"])
  /\ Holds(m, f.at + 10 + f.csz, [k |-> "foot", sz |-> f.usz])
  /\ e = f.at + 18 + f.csz /\ f.std
  /\ f.look \/ \A q \in DOMAIN m : f.at < q /\ q < e => m[q].k # "std"
NamedFrame(m, f, e) ==
  /\ Holds(m, f.at, [k |-> "named"])
  /\ e = f.at + 118 /\ ~ f.std /\ ~ f.own
B4Frame(m, f, e) ==
  /\ Holds(m, f.at, [k |-> "b4", sz |-> f.csz])
  /\ e = f.at + 4 + f.csz
LZ4Header(f, flags) == [k |-> "lz4", flags |-> flags, sz |-> f.usz]
LZ4Frame(m, f, e) ==
  /\ Holds(m, f.at, LZ4Header(f, Lz4Flags))
  /\ f.csz >= 4 /\ Holds(m, f.at + 15, [k |-> "blk", sz |-> f.csz - 4])
  /\ Holds(m, f.at + 15 + f.csz, [k |-> "end"])
  /\ e = f.at + 23 + f.csz
BlocksFrame(m, f, e) ==
  /\ Holds(m, f.at, LZ4Header(f, Lz4Flags))
  /\ Holds(m, f.at + 15, [k |-> "blk", sz |-> 40])
  /\ Holds(m, f.at + 59, [k |-> "blk", sz |-> 52])
  /\ Holds(m, f.at + 115, [k |-> "end"])
  /\ f.csz = 100 /\ e = f.at + 123 /\ ~ f.own
FlaggedFrame(m, f, e) ==
  /\ Holds(m, f.at, LZ4Header(f, Lz4Flags + 16))
  /\ f.csz = 100 /\ e = f.at + 123 /\ ~ f.own
SkippableFrame(m, f, e) ==
  /\ f.at \notin DOMAIN m
  /\ f.csz = 100 /\ e = f.at + 115 /\ ~ f.own

\* The frames of a stream written in format g.
FrameOf(g, m, f, e) ==
  /\ g \in {"DEFLATE_GZIP", "DEFLATE_GZIP_EXT"} =>
        QzFrame(m, f, e) \/ StdFrame(m, f, e) \/ NamedFrame(m, f, e)
  /\ g = "DEFLATE_4B" => B4Frame(m, f, e)
  /\ g = "LZ4_FH" => \/ LZ4Frame(m, f, e) \/ BlocksFrame(m, f, e)
                     \/ FlaggedFrame(m, f, e) \/ SkippableFrame(m, f, e)

EndAt(i) == IF i = Len(frames) THEN len ELSE frames[i + 1].at

\* Memory without what is at the end of the output.  A frame of the 4-byte
\* format has a footer behind it that is written and not counted.
Written == [q \in DOMAIN items \ {len} |-> items[q]]
Footers ==
  /\ items = [q \in DOMAIN items |-> items[q]]
  /\ Mem(Written, len)
  /\ len \in DOMAIN items =>
        fmt = "DEFLATE_4B" /\ items[len] \in Struct /\ items[len].k = "foot"

\* The frames lie one behind the other and are what their format makes them.
Layout ==
  /\ fmt \in Fmts /\ frames \in Seq(Frame) /\ len \in Nat /\ Footers
  /\ IF frames = << >> THEN len = 0 ELSE frames[1].at = 0
  /\ \A i \in DOMAIN frames :
        /\ frames[i].at <= EndAt(i) /\ EndAt(i) <= len
        /\ \A j \in DOMAIN frames : i < j => EndAt(i) <= frames[j].at
        /\ FrameOf(fmt, items, frames[i], EndAt(i))

\* Whose frames are which: the session writes headers with an extra field, or
\* plain ones; it changes to plain ones where the first frame is a foreign one.
Writers ==
  /\ fmt = "DEFLATE_GZIP_EXT" =>
        \A i \in DOMAIN frames : frames[i].std => ~ frames[i].own
  /\ fmt = "DEFLATE_GZIP" =>
        \/ \A i \in DOMAIN frames : ~ QzFrame(items, frames[i], EndAt(i))
        \/ phase # "write" /\ frames # << >> /\ ~ frames[1].own

\* The streams of which FindsFrames says that they are cut where they were
\* put together.
Regular ==
  \/ fmt \in {"DEFLATE_GZIP_EXT", "LZ4_FH", "DEFLATE_4B"}
  \/ /\ fmt = "DEFLATE_GZIP" /\ avail = len
     /\ \A i \in DOMAIN frames : frames[i].std /\ ~ frames[i].look

\* Where the frames up to number k end.
Boundary(k) == IF k = Len(frames) THEN len ELSE frames[k + 1].at

Exact(i) ==
  /\ i \in DOMAIN frames
  /\ out[i].at = frames[i].at /\ out[i].csz = frames[i].csz
  /\ fmt # "DEFLATE_4B" => out[i].usz = frames[i].usz

\* How far decompression is: where as many frames end as it has found.
Reading ==
  /\ phase \in {"write", "read", "done"}
  /\ pos \in Nat /\ room \in Nat /\ avail \in Nat
  /\ out \in Seq([at : Nat, csz : Int, usz : Int])
  /\ IF phase = "write" THEN pos = 0 /\ out = << >>
     ELSE pos <= avail /\ avail <= len /\ frames # << >>
  /\ phase # "write" /\ Regular =>
        /\ Len(out) <= Len(frames) /\ pos = Boundary(Len(out))
        /\ \A i \in DOMAIN out : Exact(i)

FInv == Layout /\ Writers /\ Reading

-----------------------------------------------------------------------------
(* Writing.                                                                *)

\* new is m and what was written from b on.
Grown(new, m, b) ==
  /\ \A q \in DOMAIN m : q \in DOMAIN new /\ new[q] = m[q]
  /\ \A q \in DOMAIN new : q \in DOMAIN m \/ q >= b

\* Up to l, new is m.
Same(m, new, l) ==
  /\ DOMAIN new \subseteq Nat
  /\ \A q \in Nat : q < l => /\ q \in DOMAIN new <=> q \in DOMAIN m
                             /\ q \in DOMAIN m => new[q] = m[q]

LEMMA GrownFurther ==
    ASSUME NEW m1, NEW m2, NEW m3, NEW b \in Nat, NEW c \in Nat, b <= c,
           Grown(m2, m1, b), Grown(m3, m2, c), DOMAIN m3 \subseteq Nat
    PROVE  Grown(m3, m1, b)
BY DEF Grown

LEMMA AddedGrown ==
    ASSUME NEW m, NEW new, NEW o \in Nat, NEW s, Added(new, m, o, s),
           DOMAIN m \subseteq Nat
    PROVE  Grown(new, m, o) /\ Holds(new, o, s)
BY DEF Grown, Added, Holds

LEMMA MemLater ==
    ASSUME NEW m, NEW e \in Nat, NEW l \in Nat, e <= l, Mem(m, e)
    PROVE  Mem(m, l)
BY StructSize DEF Mem

\* What is read of a frame lies between its beginning and its end.
LEMMA FrameKept ==
    ASSUME NEW m, NEW new, NEW l \in Nat, Same(m, new, l), DOMAIN m \subseteq Nat,
           NEW f \in Frame, NEW e \in Nat, e <= l, NEW g, FrameOf(g, m, f, e)
    PROVE  FrameOf(g, new, f, e)
<1>1. f.at \in Nat /\ f.csz \in Nat
  BY DEF Frame
<1>2. \A q \in Nat : \A s : q < l /\ Holds(m, q, s) => Holds(new, q, s)
  BY DEF Same, Holds
<1>3. QzFrame(m, f, e) => QzFrame(new, f, e)
  BY <1>1, <1>2 DEF QzFrame
<1>4. StdFrame(m, f, e) => StdFrame(new, f, e)
  <2>1. SUFFICES ASSUME StdFrame(m, f, e) PROVE StdFrame(new, f, e)
    OBVIOUS
  <2>2. e = f.at + 18 + f.csz /\ f.at < l /\ f.at + 10 + f.csz < l
    BY <2>1, <1>1 DEF StdFrame
  <2>3. /\ Holds(new, f.at, [k |-> "std"])
        /\ Holds(new, f.at + 10 + f.csz, [k |-> "foot", sz |-> f.usz])
    BY <2>1, <2>2, <1>1, <1>2 DEF StdFrame
  <2>4. f.look \/ \A q \in DOMAIN new : f.at < q /\ q < e => new[q].k # "std"
    BY <2>1 DEF StdFrame, Same
  <2>. QED
    BY <2>1, <2>3, <2>4 DEF StdFrame
<1>5. NamedFrame(m, f, e) => NamedFrame(new, f, e)
  BY <1>1, <1>2 DEF NamedFrame
<1>6. B4Frame(m, f, e) => B4Frame(new, f, e)
  BY <1>1, <1>2 DEF B4Frame
<1>7. LZ4Frame(m, f, e) => LZ4Frame(new, f, e)
  BY <1>1, <1>2 DEF LZ4Frame
<1>8. BlocksFrame(m, f, e) => BlocksFrame(new, f, e)
  BY <1>1, <1>2 DEF BlocksFrame
<1>9. FlaggedFrame(m, f, e) => FlaggedFrame(new, f, e)
  BY <1>1, <1>2 DEF FlaggedFrame
<1>10. SkippableFrame(m, f, e) => SkippableFrame(new, f, e)
  <2>1. SUFFICES ASSUME SkippableFrame(m, f, e) PROVE SkippableFrame(new, f, e)
    OBVIOUS
  <2>2. f.at < l
    BY <2>1, <1>1 DEF SkippableFrame
  <2>. QED
    BY <2>1, <2>2, <1>1 DEF SkippableFrame, Same
<1>. QED
  BY <1>3, <1>4, <1>5, <1>6, <1>7, <1>8, <1>9, <1>10 DEF FrameOf

LEMMA QzFrameKept ==
    ASSUME NEW m, NEW new, NEW l \in Nat, Same(m, new, l),
           NEW f \in Frame, NEW e \in Nat, e <= l
    PROVE  QzFrame(new, f, e) <=> QzFrame(m, f, e)
<1>1. f.at \in Nat /\ f.csz \in Nat
  BY DEF Frame
<1>. QED
  BY <1>1 DEF QzFrame, Holds, Same

\* A frame behind the others.
LEMMA LayoutGrows ==
    ASSUME Layout, Writers, phase = "write", phase' = phase,
           NEW f \in Frame, f.at = len, frames' = Append(frames, f),
           fmt' = fmt, len' \in Nat, len <= len', Same(items, items', len),
           Footers', FrameOf(fmt, items', f, len'),
           fmt = "DEFLATE_GZIP_EXT" /\ f.std => ~ f.own,
           fmt = "DEFLATE_GZIP" => ~ QzFrame(items', f, len')
    PROVE  Layout' /\ Writers'
<1>0. PICK n \in Nat : n = Len(frames)
  <2>1. Len(frames) \in Nat
    BY DEF Layout
  <2>. QED
    BY <2>1
<1>1. /\ fmt \in Fmts /\ frames \in Seq(Frame) /\ len \in Nat /\ Footers
      /\ Len(frames) = n /\ DOMAIN frames = 1 .. n
  BY <1>0 DEF Layout
<1>2. /\ frames' \in Seq(Frame) /\ Len(frames') = n + 1
      /\ DOMAIN frames' = 1 .. (n + 1)
      /\ frames'[n + 1] = f
      /\ \A i \in 1 .. n : frames'[i] = frames[i]
  BY <1>1
<1>3. /\ EndAt(n + 1)' = len'
      /\ \A i \in 1 .. n : EndAt(i)' = EndAt(i)
  BY <1>1, <1>2 DEF EndAt
<1>4. \A i \in 1 .. n :
        /\ frames[i] \in Frame /\ EndAt(i) \in Nat
        /\ frames[i].at \in Nat /\ frames[i].at <= EndAt(i) /\ EndAt(i) <= len
        /\ \A j \in 1 .. n : i < j => EndAt(i) <= frames[j].at
        /\ FrameOf(fmt, items, frames[i], EndAt(i))
  <2>1. SUFFICES ASSUME NEW i \in 1 .. n
                 PROVE  frames[i] \in Frame /\ EndAt(i) \in Nat /\ frames[i].at \in Nat
    BY <1>1 DEF Layout
  <2>2. \A j \in 1 .. n : frames[j] \in Frame
    BY <1>1
  <2>3. \A j \in 1 .. n : frames[j].at \in Nat
    BY <2>2 DEF Frame
  <2>. QED
    BY <2>2, <2>3, <1>1 DEF EndAt
<1>5. DOMAIN items \subseteq Nat
  BY <1>1 DEF Footers, Mem, Written
<1>6. \A i \in 1 .. n :
        /\ FrameOf(fmt, items', frames[i], EndAt(i))
        /\ QzFrame(items', frames[i], EndAt(i))
             <=> QzFrame(items, frames[i], EndAt(i))
  BY <1>1, <1>4, <1>5, FrameKept, QzFrameKept
<1>7. Layout'
  <2>1. \A i \in 1 .. (n + 1) :
        /\ frames'[i].at <= EndAt(i)' /\ EndAt(i)' <= len'
        /\ \A j \in 1 .. (n + 1) : i < j => EndAt(i)' <= frames'[j].at
        /\ FrameOf(fmt', items', frames'[i], EndAt(i)')
    <3>1. TAKE i \in 1 .. (n + 1)
    <3>2. CASE i = n + 1
      BY <3>2, <1>1, <1>2, <1>3
    <3>3. CASE i \in 1 .. n
      <4>1. \A j \in 1 .. (n + 1) : i < j => EndAt(i) <= frames'[j].at
        <5>1. TAKE j \in 1 .. (n + 1)
        <5>2. CASE j = n + 1
          BY <5>2, <3>3, <1>2, <1>4
        <5>3. CASE j \in 1 .. n
          BY <5>3, <3>3, <1>2, <1>4
        <5>. QED
          BY <5>2, <5>3, <1>0
      <4>2. frames[i].at <= EndAt(i) /\ EndAt(i) <= len'
        BY <3>3, <1>1, <1>4
      <4>. QED
        BY <4>1, <4>2, <3>3, <1>2, <1>3, <1>6
    <3>. QED
      BY <3>2, <3>3, <1>1
  <2>2. IF frames' = << >> THEN len' = 0 ELSE frames'[1].at = 0
    BY <1>1, <1>2 DEF Layout
  <2>. QED
    BY <2>1, <2>2, <1>1, <1>2 DEF Layout
<1>8. Writers'
  <2>1. ASSUME fmt = "DEFLATE_GZIP_EXT", NEW i \in DOMAIN frames', frames'[i].std
        PROVE  ~ frames'[i].own
    BY <2>1, <1>1, <1>2 DEF Writers
  <2>2. ASSUME fmt = "DEFLATE_GZIP", NEW i \in DOMAIN frames'
        PROVE  ~ QzFrame(items', frames'[i], EndAt(i)')
    <3>1. CASE i = n + 1
      BY <3>1, <2>2, <1>2, <1>3
    <3>2. CASE i \in 1 .. n
      <4>1. ~ QzFrame(items, frames[i], EndAt(i))
        BY <3>2, <2>2, <1>1 DEF Writers
      <4>. QED
        BY <4>1, <3>2, <1>2, <1>3, <1>6
    <3>. QED
      BY <3>1, <3>2, <2>2, <1>1, <1>2
  <2>. QED
    BY <2>1, <2>2 DEF Writers
<1>. QED
  BY <1>7, <1>8

\* What the generators write for each format, and where the output ends.
LEMMA Generated ==
    ASSUME NEW f \in Fmts, NEW res
    PROVE  /\ f = "DEFLATE_4B" =>
                /\ OutputHeaderGen(f, res) = Qz4BHeaderGen(res)
                /\ OutputFooterGen(f, res) = QzGzipFooterGen(res)
                /\ OutputHeaderSz(f) = 4 /\ OutputFooterSz(f) = 0
           /\ f = "DEFLATE_RAW" =>
                /\ OutputHeaderGen(f, res) = Nothing
                /\ OutputFooterGen(f, res) = Nothing
                /\ OutputHeaderSz(f) = 0 /\ OutputFooterSz(f) = 0
           /\ f = "DEFLATE_GZIP" =>
                /\ OutputHeaderGen(f, res) = StdGzipHeaderGen(res)
                /\ OutputFooterGen(f, res) = QzGzipFooterGen(res)
                /\ OutputHeaderSz(f) = 10 /\ OutputFooterSz(f) = 8
           /\ f = "DEFLATE_GZIP_EXT" =>
                /\ OutputHeaderGen(f, res) = QzGzipHeaderGen(res)
                /\ OutputFooterGen(f, res) = QzGzipFooterGen(res)
                /\ OutputHeaderSz(f) = 24 /\ OutputFooterSz(f) = 8
           /\ f = "LZ4_FH" =>
                /\ OutputHeaderGen(f, res) = LZ4HeaderGen(res)
                /\ OutputFooterGen(f, res) = LZ4FooterGen(res)
                /\ OutputHeaderSz(f) = 15 /\ OutputFooterSz(f) = 8
           /\ f = "LZ4S_BK" =>
                /\ OutputHeaderGen(f, res) = LZ4SBlockHeaderGen(res)
                /\ OutputFooterGen(f, res) = Nothing
                /\ OutputHeaderSz(f) = 4 /\ OutputFooterSz(f) = 0
           /\ f = "DEFLATE_ZLIB" =>
                /\ OutputHeaderGen(f, res) = StdZlibHeaderGen(res)
                /\ OutputFooterGen(f, res) = QzZlibFooterGen(res)
                /\ OutputHeaderSz(f) = 2 /\ OutputFooterSz(f) = 4
<1>1. /\ OutputHeaderGen("DEFLATE_4B", res) = Qz4BHeaderGen(res)
      /\ OutputHeaderGen("DEFLATE_RAW", res) = Nothing
      /\ OutputHeaderGen("DEFLATE_GZIP", res) = StdGzipHeaderGen(res)
      /\ OutputHeaderGen("DEFLATE_GZIP_EXT", res) = QzGzipHeaderGen(res)
      /\ OutputHeaderGen("LZ4_FH", res) = LZ4HeaderGen(res)
      /\ OutputHeaderGen("LZ4S_BK", res) = LZ4SBlockHeaderGen(res)
      /\ OutputHeaderGen("DEFLATE_ZLIB", res) = StdZlibHeaderGen(res)
  BY Zenon DEF OutputHeaderGen
<1>2. /\ OutputFooterGen("DEFLATE_4B", res) = QzGzipFooterGen(res)
      /\ OutputFooterGen("DEFLATE_RAW", res) = Nothing
      /\ OutputFooterGen("DEFLATE_GZIP", res) = QzGzipFooterGen(res)
      /\ OutputFooterGen("DEFLATE_GZIP_EXT", res) = QzGzipFooterGen(res)
      /\ OutputFooterGen("LZ4_FH", res) = LZ4FooterGen(res)
      /\ OutputFooterGen("LZ4S_BK", res) = Nothing
      /\ OutputFooterGen("DEFLATE_ZLIB", res) = QzZlibFooterGen(res)
  BY Zenon DEF OutputFooterGen
<1>3. /\ OutputHeaderSz("DEFLATE_4B") = 4 /\ OutputHeaderSz("DEFLATE_RAW") = 0
      /\ OutputHeaderSz("DEFLATE_GZIP") = 10 /\ OutputHeaderSz("DEFLATE_GZIP_EXT") = 24
      /\ OutputHeaderSz("LZ4_FH") = 15 /\ OutputHeaderSz("LZ4S_BK") = 4
      /\ OutputHeaderSz("DEFLATE_ZLIB") = 2
  BY Zenon DEF OutputHeaderSz
<1>4. /\ OutputFooterSz("DEFLATE_4B") = 0 /\ OutputFooterSz("DEFLATE_RAW") = 0
      /\ OutputFooterSz("DEFLATE_GZIP") = 8 /\ OutputFooterSz("DEFLATE_GZIP_EXT") = 8
      /\ OutputFooterSz("LZ4_FH") = 8 /\ OutputFooterSz("LZ4S_BK") = 0
      /\ OutputFooterSz("DEFLATE_ZLIB") = 4
  BY Zenon DEF OutputFooterSz
<1>. QED
  BY <1>1, <1>2, <1>3, <1>4, Zenon

\* The header, written over what is left of the footer of a 4-byte frame.
LEMMA HeaderWritten ==
    ASSUME Layout, NEW h \in Struct
    PROVE  /\ Added(Put(items, len, h), Written, len, h)
           /\ Mem(Put(items, len, h), len + SizeOf(h))
           /\ Grown(Put(items, len, h), Written, len)
<1>1. len \in Nat /\ Mem(Written, len)
      /\ DOMAIN Written = DOMAIN items \ {len}
      /\ \A q \in DOMAIN Written : Written[q] = items[q]
  BY DEF Layout, Footers, Written
<1>2. SizeOf(h) \in Nat /\ SizeOf(h) > 0 /\ h.k # "none"
  BY StructSize
<1>3. \A q \in DOMAIN Written :
         q \in Nat /\ q # len /\ q < len /\ q + SizeOf(items[q]) <= len
  BY <1>1, StructSize DEF Mem
<1>4. len \in DOMAIN items =>
         ~ (len >= len + SizeOf(h)) /\ ~ (len + SizeOf(items[len]) <= len)
  BY <1>1, <1>2, StructSize DEF Layout, Footers
<1>5. {x \in DOMAIN items : x >= len + SizeOf(h) \/ x + SizeOf(items[x]) <= len}
        = DOMAIN Written
  BY <1>1, <1>2, <1>3, <1>4
<1>6. Erase(items, len, SizeOf(h)) = Written
  BY <1>1, <1>5 DEF Erase, Written
<1>7. Erase(Written, len, SizeOf(h)) = Written
  BY <1>1, <1>2, NothingErased
<1>8. Put(items, len, h) = Put(Written, len, h)
  BY <1>2, <1>6, <1>7 DEF Put
<1>9. /\ Added(Put(Written, len, h), Written, len, h)
      /\ Mem(Put(Written, len, h), len + SizeOf(h))
  BY <1>1, PutAtEnd
<1>. QED
  BY <1>8, <1>9, <1>1, AddedGrown DEF Mem

\* The payload of a frame.
LEMMA PayloadWritten ==
    ASSUME NEW m, NEW o \in Nat, Mem(m, o), NEW n \in Nat, NEW f \in Fmts,
           NEW look \in Int, look + 10 <= n, f = "LZ4_FH" => n >= 4
    PROVE  /\ Mem(Payload(m, f, o, n, look), o + n)
           /\ Grown(Payload(m, f, o, n, look), m, o)
           /\ f = "LZ4_FH" =>
                Holds(Payload(m, f, o, n, look), o, [k |-> "blk", sz |-> n - 4])
           /\ f # "LZ4_FH" /\ look < 0 => Payload(m, f, o, n, look) = m
<1>1. Erase(m, o, n) = m
  BY NothingErased
<1>2. Grown(m, m, o) /\ Mem(m, o + n)
  BY MemLater DEF Grown
<1>3. CASE f = "LZ4_FH"
  <2>1. Payload(m, f, o, n, look) = Put(m, o, [k |-> "blk", sz |-> n - 4])
    BY <1>1, <1>3, Zenon DEF Payload
  <2> DEFINE s == [k |-> "blk", sz |-> n - 4]
  <2>2. s \in Struct
    BY <1>3 DEF Struct
  <2>3. SizeOf(s) = 4
    BY SizeOfKinds
  <2> HIDE DEF s
  <2>4. Added(Put(m, o, s), m, o, s) /\ Mem(Put(m, o, s), o + 4)
    BY <2>2, <2>3, PutAtEnd
  <2>5. Mem(Put(m, o, s), o + n)
    BY <2>4, <1>3, MemLater
  <2>6. Grown(Put(m, o, s), m, o) /\ Holds(Put(m, o, s), o, s)
    BY <2>4, AddedGrown DEF Mem
  <2>. QED
    BY <2>1, <2>5, <2>6, <1>3 DEF s
<1>4. CASE f # "LZ4_FH" /\ look >= 0
  <2>1. Payload(m, f, o, n, look) = Put(m, o + look, [k |-> "std"])
    BY <1>1, <1>4, Zenon DEF Payload
  <2> DEFINE s == [k |-> "std"]
  <2>2. s \in Struct /\ SizeOf(s) = 10
    BY SizeOfKinds DEF Struct
  <2> HIDE DEF s
  <2>3. o + look \in Nat /\ o <= o + look
    BY <1>4
  <2>4. Added(Put(m, o + look, s), m, o + look, s)
        /\ Mem(Put(m, o + look, s), o + look + 10)
    BY <2>2, <2>3, PutAtEnd
  <2>5. Mem(Put(m, o + look, s), o + n)
    BY <2>4, <1>4, MemLater
  <2>6. Grown(Put(m, o + look, s), m, o)
    BY <2>3, <2>4, AddedGrown DEF Mem, Grown
  <2>. QED
    BY <2>1, <2>5, <2>6, <1>4 DEF s
<1>5. CASE f # "LZ4_FH" /\ look < 0
  <2>1. Payload(m, f, o, n, look) = m
    <3>1. ~ (look >= 0)
      BY <1>5
    <3>. QED
      BY <1>1, <1>5, <3>1, Zenon DEF Payload
  <2>. QED
    BY <2>1, <1>2, <1>5
<1>. QED
  BY <1>3, <1>4, <1>5

LEMMA BelowKept ==
    ASSUME Layout, NEW new, Grown(new, Written, len), DOMAIN new \subseteq Nat
    PROVE  Same(items, new, len)
<1>1. len \in Nat /\ DOMAIN Written = DOMAIN items \ {len}
      /\ \A q \in DOMAIN Written : Written[q] = items[q]
  BY DEF Layout, Written
<1>. QED
  BY <1>1 DEF Same, Grown

\* The output is counted up to where memory ends.
LEMMA FootersAtEnd ==
    ASSUME NEW m, NEW e \in Nat, Mem(m, e), items' = m, len' = e
    PROVE  Footers'
<1>1. \A q \in DOMAIN m : q # e
  BY StructSize DEF Mem
<1>2. m = [q \in DOMAIN m |-> m[q]]
  BY DEF Mem
<1>3. Written' = m
  BY <1>1, <1>2 DEF Written
<1>. QED
  BY <1>1, <1>2, <1>3 DEF Footers

\* Outside the 4-byte format nothing lies behind the output.
LEMMA NothingBehind ==
    ASSUME Layout, fmt # "DEFLATE_4B"
    PROVE  Written = items /\ Mem(items, len)
<1>1. len \notin DOMAIN items /\ items = [q \in DOMAIN items |-> items[q]]
      /\ Mem(Written, len)
  BY DEF Layout, Footers
<1>. QED
  BY <1>1 DEF Written

LEMMA HeaderType ==
    ASSUME NEW f \in Fmts, NEW res \in Outputs
    PROVE  /\ OutputHeaderSz(f) \in Nat /\ OutputFooterSz(f) \in Nat
           /\ f # "DEFLATE_RAW" =>
                 /\ OutputHeaderGen(f, res) \in Struct
                 /\ SizeOf(OutputHeaderGen(f, res)) = OutputHeaderSz(f)
<1>1. res.produced \in Nat /\ res.consumed \in Nat
  BY FormatConstants
<1>2. /\ Qz4BHeaderGen(res) \in Struct /\ SizeOf(Qz4BHeaderGen(res)) = 4
      /\ StdGzipHeaderGen(res) \in Struct /\ SizeOf(StdGzipHeaderGen(res)) = 10
      /\ QzGzipHeaderGen(res) \in Struct /\ SizeOf(QzGzipHeaderGen(res)) = 24
      /\ LZ4HeaderGen(res) \in Struct /\ SizeOf(LZ4HeaderGen(res)) = 15
      /\ LZ4SBlockHeaderGen(res) \in Struct /\ SizeOf(LZ4SBlockHeaderGen(res)) = 4
      /\ StdZlibHeaderGen(res) \in Struct /\ SizeOf(StdZlibHeaderGen(res)) = 2
  <2>1. /\ Qz4BHeaderGen(res) \in Struct /\ Qz4BHeaderGen(res).k = "b4"
        /\ StdGzipHeaderGen(res) \in Struct /\ StdGzipHeaderGen(res).k = "std"
        /\ QzGzipHeaderGen(res) \in Struct /\ QzGzipHeaderGen(res).k = "qz"
    BY <1>1 DEF Struct, Qz4BHeaderGen, StdGzipHeaderGen, QzGzipHeaderGen
  <2>2. /\ LZ4HeaderGen(res) \in Struct /\ LZ4HeaderGen(res).k = "lz4"
        /\ LZ4SBlockHeaderGen(res) \in Struct /\ LZ4SBlockHeaderGen(res).k = "blk"
        /\ StdZlibHeaderGen(res) \in Struct /\ StdZlibHeaderGen(res).k = "zlib"
    BY <1>1 DEF Struct, LZ4HeaderGen, LZ4SBlockHeaderGen, StdZlibHeaderGen, Lz4Flags
  <2>. QED
    BY <2>1, <2>2, StructSize
<1>. QED
  BY <1>2, Generated DEF Fmts

LEMMA FooterType ==
    ASSUME NEW f \in Fmts, NEW res \in Outputs,
           f \notin {"DEFLATE_RAW", "LZ4S_BK"}
    PROVE  /\ OutputFooterGen(f, res) \in Struct
           /\ f # "DEFLATE_4B" =>
                 SizeOf(OutputFooterGen(f, res)) = OutputFooterSz(f)
           /\ f = "DEFLATE_4B" =>
                 /\ OutputFooterGen(f, res).k = "foot"
                 /\ OutputFooterSz(f) = 0
<1>1. res.consumed \in Nat
  BY FormatConstants
<1>2. /\ QzGzipFooterGen(res) \in Struct /\ QzGzipFooterGen(res).k = "foot"
      /\ LZ4FooterGen(res) \in Struct /\ LZ4FooterGen(res).k = "end"
      /\ QzZlibFooterGen(res) \in Struct /\ QzZlibFooterGen(res).k = "adler"
  BY <1>1 DEF Struct, QzGzipFooterGen, LZ4FooterGen, QzZlibFooterGen
<1>3. /\ SizeOf(QzGzipFooterGen(res)) = 8 /\ SizeOf(LZ4FooterGen(res)) = 8
      /\ SizeOf(QzZlibFooterGen(res)) = 4
  BY <1>2, StructSize
<1>. QED
  BY <1>2, <1>3, Generated DEF Fmts

\* A frame of the session, and what it leaves in memory.
LEMMA WriteKeeps ==
    ASSUME Layout, Writers, NEW res \in Outputs, NEW look \in Looks,
           WriteFrame(res, look)
    PROVE  Layout' /\ Writers'
<1> DEFINE h == OutputHeaderGen(fmt, res)
           t == OutputFooterGen(fmt, res)
           hs == OutputHeaderSz(fmt)
           ts == OutputFooterSz(fmt)
           n == res.produced
           body == len + hs
           foot == body + n
           m1 == Put(items, len, h)
           m2 == Payload(m1, fmt, body, n, look)
           f == [at |-> len, csz |-> n, usz |-> res.consumed,
                 std |-> fmt = "DEFLATE_GZIP", look |-> look >= 0, own |-> look < 0]
<1>1. /\ n \in Nat /\ res.consumed \in 1 .. HwBuffSz /\ HwBuffSz \in Nat
      /\ look \in Int /\ len \in Nat /\ fmt \in Fmts
  BY FormatConstants DEF Layout
<1>2. /\ phase = "write" /\ look + 10 <= n /\ (fmt = "LZ4_FH" => n >= 4)
      /\ items' = Put(m2, foot, t) /\ len' = foot + ts
      /\ frames' = Append(frames, f) /\ fmt' = fmt /\ phase' = phase
  BY DEF WriteFrame, readVars
<1>3. f \in Frame
  <2>1. res.consumed \in 0 .. 2 * HwBuffSz
    BY <1>1
  <2>2. (look >= 0) \in BOOLEAN /\ (look < 0) \in BOOLEAN
    BY <1>1
  <2>. QED
    BY <2>1, <2>2, <1>1 DEF Frame
<1>4. /\ f.at = len /\ f.csz = n /\ f.usz = res.consumed
      /\ (f.std <=> fmt = "DEFLATE_GZIP") /\ (f.look <=> look >= 0)
      /\ (f.own <=> look < 0)
  OBVIOUS
<1>. HIDE DEF f
<1>5. /\ hs \in Nat /\ ts \in Nat
      /\ fmt # "DEFLATE_RAW" => h \in Struct /\ SizeOf(h) = hs
      /\ fmt \notin {"DEFLATE_RAW", "LZ4S_BK"} =>
            /\ t \in Struct /\ (fmt # "DEFLATE_4B" => SizeOf(t) = ts)
            /\ (fmt = "DEFLATE_4B" => ts = 0 /\ t.k = "foot")
  BY <1>1, HeaderType, FooterType
<1>6. /\ fmt = "DEFLATE_4B" => h = [k |-> "b4", sz |-> n] /\ hs = 4 /\ ts = 0
      /\ fmt = "DEFLATE_RAW" => h = Nothing /\ t = Nothing /\ hs = 0 /\ ts = 0
      /\ fmt = "LZ4S_BK" => t = Nothing /\ ts = 0
      /\ fmt = "DEFLATE_GZIP" =>
            /\ h = [k |-> "std"] /\ t = [k |-> "foot", sz |-> f.usz]
            /\ hs = 10 /\ ts = 8
      /\ fmt = "DEFLATE_GZIP_EXT" =>
            h = [k |-> "qz", src |-> f.usz, dest |-> f.csz] /\ hs = 24 /\ ts = 8
      /\ fmt = "LZ4_FH" =>
            h = LZ4Header(f, Lz4Flags) /\ t = [k |-> "end"] /\ hs = 15 /\ ts = 8
  BY <1>1, <1>4, Generated
  DEF Qz4BHeaderGen, StdGzipHeaderGen, QzGzipHeaderGen, LZ4HeaderGen,
      QzGzipFooterGen, LZ4FooterGen, LZ4Header
<1>. HIDE DEF h, t, hs, ts
<1>7. /\ body = len + hs /\ foot = len + hs + n /\ body \in Nat /\ foot \in Nat
      /\ len <= body /\ body <= foot /\ foot <= len' /\ len' \in Nat
  BY <1>1, <1>2, <1>5
<1>. HIDE DEF body, foot
\* Header and payload.
<1>8. /\ Mem(m1, body) /\ Grown(m1, Written, len)
      /\ fmt # "DEFLATE_RAW" => Holds(m1, len, h)
      /\ \A q \in DOMAIN m1 : q = len \/ q \in DOMAIN Written
  <2>1. CASE fmt = "DEFLATE_RAW"
    <3>1. m1 = items
      BY <2>1, <1>6 DEF Put, Nothing
    <3>2. Written = items /\ Mem(items, len)
      BY <2>1, NothingBehind
    <3>. QED
      BY <3>1, <3>2, <2>1, <1>1, <1>6, <1>7 DEF Grown
  <2>2. CASE fmt # "DEFLATE_RAW"
    <3>1. /\ Added(m1, Written, len, h) /\ Mem(m1, len + SizeOf(h))
          /\ Grown(m1, Written, len)
      BY <2>2, <1>5, HeaderWritten
    <3>. QED
      BY <3>1, <2>2, <1>5, <1>7 DEF Added, Holds
  <2>. QED
    BY <2>1, <2>2
<1>. HIDE DEF m1
<1>9. /\ Mem(m2, foot) /\ Grown(m2, m1, body)
      /\ fmt = "LZ4_FH" => Holds(m2, body, [k |-> "blk", sz |-> n - 4])
      /\ fmt # "LZ4_FH" /\ look < 0 => m2 = m1
  <2>1. foot = body + n
    BY <1>1, <1>7
  <2>2. /\ Mem(m2, body + n) /\ Grown(m2, m1, body)
        /\ fmt = "LZ4_FH" => Holds(m2, body, [k |-> "blk", sz |-> n - 4])
        /\ fmt # "LZ4_FH" /\ look < 0 => m2 = m1
    <3>1. /\ body \in Nat /\ Mem(m1, body) /\ n \in Nat /\ fmt \in Fmts
          /\ look \in Int /\ look + 10 <= n /\ (fmt = "LZ4_FH" => n >= 4)
      BY <1>1, <1>2, <1>7, <1>8
    <3> HIDE DEF m1, n
    <3>. QED
      BY <3>1, PayloadWritten DEF m2
  <2>. QED
    BY <2>1, <2>2
<1>. HIDE DEF m2
\* The footer.
<1>10. /\ Grown(items', m2, foot) /\ DOMAIN items' \subseteq Nat
       /\ Footers'
       /\ fmt \notin {"DEFLATE_RAW", "LZ4S_BK"} => Holds(items', foot, t)
       /\ \A q \in DOMAIN items' : q = foot \/ q \in DOMAIN m2
  <2>1. CASE fmt \in {"DEFLATE_RAW", "LZ4S_BK"}
    <3>1. items' = m2 /\ len' = foot
      BY <2>1, <1>2, <1>6, <1>7 DEF Put, Nothing
    <3>. QED
      BY <3>1, <2>1, <1>7, <1>9, FootersAtEnd DEF Mem, Grown
  <2>2. CASE fmt \notin {"DEFLATE_RAW", "LZ4S_BK"}
    <3>1. /\ Added(items', m2, foot, t) /\ Mem(items', foot + SizeOf(t))
          /\ foot \notin DOMAIN m2
      BY <2>2, <1>2, <1>5, <1>7, <1>9, PutAtEnd
    <3>2. Grown(items', m2, foot) /\ Holds(items', foot, t)
      BY <3>1, <1>7, <1>9, AddedGrown DEF Mem
    <3>3. Footers'
      <4>1. CASE fmt = "DEFLATE_4B"
        <5>1. len' = foot /\ fmt' = "DEFLATE_4B"
          BY <4>1, <1>2, <1>5, <1>7, <2>2
        <5>2. Written' = m2
          <6>1. DOMAIN items' \ {foot} = DOMAIN m2
            BY <3>1 DEF Added
          <6>2. m2 = [q \in DOMAIN m2 |-> m2[q]]
            BY <1>9 DEF Mem
          <6>3. \A q \in DOMAIN m2 : items'[q] = m2[q]
            BY <3>1 DEF Added
          <6>. QED
            BY <5>1, <6>1, <6>2, <6>3 DEF Written
        <5>3. items'[foot] = t
          BY <3>1 DEF Added
        <5>4. items' = [q \in DOMAIN items' |-> items'[q]]
          BY <3>1 DEF Mem
        <5>. QED
          BY <5>1, <5>2, <5>3, <5>4, <2>2, <4>1, <1>5, <1>9 DEF Footers
      <4>2. CASE fmt # "DEFLATE_4B"
        <5>1. len' = foot + SizeOf(t)
          BY <4>2, <2>2, <1>2, <1>5
        <5>. QED
          BY <5>1, <3>1, <1>7, FootersAtEnd
      <4>. QED
        BY <4>1, <4>2
    <3>. QED
      BY <3>1, <3>2, <3>3, <2>2 DEF Added, Mem
  <2>. QED
    BY <2>1, <2>2
<1>11. Grown(items', m1, body) /\ Grown(items', Written, len)
  BY <1>1, <1>7, <1>8, <1>9, <1>10, GrownFurther
<1>12. Same(items, items', len)
  BY <1>10, <1>11, BelowKept
<1>13. fmt # "DEFLATE_RAW" => Holds(items', len, h)
  BY <1>8, <1>11 DEF Holds, Grown
<1>. HIDE DEF n
<1>14. /\ f.at \in Nat /\ f.csz \in Nat /\ hs \in Nat /\ ts \in Nat
       /\ body = f.at + hs /\ foot = f.at + hs + f.csz
       /\ len' = f.at + hs + f.csz + ts
  <2>1. f.at \in Nat /\ f.csz \in Nat /\ f.at = len /\ f.csz = n
    BY <1>3, <1>4 DEF Frame
  <2>. QED
    BY <2>1, <1>2, <1>5, <1>7
<1>15. /\ FrameOf(fmt, items', f, len')
       /\ fmt = "DEFLATE_GZIP" => ~ QzFrame(items', f, len')
  <2>1. CASE fmt = "DEFLATE_GZIP"
    <3>1. ASSUME ~ f.look, NEW q \in DOMAIN items', f.at < q, q < len'
          PROVE  items'[q].k # "std"
      <4>1. m2 = m1
        BY <3>1, <2>1, <1>1, <1>4, <1>9
      <4>2. q \notin DOMAIN Written
        BY <3>1, <1>4, <1>1, StructSize DEF Layout, Footers, Mem
      <4>3. q = foot
        BY <3>1, <4>1, <4>2, <1>4, <1>8, <1>10
      <4>. QED
        BY <4>3, <2>1, <1>6, <1>10 DEF Holds
    <3>2. hs = 10 /\ ts = 8 /\ h = [k |-> "std"] /\ t = [k |-> "foot", sz |-> f.usz]
      BY <2>1, <1>6
    <3>3. f.at + 10 + f.csz = foot /\ len' = f.at + 18 + f.csz
      BY <3>2, <1>14
    <3>4. Holds(items', f.at, h) /\ Holds(items', foot, t)
      BY <2>1, <1>4, <1>10, <1>13
    <3>5. StdFrame(items', f, len')
      BY <3>1, <3>2, <3>3, <3>4, <2>1, <1>4 DEF StdFrame
    <3>6. ~ QzFrame(items', f, len')
      BY <2>1, <1>4 DEF QzFrame
    <3>. QED
      BY <3>5, <3>6, <2>1 DEF FrameOf
  <2>2. CASE fmt = "DEFLATE_GZIP_EXT"
    <3>1. hs = 24 /\ ts = 8 /\ h = [k |-> "qz", src |-> f.usz, dest |-> f.csz]
      BY <2>2, <1>6
    <3>2. len' = f.at + 32 + f.csz
      BY <3>1, <1>14
    <3>3. Holds(items', f.at, h) /\ ~ f.std
      BY <2>2, <1>4, <1>13
    <3>4. QzFrame(items', f, len')
      BY <3>1, <3>2, <3>3 DEF QzFrame
    <3>. QED
      BY <3>4, <2>2 DEF FrameOf
  <2>3. CASE fmt = "DEFLATE_4B"
    <3>1. B4Frame(items', f, len')
      BY <2>3, <1>1, <1>2, <1>4, <1>6, <1>7, <1>13 DEF B4Frame
    <3>. QED
      BY <3>1, <2>3 DEF FrameOf
  <2>4. CASE fmt = "LZ4_FH"
    <3>1. Holds(items', body, [k |-> "blk", sz |-> n - 4])
      BY <2>4, <1>9, <1>10 DEF Holds, Grown
    <3>2. hs = 15 /\ ts = 8 /\ h = LZ4Header(f, Lz4Flags) /\ t = [k |-> "end"]
      BY <2>4, <1>6
    <3>3. body = f.at + 15 /\ foot = f.at + 15 + f.csz /\ f.csz >= 4
          /\ len' = f.at + 23 + f.csz
      BY <3>2, <2>4, <1>2, <1>4, <1>14
    <3>4. Holds(items', f.at, h) /\ Holds(items', foot, t)
      BY <2>4, <1>4, <1>10, <1>13
    <3>5. LZ4Frame(items', f, len')
      BY <3>1, <3>2, <3>3, <3>4, <1>4 DEF LZ4Frame
    <3>. QED
      BY <3>5, <2>4 DEF FrameOf
  <2>5. CASE fmt \in {"DEFLATE_RAW", "DEFLATE_ZLIB", "LZ4S_BK"}
    BY <2>5 DEF FrameOf
  <2>. QED
    BY <2>1, <2>2, <2>3, <2>4, <2>5, <1>1 DEF Fmts
<1>16. fmt = "DEFLATE_GZIP_EXT" /\ f.std => ~ f.own
  BY <1>4
<1>17. len <= len'
  BY <1>1, <1>7
<1>. QED
  BY <1>2, <1>3, <1>4, <1>7, <1>10, <1>12, <1>15, <1>16, <1>17, LayoutGrows

\* There is room at b of m for h, and behind it at o for t.
Vacant(m, b, h, o, t) ==
  /\ b \in Nat /\ o \in Nat /\ Mem(m, b)
  /\ h \in Struct /\ t \in Struct /\ b + SizeOf(h) <= o

\* new is m with h at b and t at o.
Two(new, m, b, h, o, t) ==
  /\ Mem(new, o + SizeOf(t)) /\ Grown(new, m, b)
  /\ Holds(new, b, h) /\ Holds(new, o, t)
  /\ DOMAIN new = DOMAIN m \cup {b, o}

LEMMA TwoStructs ==
    ASSUME NEW m, NEW b, NEW h, NEW o, NEW t, Vacant(m, b, h, o, t)
    PROVE  Two(Put(Put(m, b, h), o, t), m, b, h, o, t)
<1> DEFINE m1 == Put(m, b, h)
           m2 == Put(m1, o, t)
<1>. SUFFICES ASSUME b \in Nat, o \in Nat, h \in Struct, t \in Struct
     PROVE  Two(Put(Put(m, b, h), o, t), m, b, h, o, t)
  BY DEF Vacant
<1>0. /\ DOMAIN m \subseteq Nat /\ SizeOf(h) \in Nat /\ b <= b
      /\ b \in Nat /\ o \in Nat /\ Mem(m, b)
      /\ h \in Struct /\ t \in Struct /\ b + SizeOf(h) <= o
  BY StructSize DEF Mem, Vacant
<1>1. Added(m1, m, b, h) /\ Mem(m1, b + SizeOf(h))
  BY <1>0, PutAtEnd
<1>2. Grown(m1, m, b) /\ Holds(m1, b, h)
  BY <1>0, <1>1, AddedGrown
<1> HIDE DEF m1
<1>3. b + SizeOf(h) \in Nat /\ b <= o /\ DOMAIN m1 \subseteq Nat
  BY <1>0, <1>1 DEF Mem
<1>4. Added(m2, m1, o, t) /\ Mem(m2, o + SizeOf(t))
  <2>1. b + SizeOf(h) <= o
    BY <1>0
  <2>. QED
    BY <2>1, <1>1, <1>3, PutAtEnd
<1>5. Grown(m2, m1, o) /\ Holds(m2, o, t)
  BY <1>3, <1>4, AddedGrown
<1> HIDE DEF m2
<1>6. Grown(m2, m, b)
  BY <1>2, <1>3, <1>4, <1>5, GrownFurther DEF Mem
<1>7. Holds(m2, b, h)
  BY <1>2, <1>5 DEF Grown, Holds
<1>8. DOMAIN m2 = DOMAIN m \cup {b, o}
  BY <1>1, <1>4 DEF Added
<1>. QED
  BY <1>4, <1>5, <1>6, <1>7, <1>8 DEF m1, m2, Two


\* The structures of an LZ4 frame of two blocks.
LEMMA BlockStructs ==
    ASSUME NEW m, NEW b \in Nat, Mem(m, b), NEW h \in Struct, SizeOf(h) = 15,
           NEW x \in Struct, SizeOf(x) = 4, NEW y \in Struct, SizeOf(y) = 4,
           NEW t \in Struct, SizeOf(t) = 8,
           NEW o1, NEW o2, NEW o3, o1 = b + 15, o2 = b + 59, o3 = b + 115
    PROVE  LET new == Put(Put(Put(Put(m, b, h), o1, x), o2, y), o3, t)
           IN /\ Mem(new, b + 123) /\ Grown(new, m, b)
              /\ Holds(new, b, h) /\ Holds(new, o1, x)
              /\ Holds(new, o2, y) /\ Holds(new, o3, t)
<1> DEFINE m2 == Put(Put(m, b, h), o1, x)
           m4 == Put(Put(m2, o2, y), o3, t)
<1>1. /\ o1 \in Nat /\ b + SizeOf(h) <= o1 /\ o1 + SizeOf(x) <= o2
      /\ o1 + SizeOf(x) \in Nat
      /\ o2 \in Nat /\ b <= o2 /\ o3 \in Nat /\ o2 + SizeOf(y) <= o3
      /\ o3 + SizeOf(t) = b + 123
  OBVIOUS
<1>2. /\ Mem(m2, o1 + SizeOf(x)) /\ Grown(m2, m, b)
      /\ Holds(m2, b, h) /\ Holds(m2, o1, x)
  <2>1. Vacant(m, b, h, o1, x)
    BY <1>1 DEF Vacant
  <2>2. Two(m2, m, b, h, o1, x)
    BY <2>1, TwoStructs
  <2>. QED
    BY <2>2 DEF Two
<1> HIDE DEF m2
<1>3. Mem(m2, o2)
  BY <1>1, <1>2, MemLater
<1>4. /\ Mem(m4, o3 + SizeOf(t)) /\ Grown(m4, m2, o2)
      /\ Holds(m4, o2, y) /\ Holds(m4, o3, t)
  <2>1. Vacant(m2, o2, y, o3, t)
    BY <1>1, <1>3 DEF Vacant
  <2>2. Two(m4, m2, o2, y, o3, t)
    BY <2>1, TwoStructs
  <2>. QED
    BY <2>2 DEF Two
<1> HIDE DEF m4
<1>5. Grown(m4, m, b)
  BY <1>1, <1>2, <1>4, GrownFurther DEF Mem
<1>6. Holds(m4, b, h) /\ Holds(m4, o1, x)
  BY <1>2, <1>4 DEF Grown, Holds
<1>. QED
  BY <1>1, <1>4, <1>5, <1>6 DEF m2, m4

\* A frame of another program.
LEMMA ForeignKeeps ==
    ASSUME Layout, Writers, NEW kind \in Foreigns, Foreign(kind)
    PROVE  Layout' /\ Writers'
<1>1. /\ kind \in {"named", "large", "blocks", "flagged", "skippable"}
      /\ HwBuffSz \in Nat /\ HwBuffSz >= 1024 /\ DestSz(HwBuffSz) \in Nat
      /\ len \in Nat /\ Len(frames) \in Nat
  BY FormatConstants DEF Layout, DestSz
<1>2. /\ phase = "write" /\ phase' = phase /\ fmt' = fmt
      /\ fmt \in {"LZ4_FH", "DEFLATE_GZIP", "DEFLATE_GZIP_EXT"}
  BY DEF Foreign, readVars
<1>3. Written = items /\ Mem(items, len) /\ DOMAIN items \subseteq Nat
      /\ Grown(items, items, len)
  BY <1>2, NothingBehind DEF Mem, Grown
<1>4. \A n \in Nat : Erase(items, len, n) = items
  BY <1>1, <1>3, NothingErased
<1>5. PICK f \in Frame, e \in Nat :
        /\ f.at = len /\ ~ f.own /\ frames' = Append(frames, f)
        /\ len' = e /\ len <= e /\ Mem(items', e) /\ Grown(items', items, len)
        /\ FrameOf(fmt, items', f, e)
        /\ fmt = "DEFLATE_GZIP" => ~ QzFrame(items', f, e)
  <2>1. CASE kind = "named"
    <3> DEFINE f == [at |-> len, csz |-> 100, usz |-> 50, std |-> FALSE,
                     look |-> FALSE, own |-> FALSE]
               h == [k |-> "named"]
               t == [k |-> "foot", sz |-> 50]
    <3>2. h \in Struct /\ t \in Struct /\ SizeOf(h) = 10 /\ SizeOf(t) = 8
      BY SizeOfKinds DEF Struct
    <3>3. /\ frames' = Append(frames, f) /\ len' = len + 10 + 100 + SizeOf(t)
          /\ items' = Put(Put(Erase(items, len, 10 + 100), len, h), len + 10 + 100, t)
          /\ fmt \in {"DEFLATE_GZIP", "DEFLATE_GZIP_EXT"}
      BY <2>1 DEF Foreign, Nothing
    <3>4. f \in Frame /\ f.at = len /\ ~ f.own /\ f.csz = 100 /\ ~ f.std
      BY <1>1 DEF Frame
    <3>5. items' = Put(Put(items, len, h), len + 10 + 100, t)
      BY <3>3, <1>4
    <3>. HIDE DEF f, h, t
    <3>6. /\ Mem(items', len + 10 + 100 + SizeOf(t)) /\ Grown(items', items, len)
          /\ Holds(items', len, h)
      <4>1. Vacant(items, len, h, len + 10 + 100, t)
        BY <1>1, <1>3, <3>2 DEF Vacant
      <4>2. Two(items', items, len, h, len + 10 + 100, t)
        BY <3>5, <4>1, TwoStructs
      <4>. QED
        BY <4>2 DEF Two
    <3>8. len' = len + 118 /\ len' \in Nat /\ len <= len'
      BY <1>1, <3>2, <3>3
    <3>10. NamedFrame(items', f, len')
      BY <3>4, <3>6, <3>8 DEF NamedFrame, h
    <3>11. FrameOf(fmt, items', f, len') /\ ~ QzFrame(items', f, len')
      BY <3>3, <3>4, <3>6, <3>10 DEF FrameOf, QzFrame, Holds, h
    <3>. QED
      BY <3>3, <3>4, <3>6, <3>8, <3>11
  <2>2. CASE kind = "large"
    <3> DEFINE n == 2 * DestSz(HwBuffSz)
               f == [at |-> len, csz |-> n, usz |-> 2 * HwBuffSz, std |-> TRUE,
                     look |-> FALSE, own |-> FALSE]
               h == [k |-> "std"]
               t == [k |-> "foot", sz |-> 2 * HwBuffSz]
    <3>1. n \in Nat /\ 2 * HwBuffSz \in 0 .. 2 * HwBuffSz
      BY <1>1
    <3>2. h \in Struct /\ t \in Struct /\ SizeOf(h) = 10 /\ SizeOf(t) = 8
      BY <3>1, SizeOfKinds DEF Struct
    <3>3. /\ frames' = Append(frames, f) /\ len' = len + 10 + n + SizeOf(t)
          /\ items' = Put(Put(Erase(items, len, 10 + n), len, h), len + 10 + n, t)
          /\ fmt \in {"DEFLATE_GZIP", "DEFLATE_GZIP_EXT"}
      BY <2>2 DEF Foreign, Nothing
    <3>4. f \in Frame /\ f.at = len /\ ~ f.own /\ f.csz = n /\ f.usz = 2 * HwBuffSz
          /\ f.std
      BY <1>1, <3>1 DEF Frame
    <3>5. items' = Put(Put(items, len, h), len + 10 + n, t)
      BY <3>1, <3>3, <1>4
    <3>. HIDE DEF f, h, t, n
    <3>6. /\ Mem(items', len + 10 + n + SizeOf(t)) /\ Grown(items', items, len)
          /\ Holds(items', len, h) /\ Holds(items', len + 10 + n, t)
          /\ DOMAIN items' = DOMAIN items \cup {len, len + 10 + n}
      <4>1. PICK o \in Nat : o = len + 10 + n
        BY <1>1, <3>1
      <4>2. len + SizeOf(h) <= o /\ items' = Put(Put(items, len, h), o, t)
        BY <4>1, <1>1, <3>1, <3>2, <3>5
      <4>3. /\ Mem(items', o + SizeOf(t)) /\ Grown(items', items, len)
            /\ Holds(items', len, h) /\ Holds(items', o, t)
            /\ DOMAIN items' = DOMAIN items \cup {len, o}
        <5>1. Vacant(items, len, h, o, t)
          BY <4>2, <1>1, <1>3, <3>2 DEF Vacant
        <5>2. Two(items', items, len, h, o, t)
          BY <4>2, <5>1, TwoStructs
        <5>. QED
          BY <5>2 DEF Two
      <4>. QED
        BY <4>1, <4>3
    <3>8. len' = len + 18 + n /\ len' \in Nat /\ len <= len'
      BY <1>1, <3>1, <3>2, <3>3
    <3>10. ASSUME NEW q \in DOMAIN items', f.at < q, q < len'
           PROVE  items'[q].k # "std"
      <4>1. q \notin DOMAIN items
        BY <3>4, <3>10, <1>1, <1>3, StructSize DEF Mem
      <4>2. q = len + 10 + n
        BY <4>1, <3>4, <3>6, <3>10, <1>1
      <4>. QED
        BY <4>2, <3>6 DEF Holds, t
    <3>11. StdFrame(items', f, len')
      BY <1>1, <3>1, <3>4, <3>6, <3>8, <3>10 DEF StdFrame, h, t
    <3>12. FrameOf(fmt, items', f, len') /\ ~ QzFrame(items', f, len')
      BY <3>3, <3>4, <3>6, <3>11 DEF FrameOf, QzFrame, Holds, h
    <3>. QED
      BY <3>3, <3>4, <3>6, <3>8, <3>12
  <2>3. CASE kind \in {"blocks", "flagged"}
    <3> DEFINE flags == IF kind = "flagged" THEN Lz4Flags + 16 ELSE Lz4Flags
               f == [at |-> len, csz |-> 100, usz |-> 50, std |-> FALSE,
                     look |-> FALSE, own |-> FALSE]
               h == [k |-> "lz4", flags |-> flags, sz |-> 50]
               b1 == [k |-> "blk", sz |-> 40]
               b2 == [k |-> "blk", sz |-> 52]
               t == [k |-> "end"]
    <3>1. h \in Struct /\ b1 \in Struct /\ b2 \in Struct /\ t \in Struct
      BY DEF Struct, Lz4Flags
    <3>2. SizeOf(h) = 15 /\ SizeOf(b1) = 4 /\ SizeOf(b2) = 4 /\ SizeOf(t) = 8
      BY SizeOfKinds
    <3>3. /\ frames' = Append(frames, f) /\ len' = len + 15 + 100 + SizeOf(t)
          /\ items' = Put(Put(Put(Put(Erase(items, len, 15 + 100), len, h),
                                  len + 15, b1), len + 59, b2), len + 15 + 100, t)
          /\ fmt = "LZ4_FH"
      <4>1. CASE kind = "blocks"
        BY <4>1 DEF Foreign, Nothing
      <4>2. CASE kind = "flagged"
        BY <4>2 DEF Foreign, Nothing
      <4>. QED
        BY <2>3, <4>1, <4>2
    <3>4. f \in Frame /\ f.at = len /\ ~ f.own /\ f.csz = 100 /\ f.usz = 50
          /\ h = LZ4Header(f, flags)
      BY <1>1 DEF Frame, LZ4Header
    <3>. HIDE DEF f, h, b1, b2, t
    <3>5. /\ items' = Put(Put(Put(Put(items, len, h), len + 15, b1), len + 59, b2), len + 115, t)
          /\ len' = len + 123 /\ len + 123 \in Nat /\ len <= len + 123
      <4>1. len + 15 + 100 = len + 115 /\ len + 15 + 100 + 8 = len + 123
        BY <1>1
      <4>2. Erase(items, len, 15 + 100) = items
        BY <1>4
      <4>. QED
        BY <1>1, <3>2, <3>3, <4>1, <4>2
    <3>6. /\ Mem(items', len + 123) /\ Grown(items', items, len)
          /\ Holds(items', len, h) /\ Holds(items', len + 15, b1)
          /\ Holds(items', len + 59, b2) /\ Holds(items', len + 115, t)
      BY <1>1, <1>3, <3>1, <3>2, <3>5, BlockStructs
    <3>7. BlocksFrame(items', f, len') \/ FlaggedFrame(items', f, len')
      BY <2>3, <3>4, <3>5, <3>6 DEF BlocksFrame, FlaggedFrame, b1, b2, t
    <3>. QED
      BY <3>3, <3>4, <3>5, <3>6, <3>7 DEF FrameOf
  <2>5. CASE kind = "skippable"
    <3> DEFINE f == [at |-> len, csz |-> 100, usz |-> 0, std |-> FALSE,
                     look |-> FALSE, own |-> FALSE]
    <3>1. /\ frames' = Append(frames, f) /\ len' = len + 15 + 100 + SizeOf(Nothing)
          /\ items' = Put(Put(Erase(items, len, 15 + 100), len, Nothing),
                          len + 15 + 100, Nothing)
          /\ fmt = "LZ4_FH"
      BY <2>5 DEF Foreign
    <3>2. SizeOf(Nothing) = 0 /\ Nothing.k = "none"
      BY SizeOfKinds DEF Nothing
    <3>3. items' = items /\ len' = len + 115
      <4>1. Erase(items, len, 15 + 100) = items
        BY <1>4
      <4>. QED
        BY <1>1, <3>1, <3>2, <4>1 DEF Put
    <3>4. f \in Frame /\ f.at = len /\ ~ f.own /\ f.csz = 100
      BY <1>1 DEF Frame
    <3>. HIDE DEF f
    <3>5. len \notin DOMAIN items
      BY <1>1, <1>3, StructSize DEF Mem
    <3>6. SkippableFrame(items', f, len')
      BY <3>3, <3>4, <3>5 DEF SkippableFrame
    <3>7. len' \in Nat /\ len <= len' /\ Mem(items', len')
      BY <1>1, <1>3, <3>3, MemLater
    <3>. QED
      BY <3>1, <3>3, <3>4, <3>6, <3>7, <1>3 DEF FrameOf
  <2>. QED
    BY <2>1, <2>2, <2>3, <2>5, <1>1
<1>6. Same(items, items', len) /\ Footers'
  BY <1>3, <1>5, BelowKept, FootersAtEnd DEF Mem
<1>7. FrameOf(fmt, items', f, len') /\ len' \in Nat /\ len <= len'
      /\ (fmt = "DEFLATE_GZIP" => ~ QzFrame(items', f, len'))
  BY <1>5
<1>. QED
  BY <1>2, <1>5, <1>6, <1>7, LayoutGrows

-----------------------------------------------------------------------------
(* Delivery.                                                               *)

LEMMA InitFInv == FormatInit => FInv
<1>1. SUFFICES ASSUME FormatInit PROVE FInv
  OBVIOUS
<1>2. /\ fmt \in Fmts /\ items = << >> /\ len = 0 /\ frames = << >>
      /\ phase = "write" /\ avail = 0 /\ pos = 0 /\ room = 0 /\ out = << >>
  BY <1>1, FormatConstants DEF FormatInit, Fmts
<1>3. DOMAIN items = {} /\ items = [q \in {} |-> items[q]]
  BY <1>2
<1>4. Footers
  <2>1. DOMAIN Written = {} /\ Written = [q \in DOMAIN Written |-> Written[q]]
    BY <1>3 DEF Written
  <2>. QED
    BY <1>3, <2>1 DEF Footers, Mem
<1>5. Layout
  BY <1>2, <1>4 DEF Layout
<1>6. Writers
  BY <1>2 DEF Writers
<1>7. Reading
  BY <1>2 DEF Reading
<1>. QED
  BY <1>5, <1>6, <1>7 DEF FInv

\* Nothing of the stream changes: the state of the session but for its format.
LEMMA LayoutStays ==
    ASSUME Layout, Writers, UNCHANGED <<items, len, frames>>,
           phase' # "write" \/ phase' = phase,
           \/ fmt' = fmt
           \/ /\ fmt = "DEFLATE_GZIP_EXT" /\ fmt' = "DEFLATE_GZIP" /\ phase' # "write"
              /\ frames # << >> /\ frames[1].std
    PROVE  Layout' /\ Writers'
<1>0. /\ frames' = frames /\ \A i : EndAt(i)' = EndAt(i)
      /\ items' = items /\ len' = len /\ Footers'
  <2>1. Written' = Written
    BY DEF Written
  <2>. QED
    BY <2>1 DEF EndAt, Footers, Layout
<1>1. fmt' \in Fmts
  BY DEF Layout, Fmts
<1>2. \A m, f, e : FrameOf(fmt, m, f, e) => FrameOf(fmt', m, f, e)
  BY DEF FrameOf
<1>3. Layout'
  <2>1. ASSUME NEW i \in DOMAIN frames
        PROVE  /\ frames'[i].at <= EndAt(i)' /\ EndAt(i)' <= len'
               /\ \A j \in DOMAIN frames : i < j => EndAt(i)' <= frames'[j].at
               /\ FrameOf(fmt', items', frames'[i], EndAt(i)')
    <3>1. /\ frames[i].at <= EndAt(i) /\ EndAt(i) <= len
          /\ \A j \in DOMAIN frames : i < j => EndAt(i) <= frames[j].at
          /\ FrameOf(fmt, items, frames[i], EndAt(i))
      BY <2>1 DEF Layout
    <3>2. FrameOf(fmt', items, frames[i], EndAt(i))
      BY <3>1, <1>2
    <3>. QED
      BY <3>1, <3>2, <1>0
  <2>2. /\ frames' \in Seq(Frame) /\ len' \in Nat
        /\ IF frames' = << >> THEN len' = 0 ELSE frames'[1].at = 0
    BY <1>0 DEF Layout
  <2>. QED
    BY <2>1, <2>2, <1>0, <1>1 DEF Layout
<1>4. CASE fmt' = fmt
  <2>1. /\ phase # "write" => phase' # "write"
        /\ \A i : (QzFrame(items', frames'[i], EndAt(i)') <=> QzFrame(items, frames[i], EndAt(i)))
    BY <1>0
  <2>2. CASE fmt = "DEFLATE_GZIP_EXT"
    BY <2>2, <1>0, <1>3, <1>4 DEF Writers
  <2>3. CASE fmt = "DEFLATE_GZIP"
    BY <2>1, <2>3, <1>0, <1>3, <1>4 DEF Writers
  <2>. QED
    BY <2>2, <2>3, <1>3, <1>4 DEF Writers
<1>5. CASE fmt = "DEFLATE_GZIP_EXT" /\ fmt' = "DEFLATE_GZIP" /\ phase' # "write"
           /\ frames # << >> /\ frames[1].std
  <2>1. 1 \in DOMAIN frames
    BY <1>5 DEF Layout
  <2>2. ~ frames[1].own
    BY <2>1, <1>5 DEF Writers
  <2>3. phase' # "write" /\ frames' # << >> /\ ~ frames'[1].own
        /\ fmt' # "DEFLATE_GZIP_EXT"
    BY <2>2, <1>0, <1>5
  <2>. QED
    BY <2>3, <1>3 DEF Writers
<1>. QED
  BY <1>3, <1>4, <1>5

\* A frame that begins with a plain gzip header.
LEMMA StdFrames ==
    ASSUME Layout, NEW i \in DOMAIN frames,
           fmt \in {"DEFLATE_GZIP", "DEFLATE_GZIP_EXT"}, Is(frames[i].at, "std")
    PROVE  frames[i].std
<1>1. FrameOf(fmt, items, frames[i], EndAt(i))
  BY DEF Layout
<1>2. items[frames[i].at].k = "std"
  BY DEF Is
<1>3. ~ QzFrame(items, frames[i], EndAt(i))
  BY <1>2 DEF QzFrame, Holds
<1>4. ~ NamedFrame(items, frames[i], EndAt(i))
  BY <1>2 DEF NamedFrame, Holds
<1>. QED
  BY <1>1, <1>3, <1>4 DEF FrameOf, StdFrame

LEMMA DeliverKeeps ==
    ASSUME FInv, NEW a \in Cuts, NEW r \in Rooms, Deliver(a, r)
    PROVE  FInv'
<1>1. /\ phase = "write" /\ frames # << >> /\ avail' = a /\ room' = r
      /\ phase' \in {"read", "done"}
      /\ UNCHANGED <<items, len, frames, pos, force, out>>
      /\ \/ fmt' = fmt
         \/ fmt = "DEFLATE_GZIP_EXT" /\ fmt' = "DEFLATE_GZIP" /\ Is(0, "std")
  BY DEF Deliver
<1>2. Layout /\ Writers /\ Reading
  BY DEF FInv
<1>3. /\ 1 \in DOMAIN frames /\ frames[1].at = 0
      /\ Len(frames) \in Nat /\ Len(frames) # 0 /\ len \in Nat
  BY <1>1, <1>2 DEF Layout
<1>4. a \in Nat /\ a <= len /\ r \in Nat
  BY <1>3, FormatConstants DEF Cuts
<1>5. Is(0, "std") /\ fmt = "DEFLATE_GZIP_EXT" => frames[1].std
  BY <1>2, <1>3, StdFrames
<1>6. Layout' /\ Writers'
  <2>1. UNCHANGED <<items, len, frames>> /\ phase' # "write"
    BY <1>1
  <2>2. \/ fmt' = fmt
        \/ /\ fmt = "DEFLATE_GZIP_EXT" /\ fmt' = "DEFLATE_GZIP" /\ phase' # "write"
           /\ frames # << >> /\ frames[1].std
    BY <1>1, <1>5, <2>1
  <2>. QED
    BY <1>2, <2>1, <2>2, LayoutStays
<1>7. pos' = 0 /\ out' = << >> /\ frames' = frames
  BY <1>1, <1>2 DEF Reading
<1>9. Reading'
  <2>1. Len(out') = 0 /\ DOMAIN out' = {} /\ out' \in Seq([at : Nat, csz : Int, usz : Int])
    BY <1>7
  <2>2. pos' = Boundary(Len(out))'
    <3>1. Len(frames') # 0 /\ frames'[0 + 1].at = 0
      BY <1>3, <1>7
    <3>2. Boundary(Len(out))' = IF Len(out') = Len(frames') THEN len'
                                ELSE frames'[Len(out') + 1].at
      BY DEF Boundary
    <3>. QED
      BY <1>7, <2>1, <3>1, <3>2
  <2>3. Len(out') <= Len(frames') /\ \A i \in DOMAIN out' : Exact(i)'
    BY <1>3, <1>7, <2>1
  <2>. QED
    BY <1>1, <1>4, <1>7, <2>1, <2>2, <2>3 DEF Reading
<1>. QED
  BY <1>6, <1>9 DEF FInv

\* Writing does not read.
LEMMA ReadingStays ==
    ASSUME Reading, phase = "write", UNCHANGED readVars
    PROVE  Reading'
<1>1. /\ phase' = "write" /\ pos' = pos /\ room' = room /\ avail' = avail
      /\ out' = out
  BY DEF readVars
<1>2. /\ pos \in Nat /\ room \in Nat /\ avail \in Nat /\ pos = 0
      /\ out \in Seq([at : Nat, csz : Int, usz : Int]) /\ out = << >>
  BY DEF Reading
<1>. QED
  BY <1>1, <1>2 DEF Reading

LEMMA EndKeeps ==
    ASSUME FInv, EndOfSource
    PROVE  FInv'
<1>1. /\ phase = "read" /\ phase' = "done"
      /\ UNCHANGED <<fmt, items, len, frames, avail, pos, room, force, out>>
  BY DEF EndOfSource
<1>2. Layout /\ Writers /\ Reading
  BY DEF FInv
<1>3. Layout' /\ Writers'
  BY <1>1, <1>2, LayoutStays
<1>4. Reading'
  <2>1. Regular' <=> Regular
    BY <1>1 DEF Regular
  <2>2. \A i : (Exact(i)' <=> Exact(i)) /\ Boundary(i)' = Boundary(i)
    BY <1>1 DEF Exact, Boundary
  <2>. QED
    BY <1>1, <1>2, <2>1, <2>2 DEF Reading
<1>. QED
  BY <1>3, <1>4 DEF FInv

-----------------------------------------------------------------------------
(* The walk over the blocks of an LZ4 frame, a recursive function.         *)

\* Every set of natural numbers that is not empty has a least element.
LEMMA LeastNat ==
    ASSUME NEW T \in SUBSET Nat, T # {}
    PROVE  \E x \in T : \A y \in T : x <= y
<1> DEFINE F == {0..x : x \in T}
           R == StrictSubsetOrdering(Nat)
<1>1. IsWellFoundedOn(R, FiniteSubsetsOf(Nat))
  BY FS_StrictSubsetOrderingWellFounded
<1>2. F \subseteq FiniteSubsetsOf(Nat) /\ F # {}
  <2>1. \A x \in T : 0..x \in FiniteSubsetsOf(Nat)
    BY FS_Interval DEF FiniteSubsetsOf
  <2>. QED
    BY <2>1
<1>3. PICK S \in F : \A U \in F : <<U, S>> \notin R
  <2>. HIDE DEF F, R
  <2>. QED
    BY <1>1, <1>2, WFMin
<1>4. PICK x \in T : S = 0..x
  BY <1>3
<1>5. \A y \in T : ~(y < x)
  <2>1. SUFFICES ASSUME NEW y \in T, y < x PROVE FALSE
    OBVIOUS
  <2>2. 0..y \in F /\ 0..y \subseteq S /\ 0..y # S
    BY <1>4, <2>1
  <2>3. <<0..y, S>> \in (SUBSET Nat) \X (SUBSET Nat)
    BY <1>4
  <2>. QED
    BY <2>2, <2>3, <1>3 DEF StrictSubsetOrdering
<1>. QED
  BY <1>5

\* Where the walk goes after the first z bytes.
Further(z, p) == z + BlockSz(p + z - 8) + 4
Stop(z, p, a, rest) ==
  IF ~ Is(p + z - 8, "blk") THEN p + z - 8
  ELSE IF Further(z, p) > a THEN 0 ELSE rest

\* The equation that the walk solves, from the first z bytes on.
Walks(p, a, z, w) == w = [y \in z .. a |-> Stop(y, p, a, w[Further(y, p)])]

LEMMA FurtherOn ==
    ASSUME Layout, NEW z \in Nat, NEW p \in Nat
    PROVE  Further(z, p) \in Nat /\ Further(z, p) > z
<1>1. \A q \in DOMAIN items : items[q] \in Struct
  BY DEF Layout, Footers, Written, Mem
<1>2. BlockSz(p + z - 8) \in Nat
  BY <1>1 DEF BlockSz, Is, Struct
<1>. QED
  BY <1>2 DEF Further

LEMMA WalksExist ==
    ASSUME Layout, NEW p \in Nat, NEW a \in Nat
    PROVE  \E w : Walks(p, a, 0, w)
<1> DEFINE T == {n \in 0 .. a + 1 : ~ \E w : Walks(p, a, a + 1 - n, w)}
<1>1. SUFFICES ASSUME T # {} PROVE FALSE
  <2>1. a + 1 \notin T /\ a + 1 \in 0 .. a + 1 /\ a + 1 - (a + 1) = 0
    BY <1>1
  <2>. QED
    BY <2>1
<1>2. PICK n \in T : \A k \in T : n <= k
  <2>. T \in SUBSET Nat
    OBVIOUS
  <2>. HIDE DEF T
  <2>. QED
    BY <1>1, LeastNat
<1>3. CASE n = 0
  <2>1. \A x : Walks(p, a, a + 1, [y \in (a + 1) .. a |-> x])
    BY DEF Walks
  <2>. QED
    BY <2>1, <1>3
<1>4. CASE n # 0
  <2>1. n - 1 \in 0 .. a + 1 /\ n - 1 \notin T
    BY <1>4, <1>2
  <2>2. PICK z \in Nat : z = a + 1 - n
    OBVIOUS
  <2>3. z <= a /\ a + 1 - (n - 1) = z + 1
    BY <1>4, <2>2
  <2>4. PICK e : Walks(p, a, z + 1, e)
    BY <2>1, <2>3
  <2> DEFINE f == [y \in z .. a |-> IF y = z THEN Stop(z, p, a, e[Further(z, p)]) ELSE e[y]]
  <2>5. Walks(p, a, z, f)
    <3>1. ASSUME NEW y \in z .. a
          PROVE  f[y] = Stop(y, p, a, f[Further(y, p)])
      <4>1. Further(y, p) \in Nat /\ Further(y, p) > y
        <5>1. y \in Nat
          OBVIOUS
        <5>. QED
          BY <5>1, FurtherOn
      <4>2. Further(y, p) <= a => f[Further(y, p)] = e[Further(y, p)]
        BY <4>1, <2>3
      <4>3. f[y] = Stop(y, p, a, e[Further(y, p)])
        <5>1. CASE y = z
          BY <5>1
        <5>2. CASE y # z
          <6>1. y \in (z + 1) .. a
            BY <5>2
          <6>2. e[y] = Stop(y, p, a, e[Further(y, p)])
            BY <2>4, <6>1 DEF Walks
          <6>. QED
            BY <5>2, <6>2
        <5>. QED
          BY <5>1, <5>2
      <4>. HIDE DEF f
      <4>4. CASE Further(y, p) <= a
        BY <4>2, <4>3, <4>4
      <4>5. CASE Further(y, p) > a
        BY <4>3, <4>5 DEF Stop
      <4>. QED
        BY <4>1, <4>4, <4>5
    <3>2. f = [y \in z .. a |-> f[y]]
      OBVIOUS
    <3>. HIDE DEF f
    <3>. QED
      BY <3>1, <3>2 DEF Walks
  <2>. QED
    BY <2>2, <2>5
<1>. QED
  BY <1>3, <1>4

LEMMA WalkStep ==
    ASSUME Layout, NEW p \in Nat, NEW a \in Nat, NEW z \in 0 .. a
    PROVE  LZ4Walk(p, a)[z] = Stop(z, p, a, LZ4Walk(p, a)[Further(z, p)])
<1>1. \E w : Walks(p, a, 0, w)
  BY WalksExist
<1>2. LZ4Walk(p, a) = CHOOSE w : Walks(p, a, 0, w)
  BY DEF LZ4Walk, Walks, Stop, Further
<1>3. Walks(p, a, 0, LZ4Walk(p, a))
  BY <1>1, <1>2
<1>. QED
  BY <1>3 DEF Walks

-----------------------------------------------------------------------------
(* Reading: the sizes that checkHeader works out.                          *)

\* The sizes by format.
LEMMA GzipSizes ==
    ASSUME NEW p, NEW a, NEW g, fmt = "DEFLATE_GZIP"
    PROVE  FrameSizes(p, a, g) =
              [rc |-> "OK", csz |-> Minus(FindStdGzipFooter(p, a), p + 10),
               usz |-> ISize(FindStdGzipFooter(p, a), g),
               last |-> FindStdGzipFooter(p, a) = p + a - 8]
BY Zenon DEF FrameSizes

LEMMA ExtSizes ==
    ASSUME NEW p, NEW a, NEW g, fmt = "DEFLATE_GZIP_EXT"
    PROVE  FrameSizes(p, a, g) =
              IF GzipHeaderExt(p)
              THEN [rc |-> "OK", csz |-> items[p].dest, usz |-> items[p].src, last |-> FALSE]
              ELSE [rc |-> "FAIL"]
BY Zenon DEF FrameSizes

LEMMA B4Sizes ==
    ASSUME NEW p, NEW a, NEW g, fmt = "DEFLATE_4B"
    PROVE  FrameSizes(p, a, g) =
              [rc |-> "OK", csz |-> IF Is(p, "b4") THEN items[p].sz ELSE g,
               usz |-> Min({HwBuffSz, room}), last |-> FALSE]
BY Zenon DEF FrameSizes

LEMMA LZ4Sizes ==
    ASSUME NEW p, NEW a, NEW g, fmt = "LZ4_FH"
    PROVE  FrameSizes(p, a, g) =
              IF VerifyLZ4FrameHeader(p) # "OK" THEN [rc |-> VerifyLZ4FrameHeader(p)]
              ELSE IF FindLZ4Footer(p, a) = 0 THEN [rc |-> "DATA_ERROR"]
              ELSE [rc |-> "OK", csz |-> FindLZ4Footer(p, a) - p - 15,
                    usz |-> items[p].sz, last |-> FALSE]
BY Zenon DEF FrameSizes

LEMMA RawSizes ==
    ASSUME NEW p, NEW a, NEW g, fmt = "DEFLATE_RAW"
    PROVE  FrameSizes(p, a, g) =
              [rc |-> "OK", csz |-> avail, usz |-> room, last |-> FALSE]
BY Zenon DEF FrameSizes

LEMMA ZlibSizes ==
    ASSUME NEW p, NEW a, NEW g, fmt = "DEFLATE_ZLIB"
    PROVE  FrameSizes(p, a, g) =
              [rc |-> "OK", csz |-> Minus(a, 6), usz |-> Min({HwBuffSz, room}),
               last |-> FALSE]
BY Zenon DEF FrameSizes

LEMMA LZ4SSizes ==
    ASSUME NEW p, NEW a, NEW g, fmt = "LZ4S_BK"
    PROVE  FrameSizes(p, a, g) =
              [rc |-> "FAIL"]
BY Zenon DEF FrameSizes

\* What checkHeader has checked when it is satisfied.
LEMMA HeaderChecked ==
    ASSUME NEW p, NEW a \in Int, NEW g, CheckHeader(p, a, g).rc = "OK"
    PROVE  /\ CheckHeader(p, a, g) = FrameSizes(p, a, g) /\ FrameSizes(p, a, g).rc = "OK"
           /\ a > 0
           /\ ~ (FrameSizes(p, a, g).csz + OutputHeaderSz(fmt) + OutputFooterSz(fmt) > a)
           /\ ~ (FrameSizes(p, a, g).usz > room)
<1> DEFINE s == FrameSizes(p, a, g)
<1> HIDE DEF s
<1>. QED
  BY DEF CheckHeader, s

LEMMA MinOfPair ==
    ASSUME NEW x \in Int, NEW y \in Int
    PROVE  Min({x, y}) \in {x, y} /\ Min({x, y}) <= x /\ Min({x, y}) <= y
<1>1. \E z \in {x, y} : \A w \in {x, y} : z =< w
  OBVIOUS
<1>. QED
  BY <1>1 DEF Min

LEMMA MinOfSet ==
    ASSUME NEW S \in SUBSET Nat, S # {}
    PROVE  Min(S) \in S /\ \A x \in S : Min(S) <= x
<1>1. \E z \in S : \A w \in S : z =< w
  BY LeastNat
<1>. QED
  BY <1>1 DEF Min

\* What lies in memory, by what it is.
LEMMA InMemory ==
    ASSUME Layout
    PROVE  /\ DOMAIN items \subseteq Nat
           /\ \A q \in DOMAIN items : items[q] \in Struct
           /\ \A q : Is(q, "foot") => items[q].sz \in Nat
           /\ \A q : Is(q, "std") => q \in Nat
<1>1. /\ DOMAIN items \subseteq Nat
      /\ \A q \in DOMAIN items : items[q] \in Struct
  BY DEF Layout, Footers, Written, Mem
<1>2. \A q : Is(q, "foot") => items[q].sz \in Nat
  BY <1>1 DEF Is, Struct
<1>. QED
  BY <1>1, <1>2 DEF Is

\* The sizes are numbers where they are not those of the frame, too.
LEMMA SizesType ==
    ASSUME Layout, Reading, fmt \in {"DEFLATE_GZIP", "DEFLATE_RAW", "DEFLATE_ZLIB", "LZ4S_BK"},
           NEW p \in Nat, NEW a \in Int, NEW g \in Garbage, FrameSizes(p, a, g).rc = "OK"
    PROVE  FrameSizes(p, a, g).csz \in Nat /\ FrameSizes(p, a, g).usz \in Int
<1>0. HwBuffSz \in Nat /\ room \in Nat /\ avail \in Nat
  BY FormatConstants DEF Reading
<1>1. CASE fmt = "DEFLATE_GZIP"
  <2>1. FindStdGzipFooter(p, a) \in Int
    <3> DEFINE hits == {o \in DOMAIN items : o >= p + 18 /\ o + 10 <= p + a /\ Is(o, "std")}
    <3>1. hits # {} => Min(hits) \in Int
      <4>1. hits \in SUBSET Nat
        BY InMemory
      <4>. HIDE DEF hits
      <4>2. ASSUME hits # {} PROVE Min(hits) \in hits
        BY <4>1, <4>2, MinOfSet, Zenon
      <4>3. \A x \in hits : x \in Int
        BY <4>1
      <4>. QED
        BY <4>2, <4>3
    <3>. QED
      BY <3>1 DEF FindStdGzipFooter
  <2>2. g \in Int
    BY <1>0 DEF Garbage
  <2>3. ISize(FindStdGzipFooter(p, a), g) \in Int
    BY <2>2, InMemory DEF ISize
  <2>4. Minus(FindStdGzipFooter(p, a), p + 10) \in Nat
    BY <2>1 DEF Minus, Wrapped
  <2>. QED
    BY <1>1, <2>3, <2>4, GzipSizes
<1>2. CASE fmt = "DEFLATE_RAW"
  BY <1>0, <1>2, RawSizes
<1>3. CASE fmt = "DEFLATE_ZLIB"
  <2>1. Minus(a, 6) \in Nat
    BY DEF Minus, Wrapped
  <2>2. Min({HwBuffSz, room}) \in Int
    <3>1. HwBuffSz \in Int /\ room \in Int
      BY <1>0
    <3>2. Min({HwBuffSz, room}) \in {HwBuffSz, room}
      BY <3>1, MinOfPair
    <3>. QED
      BY <3>1, <3>2
  <2>. QED
    BY <1>3, <2>1, <2>2, ZlibSizes
<1>4. CASE fmt = "LZ4S_BK"
  BY <1>4, LZ4SSizes
<1>. QED
  BY <1>1, <1>2, <1>3, <1>4

\* A frame and its place.
LEMMA FramePlace ==
    ASSUME Layout, NEW i \in DOMAIN frames
    PROVE  /\ frames[i] \in Frame /\ frames[i].at \in Nat /\ frames[i].csz \in Nat
           /\ frames[i].usz \in 0 .. 2 * HwBuffSz /\ EndAt(i) \in Nat
           /\ frames[i].at <= EndAt(i) /\ EndAt(i) <= len /\ len \in Nat
           /\ FrameOf(fmt, items, frames[i], EndAt(i))
           /\ i \in Nat /\ i >= 1 /\ i <= Len(frames) /\ Len(frames) \in Nat
           /\ i # Len(frames) => i + 1 \in DOMAIN frames /\ EndAt(i) = frames[i + 1].at
<1>1. Len(frames) \in Nat /\ DOMAIN frames = 1 .. Len(frames)
      /\ \A j \in 1 .. Len(frames) : frames[j] \in Frame
  BY DEF Layout
<1>2. \A j \in 1 .. Len(frames) : /\ frames[j].at \in Nat /\ frames[j].csz \in Nat
                                  /\ frames[j].usz \in 0 .. 2 * HwBuffSz
  BY <1>1 DEF Frame
<1>3. i # Len(frames) => i + 1 \in DOMAIN frames
  BY <1>1
<1>4. EndAt(i) \in Nat /\ (i # Len(frames) => EndAt(i) = frames[i + 1].at)
  BY <1>1, <1>2, <1>3 DEF EndAt, Layout
<1>5. /\ frames[i].at <= EndAt(i) /\ EndAt(i) <= len /\ len \in Nat
      /\ FrameOf(fmt, items, frames[i], EndAt(i))
  BY DEF Layout
<1>. QED
  BY <1>1, <1>2, <1>3, <1>4, <1>5

\* The bytes that a frame has besides its data, by what it is.
LEMMA FrameKinds ==
    ASSUME Layout, NEW i \in DOMAIN frames, NEW f, f = frames[i], NEW e, e = EndAt(i)
    PROVE  /\ fmt \in {"DEFLATE_GZIP", "DEFLATE_GZIP_EXT"} =>
                QzFrame(items, f, e) \/ StdFrame(items, f, e) \/ NamedFrame(items, f, e)
           /\ fmt = "DEFLATE_4B" => B4Frame(items, f, e)
           /\ fmt = "LZ4_FH" => \/ LZ4Frame(items, f, e) \/ BlocksFrame(items, f, e)
                                \/ FlaggedFrame(items, f, e) \/ SkippableFrame(items, f, e)
BY FramePlace DEF FrameOf

LEMMA NotEmpty ==
    ASSUME Layout, fmt \in {"DEFLATE_GZIP", "DEFLATE_GZIP_EXT", "DEFLATE_4B", "LZ4_FH"},
           NEW i \in DOMAIN frames
    PROVE  frames[i].at < EndAt(i)
<1>1. frames[i].at \in Nat /\ frames[i].csz \in Nat
  BY FramePlace
<1> DEFINE f == frames[i]
           e == EndAt(i)
<1>2. \/ QzFrame(items, f, e) \/ StdFrame(items, f, e) \/ NamedFrame(items, f, e)
      \/ B4Frame(items, f, e) \/ LZ4Frame(items, f, e) \/ BlocksFrame(items, f, e)
      \/ FlaggedFrame(items, f, e) \/ SkippableFrame(items, f, e)
  BY FrameKinds
<1> HIDE DEF f, e
<1>3. f.at \in Nat /\ f.csz \in Nat
  BY <1>1 DEF f
<1>4. /\ QzFrame(items, f, e) => f.at < e
      /\ StdFrame(items, f, e) => f.at < e
      /\ NamedFrame(items, f, e) => f.at < e
      /\ B4Frame(items, f, e) => f.at < e
  BY <1>3 DEF QzFrame, StdFrame, NamedFrame, B4Frame
<1>5. /\ LZ4Frame(items, f, e) => f.at < e
      /\ BlocksFrame(items, f, e) => f.at < e
      /\ FlaggedFrame(items, f, e) => f.at < e
      /\ SkippableFrame(items, f, e) => f.at < e
  BY <1>3 DEF LZ4Frame, BlocksFrame, FlaggedFrame, SkippableFrame
<1>. QED
  BY <1>2, <1>4, <1>5 DEF f, e

\* So no two frames begin at the same place.
LEMMA StartsApart ==
    ASSUME Layout, fmt \in {"DEFLATE_GZIP", "DEFLATE_GZIP_EXT", "DEFLATE_4B", "LZ4_FH"},
           NEW i \in DOMAIN frames, NEW j \in DOMAIN frames, frames[i].at = frames[j].at
    PROVE  i = j
<1>1. \A k, l \in DOMAIN frames : k < l => EndAt(k) <= frames[l].at
  BY DEF Layout
<1>2. /\ frames[i].at < EndAt(i) /\ frames[j].at < EndAt(j)
      /\ frames[i].at \in Nat /\ EndAt(i) \in Nat /\ frames[j].at \in Nat /\ EndAt(j) \in Nat
      /\ i \in Nat /\ j \in Nat
  BY NotEmpty, FramePlace
<1>. QED
  BY <1>1, <1>2

\* The end of a plain gzip member, when the stream has nothing else.
LEMMA StdFooterSeen ==
    ASSUME Layout, fmt = "DEFLATE_GZIP",
           \A j \in DOMAIN frames : frames[j].std /\ ~ frames[j].look,
           NEW i \in DOMAIN frames, NEW p, p = frames[i].at, NEW a \in Int,
           i = Len(frames) => p + a = len, i # Len(frames) => EndAt(i) + 10 <= p + a
    PROVE  /\ FindStdGzipFooter(p, a) = p + 10 + frames[i].csz
           /\ Holds(items, FindStdGzipFooter(p, a), [k |-> "foot", sz |-> frames[i].usz])
           /\ EndAt(i) = p + 18 + frames[i].csz
<1>1. /\ p \in Nat /\ frames[i].csz \in Nat /\ EndAt(i) \in Nat /\ EndAt(i) <= len
      /\ len \in Nat
  BY FramePlace
<1>2. \A j \in DOMAIN frames : StdFrame(items, frames[j], EndAt(j))
  BY FrameKinds DEF QzFrame, NamedFrame
<1>3. /\ EndAt(i) = p + 18 + frames[i].csz
      /\ Holds(items, p + 10 + frames[i].csz, [k |-> "foot", sz |-> frames[i].usz])
      /\ \A q \in DOMAIN items : p < q /\ q < EndAt(i) => ~ Is(q, "std")
  BY <1>2 DEF StdFrame, Is
<1>4. \A q \in DOMAIN items : p < q /\ q < EndAt(i) => ~ Is(q, "std")
  BY <1>3
<1> DEFINE hits == {o \in DOMAIN items : o >= p + 18 /\ o + 10 <= p + a /\ Is(o, "std")}
<1>5. \A o \in hits : o \in Nat /\ o >= EndAt(i) /\ o + 10 <= p + a
  <2>1. SUFFICES ASSUME NEW o \in hits
                 PROVE  o \in Nat /\ o >= EndAt(i) /\ o + 10 <= p + a
    OBVIOUS
  <2>2. /\ o \in DOMAIN items /\ o >= p + 18 /\ o + 10 <= p + a /\ Is(o, "std")
    BY <2>1
  <2>3. o \in Nat
    BY <2>2, InMemory
  <2>4. o >= EndAt(i)
    <3>1. p < o
      BY <2>2, <2>3, <1>1
    <3>2. ~ (o < EndAt(i))
      BY <1>4, <2>2, <3>1
    <3>. QED
      BY <3>2, <2>3, <1>1
  <2>. QED
    BY <2>2, <2>3, <2>4
<1>6. CASE i = Len(frames)
  <2>1. EndAt(i) = len /\ p + a = len
    BY <1>6 DEF EndAt
  <2>2. hits = {}
    BY <2>1, <1>5, <1>1
  <2>3. FindStdGzipFooter(p, a) = p + a - 8
    BY <2>2 DEF FindStdGzipFooter
  <2>4. p + a - 8 = p + 10 + frames[i].csz
    <3>1. PICK c \in Nat, q \in Nat, b \in Int : c = frames[i].csz /\ q = p /\ b = a
      BY <1>1
    <3>2. q + b = q + 18 + c
      BY <3>1, <2>1, <1>3
    <3>3. q + b - 8 = q + 10 + c
      BY <3>2
    <3>. QED
      BY <3>1, <3>3
  <2>. QED
    BY <2>3, <2>4, <1>3
<1>7. CASE i # Len(frames)
  <2>1. PICK j \in DOMAIN frames : j = i + 1 /\ EndAt(i) = frames[j].at
    BY <1>7, FramePlace
  <2>2. /\ frames[j].at \in Nat /\ frames[j].csz \in Nat /\ EndAt(j) <= len
        /\ EndAt(j) = frames[j].at + 18 + frames[j].csz
        /\ Is(frames[j].at, "std")
    <3>1. StdFrame(items, frames[j], EndAt(j))
      BY <1>2
    <3>2. /\ EndAt(j) = frames[j].at + 18 + frames[j].csz
          /\ Is(frames[j].at, "std")
      BY <3>1 DEF StdFrame, Holds, Is
    <3>. QED
      BY <3>2, FramePlace
  <2>3. EndAt(i) \in hits
    <3>1. EndAt(i) \in DOMAIN items /\ Is(EndAt(i), "std")
      BY <2>1, <2>2 DEF Is
    <3>2. EndAt(i) >= p + 18
      BY <1>1, <1>3
    <3>3. EndAt(i) + 10 <= p + a
      BY <1>7
    <3>. QED
      BY <3>1, <3>2, <3>3
  <2>4. FindStdGzipFooter(p, a) = Min(hits) - 8
    BY <2>3 DEF FindStdGzipFooter
  <2>5. hits \in SUBSET Nat /\ \A o \in hits : o \in Nat /\ o >= EndAt(i)
    BY <1>5
  <2>6. Min(hits) \in hits /\ \A x \in hits : Min(hits) <= x
    <3>. HIDE DEF hits
    <3>1. hits # {}
      BY <2>3
    <3>. QED
      BY <3>1, <2>5, MinOfSet, Zenon
  <2>7. Min(hits) = EndAt(i)
    <3>. HIDE DEF hits
    <3>1. Min(hits) \in Nat /\ Min(hits) >= EndAt(i)
      BY <2>5, <2>6
    <3>2. Min(hits) <= EndAt(i)
      BY <2>3, <2>6
    <3>. QED
      BY <3>1, <3>2, <1>1
  <2>8. EndAt(i) - 8 = p + 10 + frames[i].csz
    <3>1. PICK c \in Nat, q \in Nat : c = frames[i].csz /\ q = p
      BY <1>1
    <3>2. EndAt(i) = q + 18 + c
      BY <3>1, <1>3
    <3>3. q + 18 + c - 8 = q + 10 + c
      OBVIOUS
    <3>. QED
      BY <3>1, <3>2, <3>3
  <2>9. FindStdGzipFooter(p, a) = p + 10 + frames[i].csz
    BY <2>4, <2>7, <2>8
  <2>. QED
    BY <2>9, <1>3
<1>. QED
  BY <1>6, <1>7

LEMMA StdFooter ==
    ASSUME Layout, fmt = "DEFLATE_GZIP",
           \A j \in DOMAIN frames : frames[j].std /\ ~ frames[j].look,
           NEW i \in DOMAIN frames, NEW p, p = frames[i].at, NEW a, a = len - p
    PROVE  /\ FindStdGzipFooter(p, a) = p + 10 + frames[i].csz
           /\ Holds(items, FindStdGzipFooter(p, a), [k |-> "foot", sz |-> frames[i].usz])
           /\ EndAt(i) = p + 18 + frames[i].csz
<1>1. p \in Nat /\ len \in Nat /\ a \in Int /\ p + a = len
  BY FramePlace
<1>2. ASSUME i # Len(frames)
      PROVE  EndAt(i) + 10 <= p + a
  <2>1. PICK j \in DOMAIN frames : EndAt(i) = frames[j].at
    BY <1>2, FramePlace
  <2>2. StdFrame(items, frames[j], EndAt(j))
    BY FrameKinds DEF QzFrame, NamedFrame
  <2>3. /\ frames[j].at \in Nat /\ frames[j].csz \in Nat /\ EndAt(j) <= len
        /\ EndAt(j) = frames[j].at + 18 + frames[j].csz
    <3>1. EndAt(j) = frames[j].at + 18 + frames[j].csz
      BY <2>2 DEF StdFrame
    <3>. QED
      BY <3>1, FramePlace
  <2>. QED
    BY <2>1, <2>3, <1>1
<1>. QED
  BY <1>1, <1>2, StdFooterSeen

\* The end of an LZ4 frame with a content size and no block checksums.
LEMMA LZ4Footer ==
    ASSUME Layout, NEW i \in DOMAIN frames, NEW p, p = frames[i].at, NEW a \in Nat,
           LZ4Frame(items, frames[i], EndAt(i)) \/ BlocksFrame(items, frames[i], EndAt(i))
    PROVE  /\ FindLZ4Footer(p, a) \in {0, p + 15 + frames[i].csz}
           /\ EndAt(i) <= p + a => FindLZ4Footer(p, a) = p + 15 + frames[i].csz
           /\ EndAt(i) = p + 23 + frames[i].csz
<1>1. p \in Nat /\ frames[i].csz \in Nat
  BY FramePlace
<1>2. CASE LZ4Frame(items, frames[i], EndAt(i))
  <2>1. PICK c \in Nat : c = frames[i].csz
    BY <1>1
  <2>2. c >= 4 /\ BlockSz(p + 15) = c - 4 /\ ~ Is(p + 15 + c, "blk") /\ EndAt(i) = p + 23 + c
    BY <1>2, <2>1 DEF LZ4Frame, BlockSz, Is, Holds
  <2>3. BlockSz(p + 15) + 15 + 4 + 8 = c + 23 /\ p + (c + 23) - 8 = p + 15 + c
    BY <2>2, <1>1
  <2>4. ASSUME c + 23 <= a
        PROVE  LZ4Walk(p, a)[c + 23] = p + 15 + c
    <3>1. c + 23 \in 0 .. a
      BY <2>4
    <3>2. LZ4Walk(p, a)[c + 23] = Stop(c + 23, p, a, LZ4Walk(p, a)[Further(c + 23, p)])
      BY <3>1, <1>1, WalkStep
    <3>. QED
      BY <3>2, <2>2, <2>3 DEF Stop
  <2>5. FindLZ4Footer(p, a) = IF a < 27 \/ c + 23 > a THEN 0 ELSE LZ4Walk(p, a)[c + 23]
    BY <2>3 DEF FindLZ4Footer
  <2>. QED
    BY <2>1, <2>2, <2>4, <2>5, <1>1
<1>3. CASE BlocksFrame(items, frames[i], EndAt(i))
  <2>1. /\ frames[i].csz = 100 /\ BlockSz(p + 15) = 40 /\ BlockSz(p + 59) = 52
        /\ Is(p + 59, "blk") /\ ~ Is(p + 115, "blk") /\ EndAt(i) = p + 123
    BY <1>3 DEF BlocksFrame, BlockSz, Is, Holds
  <2>2. BlockSz(p + 15) + 15 + 4 + 8 = 67 /\ p + 67 - 8 = p + 59 /\ p + 123 - 8 = p + 115
    BY <2>1, <1>1
  <2>3. ASSUME 67 <= a
        PROVE  LZ4Walk(p, a)[67] = IF 123 > a THEN 0 ELSE LZ4Walk(p, a)[123]
    <3>1. 67 \in 0 .. a /\ Further(67, p) = 123
      BY <2>1, <2>2, <2>3 DEF Further
    <3>2. LZ4Walk(p, a)[67] = Stop(67, p, a, LZ4Walk(p, a)[Further(67, p)])
      BY <3>1, <1>1, WalkStep
    <3>. QED
      BY <3>1, <3>2, <2>1, <2>2 DEF Stop
  <2>4. ASSUME 123 <= a
        PROVE  LZ4Walk(p, a)[123] = p + 115
    <3>1. 123 \in 0 .. a
      BY <2>4
    <3>2. LZ4Walk(p, a)[123] = Stop(123, p, a, LZ4Walk(p, a)[Further(123, p)])
      BY <3>1, <1>1, WalkStep
    <3>. QED
      BY <3>2, <2>1, <2>2 DEF Stop
  <2>5. FindLZ4Footer(p, a) = IF a < 27 \/ 67 > a THEN 0 ELSE LZ4Walk(p, a)[67]
    BY <2>2 DEF FindLZ4Footer
  <2>. QED
    BY <2>1, <2>3, <2>4, <2>5, <1>1
<1>. QED
  BY <1>2, <1>3

LEMMA LZ4Verified ==
    ASSUME NEW p
    PROVE  /\ Is(p, "lz4") /\ items[p].flags = Lz4Flags => VerifyLZ4FrameHeader(p) = "OK"
           /\ Is(p, "lz4") /\ items[p].flags = Lz4Flags + 16 =>
                VerifyLZ4FrameHeader(p) = "FORCE_SW"
           /\ p \notin DOMAIN items => VerifyLZ4FrameHeader(p) = "FORCE_SW"
<1>1. /\ Lz4Flags = 76 /\ 76 \div 64 = 1 /\ 1 % 4 = 1 /\ 76 \div 1 = 76 /\ 76 % 2 = 0
      /\ 76 \div 16 = 4 /\ 4 % 2 = 0 /\ 76 \div 4 = 19 /\ 19 % 2 = 1
      /\ 76 \div 8 = 9 /\ 9 % 2 = 1
      /\ 92 \div 64 = 1 /\ 92 \div 16 = 5 /\ 5 % 2 = 1
  BY DEF Lz4Flags
<1>2. ASSUME Is(p, "lz4"), items[p].flags = Lz4Flags
      PROVE  VerifyLZ4FrameHeader(p) = "OK"
  BY <1>1, <1>2 DEF VerifyLZ4FrameHeader
<1>3. ASSUME Is(p, "lz4"), items[p].flags = Lz4Flags + 16
      PROVE  VerifyLZ4FrameHeader(p) = "FORCE_SW"
  <2>1. items[p].flags = 92
    BY <1>1, <1>3
  <2>. QED
    BY <1>1, <1>3, <2>1 DEF VerifyLZ4FrameHeader
<1>4. ASSUME p \notin DOMAIN items
      PROVE  VerifyLZ4FrameHeader(p) = "FORCE_SW"
  BY <1>4 DEF VerifyLZ4FrameHeader, Is
<1>. QED
  BY <1>2, <1>3, <1>4

\* Where frames tell their length, the sizes are those of the frame.
LEMMA SizesExact ==
    ASSUME Layout, Reading, Regular, NEW i \in DOMAIN frames, NEW p, p = frames[i].at,
           NEW a \in Nat, a = avail - p, NEW g \in Garbage,
           FrameSizes(p, a, g).rc = "OK"
    PROVE  /\ FrameSizes(p, a, g).csz = frames[i].csz
           /\ FrameSizes(p, a, g).usz \in Int
           /\ fmt # "DEFLATE_4B" => FrameSizes(p, a, g).usz = frames[i].usz
           /\ EndAt(i) = p + OutputHeaderSz(fmt) + frames[i].csz + OutputFooterSz(fmt)
<1> DEFINE s == FrameSizes(p, a, g)
<1>1. /\ p \in Nat /\ frames[i].csz \in Nat /\ frames[i].usz \in Nat
      /\ EndAt(i) \in Nat /\ len \in Nat
  <2>1. HwBuffSz \in Nat
    BY FormatConstants
  <2>. QED
    BY <2>1, FramePlace
<1>2. /\ fmt = "DEFLATE_4B" => OutputHeaderSz(fmt) = 4 /\ OutputFooterSz(fmt) = 0
      /\ fmt = "DEFLATE_GZIP" => OutputHeaderSz(fmt) = 10 /\ OutputFooterSz(fmt) = 8
      /\ fmt = "DEFLATE_GZIP_EXT" => OutputHeaderSz(fmt) = 24 /\ OutputFooterSz(fmt) = 8
      /\ fmt = "LZ4_FH" => OutputHeaderSz(fmt) = 15 /\ OutputFooterSz(fmt) = 8
  BY Generated DEF Layout
<1>3. CASE fmt = "DEFLATE_GZIP"
  <2>1. avail = len /\ \A j \in DOMAIN frames : frames[j].std /\ ~ frames[j].look
    BY <1>3 DEF Regular
  <2>0. a = len - p
    BY <2>1
  <2>2. PICK q : q = FindStdGzipFooter(p, a)
    OBVIOUS
  <2>3. /\ q = p + 10 + frames[i].csz /\ EndAt(i) = p + 18 + frames[i].csz
        /\ Holds(items, q, [k |-> "foot", sz |-> frames[i].usz])
    BY <2>0, <2>1, <2>2, <1>3, StdFooter
  <2>4. s = [rc |-> "OK", csz |-> Minus(q, p + 10), usz |-> ISize(q, g), last |-> q = p + a - 8]
    BY <2>2, <1>3, GzipSizes
  <2>5. Minus(q, p + 10) = frames[i].csz
    BY <2>3, <1>1 DEF Minus
  <2>6. ISize(q, g) = frames[i].usz
    BY <2>3 DEF ISize, Is, Holds
  <2>. QED
    BY <2>3, <2>4, <2>5, <2>6, <1>1, <1>2, <1>3
<1>4. CASE fmt = "DEFLATE_GZIP_EXT"
  <2>1. /\ Is(p, "qz")
        /\ s = [rc |-> "OK", csz |-> items[p].dest, usz |-> items[p].src, last |-> FALSE]
    <3>1. s = IF GzipHeaderExt(p)
              THEN [rc |-> "OK", csz |-> items[p].dest, usz |-> items[p].src, last |-> FALSE]
              ELSE [rc |-> "FAIL"]
      BY <1>4, ExtSizes
    <3>2. GzipHeaderExt(p)
      BY <3>1
    <3>. QED
      BY <3>1, <3>2 DEF GzipHeaderExt
  <2>2. ~ StdFrame(items, frames[i], EndAt(i)) /\ ~ NamedFrame(items, frames[i], EndAt(i))
    BY <2>1 DEF StdFrame, NamedFrame, Holds, Is
  <2>3. QzFrame(items, frames[i], EndAt(i))
    BY <2>2, <1>4, FrameKinds
  <2>4. /\ items[p].src = frames[i].usz /\ items[p].dest = frames[i].csz
        /\ EndAt(i) = p + 32 + frames[i].csz
    BY <2>3 DEF QzFrame, Holds
  <2>. QED
    BY <2>1, <2>4, <1>1, <1>2, <1>4
<1>5. CASE fmt = "DEFLATE_4B"
  <2>1. B4Frame(items, frames[i], EndAt(i))
    BY <1>5, FrameKinds
  <2>2. Is(p, "b4") /\ items[p].sz = frames[i].csz /\ EndAt(i) = p + 4 + frames[i].csz
    BY <2>1 DEF B4Frame, Holds, Is
  <2>3. s = [rc |-> "OK", csz |-> IF Is(p, "b4") THEN items[p].sz ELSE g,
             usz |-> Min({HwBuffSz, room}), last |-> FALSE]
    BY <1>5, B4Sizes
  <2>4. Min({HwBuffSz, room}) \in Int
    <3>1. HwBuffSz \in Int /\ room \in Int
      BY FormatConstants DEF Reading
    <3>2. Min({HwBuffSz, room}) \in {HwBuffSz, room}
      BY <3>1, MinOfPair
    <3>. QED
      BY <3>1, <3>2
  <2>. QED
    BY <2>2, <2>3, <2>4, <1>1, <1>2, <1>5
<1>6. CASE fmt = "LZ4_FH"
  <2>1. /\ VerifyLZ4FrameHeader(p) = "OK" /\ FindLZ4Footer(p, a) # 0
        /\ s = [rc |-> "OK", csz |-> FindLZ4Footer(p, a) - p - 15, usz |-> items[p].sz,
                last |-> FALSE]
    <3>1. s = IF VerifyLZ4FrameHeader(p) # "OK" THEN [rc |-> VerifyLZ4FrameHeader(p)]
              ELSE IF FindLZ4Footer(p, a) = 0 THEN [rc |-> "DATA_ERROR"]
              ELSE [rc |-> "OK", csz |-> FindLZ4Footer(p, a) - p - 15,
                    usz |-> items[p].sz, last |-> FALSE]
      BY <1>6, LZ4Sizes
    <3>2. VerifyLZ4FrameHeader(p) = "OK" /\ FindLZ4Footer(p, a) # 0
      BY <3>1
    <3>. QED
      BY <3>1, <3>2
  <2>2. ~ SkippableFrame(items, frames[i], EndAt(i))
    BY <2>1, LZ4Verified DEF SkippableFrame
  <2>3. ~ FlaggedFrame(items, frames[i], EndAt(i))
    <3>1. SUFFICES ASSUME FlaggedFrame(items, frames[i], EndAt(i)) PROVE FALSE
      OBVIOUS
    <3>2. Is(p, "lz4") /\ items[p].flags = Lz4Flags + 16
      BY <3>1 DEF FlaggedFrame, Holds, LZ4Header, Is
    <3>. QED
      BY <3>2, <2>1, LZ4Verified
  <2>4. LZ4Frame(items, frames[i], EndAt(i)) \/ BlocksFrame(items, frames[i], EndAt(i))
    BY <2>2, <2>3, <1>6, FrameKinds
  <2>5. items[p].sz = frames[i].usz
    BY <2>4 DEF LZ4Frame, BlocksFrame, Holds, LZ4Header
  <2>6. FindLZ4Footer(p, a) = p + 15 + frames[i].csz /\ EndAt(i) = p + 23 + frames[i].csz
    BY <2>1, <2>4, LZ4Footer
  <2>. QED
    BY <2>1, <2>5, <2>6, <1>1, <1>2, <1>6
<1>. QED
  BY <1>3, <1>4, <1>5, <1>6 DEF Regular

-----------------------------------------------------------------------------
(* Reading: one frame more.                                                *)

\* The frame decompression is at.
LEMMA Current ==
    ASSUME Layout, Reading, Regular, phase = "read", pos < avail
    PROVE  /\ Len(out) + 1 \in DOMAIN frames /\ frames[Len(out) + 1].at = pos
           /\ Boundary(Len(out) + 1) = EndAt(Len(out) + 1)
<1>1. /\ Len(out) \in Nat /\ Len(frames) \in Nat /\ Len(out) <= Len(frames)
      /\ pos = Boundary(Len(out)) /\ pos \in Nat /\ avail <= len
      /\ len \in Nat /\ avail \in Nat /\ DOMAIN frames = 1 .. Len(frames)
  BY DEF Reading, Layout
<1>2. Len(out) # Len(frames)
  BY <1>1 DEF Boundary
<1>. QED
  BY <1>1, <1>2 DEF Boundary, EndAt

LEMMA Advanced ==
    ASSUME Layout, Reading, phase = "read", pos < avail, phase' = phase,
           UNCHANGED <<fmt, items, len, frames, avail>>,
           NEW c \in Int, NEW u \in Int,
           out' = Append(out, [at |-> pos, csz |-> c, usz |-> u]),
           room' \in Nat, pos' \in Nat, pos' <= avail,
           Regular => \A i \in DOMAIN frames :
             frames[i].at = pos =>
               /\ c = frames[i].csz /\ (fmt # "DEFLATE_4B" => u = frames[i].usz)
               /\ pos' = EndAt(i)
    PROVE  Reading'
<1>1. /\ pos \in Nat /\ avail \in Nat /\ avail <= len /\ frames # << >>
      /\ out \in Seq([at : Nat, csz : Int, usz : Int])
  BY DEF Reading
<1>2. /\ out' \in Seq([at : Nat, csz : Int, usz : Int])
      /\ Len(out) \in Nat /\ Len(out') = Len(out) + 1
      /\ DOMAIN out = 1 .. Len(out) /\ DOMAIN out' = 1 .. Len(out) + 1
      /\ out'[Len(out) + 1] = [at |-> pos, csz |-> c, usz |-> u]
      /\ \A j \in 1 .. Len(out) : out'[j] = out[j]
  BY <1>1
<1>3. ASSUME Regular
      PROVE  /\ Len(out') <= Len(frames') /\ pos' = Boundary(Len(out))'
             /\ \A j \in DOMAIN out' : Exact(j)'
  <2>1. PICK i \in DOMAIN frames :
          i = Len(out) + 1 /\ frames[i].at = pos /\ Boundary(i) = EndAt(i)
    BY <1>3, Current
  <2>2. c = frames[i].csz /\ (fmt # "DEFLATE_4B" => u = frames[i].usz) /\ pos' = EndAt(i)
    BY <1>3, <2>1
  <2>3. Len(frames) \in Nat /\ DOMAIN frames = 1 .. Len(frames)
    BY DEF Layout
  <2>4. Boundary(Len(out))' = Boundary(i)
    <3>1. Boundary(Len(out))' = IF Len(out') = Len(frames') THEN len'
                                ELSE frames'[Len(out') + 1].at
      BY DEF Boundary
    <3>2. Len(out') = i /\ frames' = frames /\ len' = len
      BY <1>2, <2>1
    <3>. QED
      BY <3>1, <3>2 DEF Boundary
  <2>5. ASSUME NEW j \in DOMAIN out'
        PROVE  Exact(j)'
    <3>1. CASE j = i
      BY <3>1, <2>1, <2>2, <1>2 DEF Exact
    <3>2. CASE j # i
      <4>1. j \in DOMAIN out /\ out'[j] = out[j]
        BY <3>2, <2>1, <2>5, <1>2
      <4>2. Exact(j)
        BY <4>1, <1>3 DEF Reading
      <4>. QED
        BY <4>1, <4>2 DEF Exact
    <3>. QED
      BY <3>1, <3>2
  <2>. QED
    BY <2>1, <2>2, <2>3, <2>4, <2>5, <1>2
<1>4. Regular' <=> Regular
  BY DEF Regular
<1>. QED
  BY <1>1, <1>2, <1>3, <1>4 DEF Reading

\* The call ends where it is.
LEMMA SearchEnded ==
    ASSUME Reading, phase = "read", phase' = "done",
           UNCHANGED <<fmt, items, len, frames, avail, out, pos, room>>
    PROVE  Reading'
<1>1. Regular' <=> Regular
  BY DEF Regular
<1>2. \A i : (Exact(i)' <=> Exact(i)) /\ Boundary(i)' = Boundary(i)
  BY DEF Exact, Boundary
<1>. QED
  BY <1>1, <1>2 DEF Reading

LEMMA HeaderSizes ==
    ASSUME fmt \in Fmts
    PROVE  OutputHeaderSz(fmt) \in Nat /\ OutputFooterSz(fmt) \in Nat
<1>1. /\ OutputHeaderSz(fmt) \in {0, 2, 4, 10, 15, 24}
      /\ OutputFooterSz(fmt) \in {0, 4, 8}
  BY Generated DEF Fmts
<1>. QED
  BY <1>1

LEMMA ReadKeeps ==
    ASSUME FInv, ReadFrame
    PROVE  FInv'
<1>1. /\ phase = "read" /\ pos < avail
      /\ UNCHANGED <<fmt, items, len, frames, avail>>
  BY DEF ReadFrame
<1>2. Layout /\ Writers /\ Reading
  BY DEF FInv
<1>3. /\ pos \in Nat /\ avail \in Nat /\ avail <= len /\ room \in Nat /\ len \in Nat
      /\ avail - pos \in Nat /\ HwBuffSz \in Nat
  BY <1>1, <1>2, FormatConstants DEF Reading, Layout
<1> DEFINE a == avail - pos
<1>4. PICK g, s :
        /\ g \in Garbage /\ s = CheckHeader(pos, a, g)
        /\ \/ /\ s.rc = "OK"
              /\ out' = Append(out, [at |-> pos, csz |-> s.csz, usz |-> s.usz])
              /\ pos' = pos + OutputHeaderSz(fmt) + s.csz + OutputFooterSz(fmt)
              /\ room' = room - s.usz
              /\ phase' = phase
           \/ \E i \in DOMAIN frames :
                /\ SwCan(i)
                /\ out' = Append(out, [at |-> pos, csz |-> frames[i].csz, usz |-> frames[i].usz])
                /\ pos' = IF i = Len(frames) THEN len ELSE frames[i + 1].at
                /\ room' = room - frames[i].usz
                /\ phase' = phase
           \/ phase' = "done" /\ UNCHANGED <<out, pos, room>>
  BY DEF ReadFrame
<1> HIDE DEF a
<1>5. Layout' /\ Writers'
  <2>1. phase' # "write" /\ UNCHANGED <<items, len, frames>> /\ fmt' = fmt
    BY <1>1, <1>4
  <2>. QED
    BY <2>1, <1>2, LayoutStays
<1>6. CASE /\ s.rc = "OK"
           /\ out' = Append(out, [at |-> pos, csz |-> s.csz, usz |-> s.usz])
           /\ pos' = pos + OutputHeaderSz(fmt) + s.csz + OutputFooterSz(fmt)
           /\ room' = room - s.usz
           /\ phase' = phase
  <2>1. /\ s = FrameSizes(pos, a, g) /\ s.rc = "OK" /\ a \in Nat
        /\ ~ (s.csz + OutputHeaderSz(fmt) + OutputFooterSz(fmt) > a)
        /\ ~ (s.usz > room) /\ g \in Garbage
    <3>1. a \in Int /\ CheckHeader(pos, a, g).rc = "OK" /\ a \in Nat
      BY <1>3, <1>4, <1>6 DEF a
    <3>2. /\ CheckHeader(pos, a, g) = FrameSizes(pos, a, g) /\ FrameSizes(pos, a, g).rc = "OK"
          /\ ~ (FrameSizes(pos, a, g).csz + OutputHeaderSz(fmt) + OutputFooterSz(fmt) > a)
          /\ ~ (FrameSizes(pos, a, g).usz > room)
      BY <3>1, HeaderChecked
    <3>. QED
      BY <3>1, <3>2, <1>4
  <2>2. ASSUME Regular
        PROVE  \E i \in DOMAIN frames :
                 /\ frames[i].at = pos
                 /\ s.csz = frames[i].csz /\ (fmt # "DEFLATE_4B" => s.usz = frames[i].usz)
                 /\ pos' = EndAt(i) /\ s.csz \in Nat /\ s.usz \in Int
    <3>1. PICK i \in DOMAIN frames : frames[i].at = pos
      BY <2>2, <1>1, <1>2, Current
    <3>2. a \in Nat /\ a = avail - pos /\ FrameSizes(pos, a, g).rc = "OK"
      BY <2>1 DEF a
    <3>3. /\ s.csz = frames[i].csz /\ s.usz \in Int
          /\ fmt # "DEFLATE_4B" => s.usz = frames[i].usz
          /\ EndAt(i) = pos + OutputHeaderSz(fmt) + frames[i].csz + OutputFooterSz(fmt)
      BY <3>1, <3>2, <2>1, <2>2, <1>2, SizesExact
    <3>4. frames[i].csz \in Nat
      BY <1>2, FramePlace
    <3>. QED
      BY <3>1, <3>3, <3>4, <1>6
  <2>3. s.csz \in Nat /\ s.usz \in Int
    <3>1. CASE Regular
      BY <2>2, <3>1
    <3>2. CASE ~ Regular
      <4>1. fmt \in {"DEFLATE_GZIP", "DEFLATE_RAW", "DEFLATE_ZLIB", "LZ4S_BK"}
        BY <3>2, <1>2 DEF Layout, Fmts, Regular
      <4>2. a \in Int /\ FrameSizes(pos, a, g).rc = "OK"
        BY <2>1
      <4>. QED
        BY <4>1, <4>2, <2>1, <1>2, <1>3, SizesType
    <3>. QED
      BY <3>1, <3>2
  <2>4. OutputHeaderSz(fmt) \in Nat /\ OutputFooterSz(fmt) \in Nat
    BY <1>2, HeaderSizes DEF Layout
  <2>5. pos' \in Nat /\ pos' <= avail /\ room' \in Nat
    <3>1. PICK hs \in Nat, ts \in Nat, c \in Nat, u \in Int :
            hs = OutputHeaderSz(fmt) /\ ts = OutputFooterSz(fmt) /\ c = s.csz /\ u = s.usz
      BY <2>3, <2>4
    <3>2. ~ (c + hs + ts > avail - pos) /\ ~ (u > room)
      BY <2>1, <3>1 DEF a
    <3>3. pos' = pos + hs + c + ts /\ room' = room - u
      BY <3>1, <1>6
    <3>. QED
      BY <3>2, <3>3, <1>3
  <2>6. Regular => \A i \in DOMAIN frames :
          frames[i].at = pos =>
            /\ s.csz = frames[i].csz /\ (fmt # "DEFLATE_4B" => s.usz = frames[i].usz)
            /\ pos' = EndAt(i)
    <3>1. SUFFICES ASSUME Regular, NEW i \in DOMAIN frames, frames[i].at = pos
                   PROVE  /\ s.csz = frames[i].csz /\ (fmt # "DEFLATE_4B" => s.usz = frames[i].usz)
                          /\ pos' = EndAt(i)
      OBVIOUS
    <3>2. PICK j \in DOMAIN frames :
            /\ frames[j].at = pos
            /\ s.csz = frames[j].csz /\ (fmt # "DEFLATE_4B" => s.usz = frames[j].usz)
            /\ pos' = EndAt(j)
      BY <2>2, <3>1
    <3>3. i = j
      BY <3>1, <3>2, <1>2, StartsApart DEF Regular
    <3>. QED
      BY <3>2, <3>3
  <2>7. Reading'
    BY <2>3, <2>5, <2>6, <1>1, <1>2, <1>6, Advanced
  <2>. QED
    BY <2>7, <1>5 DEF FInv
<1>7. CASE \E i \in DOMAIN frames :
             /\ SwCan(i)
             /\ out' = Append(out, [at |-> pos, csz |-> frames[i].csz, usz |-> frames[i].usz])
             /\ pos' = IF i = Len(frames) THEN len ELSE frames[i + 1].at
             /\ room' = room - frames[i].usz
             /\ phase' = phase
  <2>1. PICK i \in DOMAIN frames :
             /\ SwCan(i)
             /\ out' = Append(out, [at |-> pos, csz |-> frames[i].csz, usz |-> frames[i].usz])
             /\ pos' = EndAt(i)
             /\ room' = room - frames[i].usz
             /\ phase' = phase
    BY <1>7 DEF EndAt
  <2>2. /\ frames[i].at = pos /\ frames[i].usz <= room /\ EndAt(i) <= avail
    <3>1. len <= len
      BY <1>3
    <3>. QED
      BY <2>1, <3>1 DEF SwCan, EndAt
  <2>3. frames[i].csz \in Int /\ frames[i].usz \in Nat /\ EndAt(i) \in Nat
    BY <1>2, <1>3, FramePlace
  <2>4. room' \in Nat /\ pos' \in Nat /\ pos' <= avail
    BY <2>1, <2>2, <2>3, <1>3
  <2>5. Regular => \A j \in DOMAIN frames :
          frames[j].at = pos =>
            /\ frames[i].csz = frames[j].csz
            /\ (fmt # "DEFLATE_4B" => frames[i].usz = frames[j].usz)
            /\ pos' = EndAt(j)
    <3>1. SUFFICES ASSUME Regular, NEW j \in DOMAIN frames, frames[j].at = pos
                   PROVE  i = j
      BY <2>1
    <3>. QED
      BY <3>1, <2>2, <1>2, StartsApart DEF Regular
  <2>6. Reading'
    <3>1. frames[i].usz \in Int
      BY <2>3
    <3>. QED
      BY <3>1, <2>1, <2>3, <2>4, <2>5, <1>1, <1>2, Advanced
  <2>. QED
    BY <2>6, <1>5 DEF FInv
<1>8. CASE phase' = "done" /\ UNCHANGED <<out, pos, room>>
  <2>1. Reading'
    BY <1>1, <1>2, <1>8, SearchEnded
  <2>. QED
    BY <2>1, <1>5 DEF FInv
<1>. QED
  BY <1>4, <1>6, <1>7, <1>8

-----------------------------------------------------------------------------

LEMMA FInvNext ==
    ASSUME FInv, [FormatNext]_formatVars
    PROVE  FInv'
<1>1. ASSUME NEW res \in Outputs, NEW look \in Looks, WriteFrame(res, look)
      PROVE  FInv'
  <2>1. Layout' /\ Writers'
    BY <1>1, WriteKeeps DEF FInv
  <2>2. phase = "write" /\ UNCHANGED readVars
    BY <1>1 DEF WriteFrame
  <2>. QED
    BY <2>1, <2>2, ReadingStays DEF FInv
<1>2. ASSUME NEW kind \in Foreigns, Foreign(kind)
      PROVE  FInv'
  <2>1. Layout' /\ Writers'
    BY <1>2, ForeignKeeps DEF FInv
  <2>2. phase = "write" /\ UNCHANGED readVars
    BY <1>2 DEF Foreign
  <2>. QED
    BY <2>1, <2>2, ReadingStays DEF FInv
<1>3. ASSUME NEW a \in Cuts, NEW r \in Rooms, Deliver(a, r)
      PROVE  FInv'
  BY <1>3, DeliverKeeps
<1>4. CASE ReadFrame
  BY <1>4, ReadKeeps
<1>5. CASE EndOfSource
  BY <1>5, EndKeeps
<1>6. CASE UNCHANGED formatVars
  <2>1. /\ fmt' = fmt /\ items' = items /\ len' = len /\ frames' = frames
        /\ phase' = phase /\ avail' = avail /\ pos' = pos /\ room' = room /\ out' = out
    BY <1>6 DEF formatVars
  <2>2. Layout' /\ Writers'
    BY <2>1, LayoutStays DEF FInv
  <2>3. Reading'
    <3>1. Regular' <=> Regular
      BY <2>1 DEF Regular
    <3>2. \A i : (Exact(i)' <=> Exact(i)) /\ Boundary(i)' = Boundary(i)
      BY <2>1 DEF Exact, Boundary
    <3>. QED
      BY <2>1, <3>1, <3>2 DEF Reading, FInv
  <2>. QED
    BY <2>2, <2>3 DEF FInv
<1>. QED
  BY <1>1, <1>2, <1>3, <1>4, <1>5, <1>6 DEF FormatNext

LEMMA FInvAlways == FormatSpec => []FInv
<1>1. FInv /\ [FormatNext]_formatVars => FInv'
  BY FInvNext
<1>. QED
  BY <1>1, InitFInv, PTL DEF FormatSpec

\* FindsFrames: what checkHeader lets through lies inside the source and the
\* room that is left, and doDecompressIn moves from the beginning of one frame
\* to the beginning of the next, with the sizes that were written; for streams
\* of any number of frames.
THEOREM FramesFound == FormatSpec => []FindsFrames
<1>1. FInv => FindsFrames
  <2>1. SUFFICES ASSUME FInv PROVE FindsFrames
    OBVIOUS
  <2>2. room >= 0 /\ (phase # "write" => pos <= avail)
    BY <2>1 DEF FInv, Reading
  <2>3. Regular => \A i \in DOMAIN out : Exact(i)
    BY <2>1 DEF FInv, Reading
  <2>. QED
    BY <2>2, <2>3 DEF FindsFrames, Regular, Exact
<1>. QED
  BY <1>1, FInvAlways, PTL

-----------------------------------------------------------------------------
(* The size of the output.                                                 *)

\* The device expands a chunk by no more than the headers of stored blocks.
Stored == \A r \in Outputs : r.produced <= r.consumed + 5 * (r.consumed \div 65535 + 1)

\* What is known of the frames the session wrote.
OwnFits ==
  \A i \in DOMAIN frames :
    frames[i].own =>
      /\ ~ frames[i].look /\ frames[i].usz \in 1 .. HwBuffSz
      /\ frames[i].csz <= frames[i].usz + 5 * (frames[i].usz \div 65535 + 1)

\* The output against the plain text: the last chunk may be short.
Expansion ==
  phase = "write" /\ (\A i \in DOMAIN frames : frames[i].own) =>
    /\ SourceSz(frames) \in Nat /\ (frames # << >> => SourceSz(frames) > 0)
    /\ (\A i \in DOMAIN frames : frames[i].usz = HwBuffSz) =>
         8 * len <= 9 * SourceSz(frames)
    /\ (\A i \in 1 .. Len(frames) - 1 : frames[i].usz = HwBuffSz) =>
         8 * len <= 9 * SourceSz(frames) + 640

\* The equation that the sum of SourceSz solves.
Sums(fs, n, e) == e = [i \in 0 .. n |-> IF i = 0 THEN 0 ELSE e[i - 1] + fs[i].usz]

LEMMA SumsExist ==
    ASSUME NEW fs
    PROVE  \A n \in Nat : \E e : Sums(fs, n, e)
<1> DEFINE T == {n \in Nat : ~ \E e : Sums(fs, n, e)}
<1>1. SUFFICES ASSUME T # {} PROVE FALSE
  OBVIOUS
<1>2. PICK n \in T : \A k \in T : n <= k
  <2>. T \in SUBSET Nat
    OBVIOUS
  <2>. HIDE DEF T
  <2>. QED
    BY <1>1, LeastNat
<1>3. CASE n = 0
  <2>1. Sums(fs, 0, [i \in 0 .. 0 |-> 0])
    BY DEF Sums
  <2>. QED
    BY <2>1, <1>3
<1>4. CASE n # 0
  <2>1. n - 1 \in Nat /\ n - 1 \notin T
    BY <1>4, <1>2
  <2>2. PICK e : Sums(fs, n - 1, e)
    BY <2>1
  <2> DEFINE f == [i \in 0 .. n |-> IF i = n THEN e[n - 1] + fs[n].usz ELSE e[i]]
  <2>3. Sums(fs, n, f)
    <3>1. \A i \in 0 .. n : f[i] = IF i = 0 THEN 0 ELSE f[i - 1] + fs[i].usz
      BY <2>1, <2>2, <1>4 DEF Sums
    <3>2. f = [i \in 0 .. n |-> f[i]]
      OBVIOUS
    <3>. HIDE DEF f
    <3>. QED
      BY <3>1, <3>2 DEF Sums
  <2>. QED
    BY <2>3
<1>. QED
  BY <1>3, <1>4

LEMMA SourceSzSums ==
    ASSUME NEW fs, Len(fs) \in Nat
    PROVE  \E e : Sums(fs, Len(fs), e) /\ SourceSz(fs) = e[Len(fs)]
<1> DEFINE e == CHOOSE e : Sums(fs, Len(fs), e)
<1>1. Sums(fs, Len(fs), e)
  BY SumsExist
<1>2. SourceSz(fs) = e[Len(fs)]
  BY DEF SourceSz, Sums
<1>. QED
  BY <1>1, <1>2

\* The plain text of one frame more.
LEMMA SourceSzAppend ==
    ASSUME NEW fs \in Seq(Frame), NEW x \in Frame
    PROVE  SourceSz(Append(fs, x)) = SourceSz(fs) + x.usz
<1>1. PICK n \in Nat : n = Len(fs)
  OBVIOUS
<1> DEFINE gs == Append(fs, x)
<1>2. /\ Len(gs) = n + 1 /\ gs[n + 1] = x /\ \A i \in 1 .. n : gs[i] = fs[i]
  BY <1>1
<1> HIDE DEF gs
<1>3. PICK e : Sums(fs, n, e) /\ SourceSz(fs) = e[n]
  BY <1>1, SourceSzSums
<1>4. PICK h : Sums(gs, n + 1, h) /\ SourceSz(gs) = h[n + 1]
  <2>1. Len(gs) \in Nat
    BY <1>2
  <2>. QED
    BY <2>1, <1>2, SourceSzSums
<1>5. \A i \in 0 .. n : e[i] = IF i = 0 THEN 0 ELSE e[i - 1] + fs[i].usz
  BY <1>3 DEF Sums
<1>6. \A i \in 0 .. (n + 1) : h[i] = IF i = 0 THEN 0 ELSE h[i - 1] + gs[i].usz
  BY <1>4 DEF Sums
<1>7. \A i \in 0 .. n : h[i] = e[i]
  <2> DEFINE T == {i \in 0 .. n : h[i] # e[i]}
  <2>1. SUFFICES ASSUME T # {} PROVE FALSE
    OBVIOUS
  <2>2. PICK i \in T : \A k \in T : i <= k
    <3>. T \in SUBSET Nat
      OBVIOUS
    <3>. HIDE DEF T
    <3>. QED
      BY <2>1, LeastNat
  <2>3. i # 0
    BY <2>2, <1>5, <1>6
  <2>4. i - 1 \in 0 .. n /\ i - 1 \notin T /\ i \in 1 .. n
    BY <2>2, <2>3
  <2>5. h[i - 1] = e[i - 1] /\ gs[i].usz = fs[i].usz
    BY <2>4, <1>2
  <2>6. h[i] = h[i - 1] + gs[i].usz /\ e[i] = e[i - 1] + fs[i].usz
    BY <2>3, <2>4, <1>5, <1>6
  <2>. QED
    BY <2>2, <2>5, <2>6
<1>8. h[n + 1] = h[n] + x.usz
  BY <1>2, <1>6
<1>. QED
  BY <1>3, <1>4, <1>7, <1>8 DEF gs

LEMMA SourceSzEmpty == SourceSz(<< >>) = 0
<1>1. Len(<< >>) = 0
  OBVIOUS
<1>2. PICK e : Sums(<< >>, 0, e) /\ SourceSz(<< >>) = e[0]
  BY <1>1, SourceSzSums
<1>. QED
  BY <1>2 DEF Sums

\* A frame that the session writes.
LEMMA WriteFits ==
    ASSUME Stored, Layout, OwnFits, Expansion,
           NEW res \in Outputs, NEW look \in Looks, WriteFrame(res, look)
    PROVE  OwnFits' /\ Expansion'
<1>1. /\ HwBuffSz \in Nat /\ HwBuffSz >= 1024
      /\ res.consumed \in 1 .. HwBuffSz /\ res.produced \in Nat /\ look \in Int
      /\ res.produced <= res.consumed + 5 * (res.consumed \div 65535 + 1)
  BY FormatConstants DEF Stored
<1> DEFINE f == [at |-> len, csz |-> res.produced, usz |-> res.consumed,
                 std |-> fmt = "DEFLATE_GZIP", look |-> look >= 0, own |-> look < 0]
<1>2. PICK hs \in Nat, ts \in Nat :
        hs = OutputHeaderSz(fmt) /\ ts = OutputFooterSz(fmt) /\ hs + ts <= 32
  <2>1. /\ OutputHeaderSz(fmt) \in {0, 2, 4, 10, 15, 24}
        /\ OutputFooterSz(fmt) \in {0, 4, 8}
    BY Generated DEF Layout, Fmts
  <2>. QED
    BY <2>1
<1>3. /\ phase = "write" /\ phase' = phase /\ frames' = Append(frames, f)
      /\ len' = len + hs + res.produced + ts
  BY <1>2 DEF WriteFrame, readVars
<1>4. /\ f \in Frame /\ f.csz = res.produced /\ f.usz = res.consumed
      /\ f.own => ~ f.look
  <2>1. len \in Nat /\ res.consumed \in 0 .. 2 * HwBuffSz
    BY <1>1 DEF Layout
  <2>2. ~ (look < 0 /\ look >= 0)
    BY <1>1
  <2>3. f \in Frame
    BY <2>1, <1>1 DEF Frame
  <2>. QED
    BY <2>2, <2>3
<1> HIDE DEF f
<1>5. PICK n \in Nat : n = Len(frames)
  BY DEF Layout
<1>6. /\ frames \in Seq(Frame) /\ len \in Nat /\ DOMAIN frames = 1 .. n
      /\ Len(frames') = n + 1 /\ DOMAIN frames' = 1 .. (n + 1)
      /\ frames'[n + 1] = f /\ \A i \in 1 .. n : frames'[i] = frames[i]
  BY <1>3, <1>5 DEF Layout
<1>7. OwnFits'
  <2>1. ASSUME NEW i \in 1 .. (n + 1), frames'[i].own
        PROVE  /\ ~ frames'[i].look /\ frames'[i].usz \in 1 .. HwBuffSz
               /\ frames'[i].csz <= frames'[i].usz + 5 * (frames'[i].usz \div 65535 + 1)
    <3>1. CASE i = n + 1
      BY <3>1, <2>1, <1>1, <1>4, <1>6
    <3>2. CASE i \in 1 .. n
      BY <3>2, <2>1, <1>6 DEF OwnFits
    <3>. QED
      BY <3>1, <3>2, <1>5
  <2>. QED
    BY <2>1, <1>6 DEF OwnFits
<1>8. Expansion'
  <2>1. SUFFICES ASSUME \A i \in DOMAIN frames' : frames'[i].own
        PROVE  /\ SourceSz(frames') \in Nat /\ (frames' # << >> => SourceSz(frames') > 0)
               /\ (\A i \in DOMAIN frames' : frames'[i].usz = HwBuffSz) =>
                    8 * len' <= 9 * SourceSz(frames')
               /\ (\A i \in 1 .. Len(frames') - 1 : frames'[i].usz = HwBuffSz) =>
                    8 * len' <= 9 * SourceSz(frames') + 640
    BY DEF Expansion
  <2>2. \A i \in 1 .. n : frames[i].own
    BY <2>1, <1>6
  <2>3. PICK S \in Nat : S = SourceSz(frames)
    BY <2>2, <1>3, <1>6 DEF Expansion
  <2>4. SourceSz(frames') = S + res.consumed
    BY <2>3, <1>3, <1>4, <1>6, SourceSzAppend
  <2>5. PICK k \in Nat : k = res.consumed \div 65535 /\ 65535 * k <= res.consumed
    BY <1>1
  <2>6. res.produced <= res.consumed + 5 * (k + 1)
    BY <2>5, <1>1
  <2>7. ASSUME \A i \in 1 .. n : frames'[i].usz = HwBuffSz
        PROVE  /\ 8 * len' <= 9 * (S + res.consumed) + 640
               /\ res.consumed = HwBuffSz => 8 * len' <= 9 * (S + res.consumed)
    <3>1. \A i \in DOMAIN frames : frames[i].usz = HwBuffSz
      BY <2>7, <1>6
    <3>2. 8 * len <= 9 * S
      BY <3>1, <2>2, <2>3, <1>3, <1>6 DEF Expansion
    <3>3. len' <= len + 32 + res.consumed + 5 * (k + 1)
      <4>1. PICK q \in Nat, c \in Nat, l \in Nat :
              q = res.produced /\ c = res.consumed /\ l = len
        BY <1>1, <1>6
      <4>2. len' = l + hs + q + ts
        BY <4>1, <1>3
      <4>3. q <= c + 5 * (k + 1)
        BY <4>1, <2>6
      <4>4. l + hs + q + ts <= l + 32 + c + 5 * (k + 1)
        BY <4>3, <1>2
      <4>. QED
        BY <4>1, <4>2, <4>4
    <3>4. 8 * (32 + res.consumed + 5 * (k + 1)) <= 9 * res.consumed + 640
      BY <2>5, <1>1
    <3>5. res.consumed = HwBuffSz => 8 * (32 + res.consumed + 5 * (k + 1)) <= 9 * res.consumed
      BY <2>5, <1>1
    <3>6. len' \in Nat
      <4>1. PICK q \in Nat, l \in Nat : q = res.produced /\ l = len
        BY <1>1, <1>6
      <4>2. len' = l + hs + q + ts
        BY <4>1, <1>3
      <4>. QED
        BY <4>2, <1>2
    <3>7. PICK c \in Nat, l \in Nat, m \in Nat :
            c = res.consumed /\ l = len /\ m = len'
      BY <3>6, <1>1, <1>6
    <3>8. 8 * m <= 8 * l + 8 * (32 + c + 5 * (k + 1))
      BY <3>3, <3>7
    <3>9. 8 * m <= 9 * (S + c) + 640
      BY <3>2, <3>4, <3>7, <3>8
    <3>10. ASSUME c = HwBuffSz
           PROVE  8 * m <= 9 * (S + c)
      <4>1. 8 * (32 + c + 5 * (k + 1)) <= 9 * c
        BY <3>10, <3>5, <3>7
      <4>2. 8 * l <= 9 * S
        BY <3>2, <3>7
      <4>. QED
        BY <4>1, <4>2, <3>8
    <3>. QED
      BY <3>7, <3>9, <3>10
  <2>8. (\A i \in 1 .. (n + 1) : frames'[i].usz = HwBuffSz) =>
           res.consumed = HwBuffSz /\ \A i \in 1 .. n : frames'[i].usz = HwBuffSz
    BY <1>4, <1>6
  <2>9. SourceSz(frames') \in Nat /\ SourceSz(frames') > 0
    BY <2>4, <1>1
  <2>10. ASSUME \A i \in DOMAIN frames' : frames'[i].usz = HwBuffSz
         PROVE  8 * len' <= 9 * SourceSz(frames')
    <3>1. \A i \in 1 .. (n + 1) : frames'[i].usz = HwBuffSz
      BY <2>10, <1>6
    <3>. QED
      BY <3>1, <2>4, <2>7, <2>8
  <2>11. ASSUME \A i \in 1 .. Len(frames') - 1 : frames'[i].usz = HwBuffSz
         PROVE  8 * len' <= 9 * SourceSz(frames') + 640
    <3>1. Len(frames') - 1 = n
      BY <1>5, <1>6
    <3>2. \A i \in 1 .. n : frames'[i].usz = HwBuffSz
      BY <2>11, <3>1
    <3>. QED
      BY <3>2, <2>4, <2>7
  <2>. QED
    BY <2>9, <2>10, <2>11
<1>. QED
  BY <1>7, <1>8

LEMMA ForeignFits ==
    ASSUME Layout, OwnFits, NEW kind \in Foreigns, Foreign(kind)
    PROVE  OwnFits' /\ Expansion'
<1>1. PICK f : frames' = Append(frames, f) /\ f.own = FALSE
  BY DEF Foreign
<1>2. PICK n \in Nat : n = Len(frames) /\ DOMAIN frames = 1 .. n
  BY DEF Layout
<1>3. /\ DOMAIN frames' = 1 .. (n + 1)
      /\ frames'[n + 1] = f /\ \A i \in 1 .. n : frames'[i] = frames[i]
  BY <1>1, <1>2 DEF Layout
<1>4. n + 1 \in DOMAIN frames' /\ ~ frames'[n + 1].own
  BY <1>1, <1>3
<1>5. OwnFits'
  BY <1>2, <1>3, <1>4 DEF OwnFits
<1>6. Expansion'
  BY <1>4 DEF Expansion
<1>. QED
  BY <1>5, <1>6

\* The other steps write nothing.
LEMMA ReadFits ==
    ASSUME OwnFits, Expansion, UNCHANGED <<frames, len>>, phase' = phase \/ phase' # "write"
    PROVE  OwnFits' /\ Expansion'
<1>1. frames' = frames /\ len' = len
  OBVIOUS
<1>2. OwnFits'
  BY <1>1 DEF OwnFits
<1>3. Expansion'
  BY <1>1 DEF Expansion
<1>. QED
  BY <1>2, <1>3

LEMMA InitFits == FormatInit => OwnFits /\ Expansion
<1>1. SUFFICES ASSUME FormatInit PROVE OwnFits /\ Expansion
  OBVIOUS
<1>2. frames = << >> /\ len = 0 /\ DOMAIN frames = {}
  BY <1>1 DEF FormatInit
<1>3. OwnFits
  BY <1>2 DEF OwnFits
<1>4. Expansion
  BY <1>2, SourceSzEmpty DEF Expansion
<1>. QED
  BY <1>3, <1>4

LEMMA FitsNext ==
    ASSUME Stored, FInv, OwnFits, Expansion, [FormatNext]_formatVars
    PROVE  OwnFits' /\ Expansion'
<1>0. Layout
  BY DEF FInv
<1>1. ASSUME NEW res \in Outputs, NEW look \in Looks, WriteFrame(res, look)
      PROVE  OwnFits' /\ Expansion'
  BY <1>0, <1>1, WriteFits
<1>2. ASSUME NEW kind \in Foreigns, Foreign(kind)
      PROVE  OwnFits' /\ Expansion'
  BY <1>0, <1>2, ForeignFits
<1>3. ASSUME \/ \E a \in Cuts, r \in Rooms : Deliver(a, r)
             \/ ReadFrame \/ EndOfSource \/ UNCHANGED formatVars
      PROVE  UNCHANGED <<frames, len>> /\ (phase' = phase \/ phase' # "write")
  <2>1. CASE \E a \in Cuts, r \in Rooms : Deliver(a, r)
    BY <2>1 DEF Deliver
  <2>2. CASE ReadFrame
    BY <2>2 DEF ReadFrame
  <2>3. CASE EndOfSource
    BY <2>3 DEF EndOfSource
  <2>4. CASE UNCHANGED formatVars
    BY <2>4 DEF formatVars
  <2>. QED
    BY <1>3, <2>1, <2>2, <2>3, <2>4
<1>4. ASSUME \/ \E a \in Cuts, r \in Rooms : Deliver(a, r)
             \/ ReadFrame \/ EndOfSource \/ UNCHANGED formatVars
      PROVE  OwnFits' /\ Expansion'
  BY <1>3, <1>4, ReadFits
<1>. QED
  BY <1>1, <1>2, <1>4 DEF FormatNext

\* The bound.
LEMMA BoundOf ==
    ASSUME NEW S \in Nat
    PROVE  \/ MaxCompressedLength(S) = 0
           \/ S = 0 /\ MaxCompressedLength(S) = 34
           \/ S # 0 /\ MaxCompressedLength(S) \in Nat /\ 9 * S + 640 <= 8 * MaxCompressedLength(S)
<1>1. S = 0 => MaxCompressedLength(S) = 34
  BY DEF MaxCompressedLength
<1>2. CASE S # 0
  <2> DEFINE out_sz == (9 * S + 7) \div 8 + 48 + 1 * (OutputHeaderSz("DEFLATE_GZIP_EXT") + OutputFooterSz("DEFLATE_GZIP_EXT"))
  <2>1. S \div 65536 + (S % 65536) # 0
    BY <1>2
  <2>2. MaxCompressedLength(S) \in {0, out_sz}
    BY <1>2, <2>1 DEF MaxCompressedLength
  <2>3. OutputHeaderSz("DEFLATE_GZIP_EXT") = 24 /\ OutputFooterSz("DEFLATE_GZIP_EXT") = 8
    BY Generated DEF Fmts
  <2>4. out_sz = (9 * S + 7) \div 8 + 80
    BY <2>3
  <2>5. 8 * ((9 * S + 7) \div 8) >= 9 * S /\ (9 * S + 7) \div 8 \in Nat
    OBVIOUS
  <2>6. out_sz \in Nat /\ 9 * S + 640 <= 8 * out_sz
    BY <2>4, <2>5
  <2>. HIDE DEF out_sz
  <2>. QED
    BY <1>2, <2>2, <2>6
<1>. QED
  BY <1>1, <1>2

\* BoundHolds: what outputHeaderGen, the device and outputFooterGen write for
\* any number of full chunks and a last one fits qzMaxCompressedLength, although
\* that counts the header and footer of one chunk only.
THEOREM BoundKept == ASSUME Stored PROVE FormatSpec => []BoundHolds
<1> DEFINE I == FInv /\ OwnFits /\ Expansion
<1>1. FormatInit => I
  BY InitFInv, InitFits
<1>2. I /\ [FormatNext]_formatVars => I'
  BY FInvNext, FitsNext
<1>3. I => BoundHolds
  <2>1. SUFFICES ASSUME I, phase = "write", \A i \in DOMAIN frames : frames[i].own,
                        \A i \in 1 .. Len(frames) - 1 : frames[i].usz = HwBuffSz
                 PROVE  \/ len <= MaxCompressedLength(SourceSz(frames))
                        \/ MaxCompressedLength(SourceSz(frames)) = 0
    BY DEF BoundHolds
  <2>2. PICK S \in Nat : S = SourceSz(frames)
    BY <2>1 DEF Expansion
  <2>3. 8 * len <= 9 * S + 640 /\ len \in Nat
    BY <2>1, <2>2 DEF Expansion, FInv, Layout
  <2>4. S = 0 => len = 0
    <3>1. S = 0 => frames = << >>
      BY <2>1, <2>2 DEF Expansion
    <3>. QED
      BY <3>1, <2>1 DEF FInv, Layout
  <2>5. PICK b : b = MaxCompressedLength(S)
    OBVIOUS
  <2>6. b = 0 \/ (S = 0 /\ b = 34) \/ (b \in Nat /\ 9 * S + 640 <= 8 * b)
    BY <2>5, BoundOf
  <2>7. len <= b \/ b = 0
    BY <2>3, <2>4, <2>6
  <2>. QED
    BY <2>2, <2>5, <2>7
<1>. QED
  BY <1>1, <1>2, <1>3, PTL DEF FormatSpec

-----------------------------------------------------------------------------
(* Reading to the end.                                                     *)

\* The streams of which ReadsAll says that they are read to the end.
WholeStream ==
  /\ avail = len /\ room >= 2 * HwBuffSz
  /\ \/ fmt = "LZ4_FH"
     \/ /\ fmt \in {"DEFLATE_GZIP_EXT", "DEFLATE_GZIP", "DEFLATE_4B"}
        /\ \A i \in DOMAIN frames : frames[i].own

\* The data of a frame the session wrote fits the buffer of the device.
LEMMA OwnFitsBuffer ==
    ASSUME Layout, OwnFits, NEW i \in DOMAIN frames, frames[i].own
    PROVE  /\ frames[i].csz + 28 <= DestSz(HwBuffSz) /\ frames[i].usz <= HwBuffSz
           /\ frames[i].usz \in Nat /\ DestSz(HwBuffSz) \in Nat /\ ~ frames[i].look
<1>1. HwBuffSz \in Nat /\ HwBuffSz >= 1024
  BY FormatConstants
<1>2. PICK u \in 1 .. HwBuffSz, c \in Nat :
        u = frames[i].usz /\ c = frames[i].csz /\ c <= u + 5 * (u \div 65535 + 1)
  BY FramePlace DEF OwnFits
<1>3. PICK k \in Nat : k = u \div 65535 /\ 65535 * k <= u
  BY <1>1
<1>4. PICK d \in Nat : d = (9 * HwBuffSz) \div 8 /\ 9 * HwBuffSz <= 8 * d + 7
  BY <1>1
<1>5. c + 28 <= d + 1024
  BY <1>1, <1>2, <1>3, <1>4
<1>6. DestSz(HwBuffSz) = d + 1024
  BY <1>4 DEF DestSz
<1>7. ~ frames[i].look
  BY DEF OwnFits
<1>. QED
  BY <1>1, <1>2, <1>5, <1>6, <1>7

\* Whose frames a session finds that reads what it wrote.
LEMMA OwnKinds ==
    ASSUME Layout, Writers, NEW i \in DOMAIN frames, \A j \in DOMAIN frames : frames[j].own
    PROVE  /\ fmt = "DEFLATE_GZIP_EXT" => QzFrame(items, frames[i], EndAt(i))
           /\ fmt = "DEFLATE_GZIP" => StdFrame(items, frames[i], EndAt(i))
<1>1. ASSUME fmt = "DEFLATE_GZIP_EXT"
      PROVE  QzFrame(items, frames[i], EndAt(i))
  <2>1. ~ frames[i].std
    BY <1>1 DEF Writers
  <2>2. ~ StdFrame(items, frames[i], EndAt(i))
    BY <2>1 DEF StdFrame
  <2>3. ~ NamedFrame(items, frames[i], EndAt(i))
    BY DEF NamedFrame
  <2>. QED
    BY <1>1, <2>2, <2>3, FrameKinds
<1>2. ASSUME fmt = "DEFLATE_GZIP"
      PROVE  StdFrame(items, frames[i], EndAt(i))
  <2>1. frames # << >> => 1 \in DOMAIN frames
    BY DEF Layout
  <2>2. ~ QzFrame(items, frames[i], EndAt(i))
    BY <1>2, <2>1 DEF Writers
  <2>3. ~ NamedFrame(items, frames[i], EndAt(i))
    BY DEF NamedFrame
  <2>. QED
    BY <1>2, <2>2, <2>3, FrameKinds
<1>. QED
  BY <1>1, <1>2

LEMMA WholeRegular ==
    ASSUME Layout, Writers, OwnFits, WholeStream
    PROVE  Regular
<1>1. ASSUME fmt = "DEFLATE_GZIP"
      PROVE  \A j \in DOMAIN frames : frames[j].std /\ ~ frames[j].look
  <2>1. \A j \in DOMAIN frames : frames[j].own
    BY <1>1 DEF WholeStream
  <2>2. SUFFICES ASSUME NEW j \in DOMAIN frames
                 PROVE  frames[j].std /\ ~ frames[j].look
    OBVIOUS
  <2>3. StdFrame(items, frames[j], EndAt(j))
    BY <1>1, <2>1, OwnKinds
  <2>. QED
    BY <2>1, <2>3 DEF StdFrame, OwnFits
<1>. QED
  BY <1>1 DEF WholeStream, Regular

\* isQATProcessable by format.
LEMMA ProcessableGzip ==
    ASSUME NEW a, NEW g, fmt = "DEFLATE_GZIP" \/ fmt = "DEFLATE_GZIP_EXT"
    PROVE  IsQATProcessable(a, g) <=> GzipProcessable(0, a, g) # 0
<1>1. CASE fmt = "DEFLATE_GZIP"
  BY <1>1, Zenon DEF IsQATProcessable
<1>2. CASE fmt = "DEFLATE_GZIP_EXT"
  BY <1>2, Zenon DEF IsQATProcessable
<1>. QED
  BY <1>1, <1>2

LEMMA ProcessableB4 ==
    ASSUME NEW a, NEW g, fmt = "DEFLATE_4B"
    PROVE  IsQATProcessable(a, g) <=> Is(0, "b4") /\ items[0].sz <= DestSz(HwBuffSz)
BY Zenon DEF IsQATProcessable

LEMMA ProcessableLZ4 ==
    ASSUME NEW a, NEW g, fmt = "LZ4_FH"
    PROVE  IsQATProcessable(a, g) <=> IsQATLZ4Processable(0, a)
BY Zenon DEF IsQATProcessable

\* The device is tried where the session's own frames are.
LEMMA OwnProcessable ==
    ASSUME Layout, Writers, OwnFits, frames # << >>, NEW g \in Garbage,
           \/ fmt = "LZ4_FH" /\ frames[1].own
           \/ /\ fmt \in {"DEFLATE_GZIP_EXT", "DEFLATE_GZIP", "DEFLATE_4B"}
              /\ \A i \in DOMAIN frames : frames[i].own
    PROVE  IsQATProcessable(len, g)
<1>1. PICK f : f = frames[1] /\ 1 \in DOMAIN frames /\ f.own /\ f.at = 0
  BY DEF Layout
<1>2. PICK e : e = EndAt(1)
  OBVIOUS
<1>3. /\ f.csz \in Nat /\ e \in Nat /\ e <= len /\ len \in Nat
      /\ f.csz + 28 <= DestSz(HwBuffSz) /\ f.usz <= HwBuffSz
      /\ f.usz \in Nat /\ DestSz(HwBuffSz) \in Nat /\ HwBuffSz \in Nat
  BY <1>1, <1>2, FramePlace, OwnFitsBuffer, FormatConstants
<1>4. CASE fmt = "LZ4_FH"
  <2>1. LZ4Frame(items, f, e)
    <3>1. ~ BlocksFrame(items, f, e)
      BY <1>1 DEF BlocksFrame
    <3>2. ~ FlaggedFrame(items, f, e)
      BY <1>1 DEF FlaggedFrame
    <3>3. ~ SkippableFrame(items, f, e)
      BY <1>1 DEF SkippableFrame
    <3>. QED
      BY <3>1, <3>2, <3>3, <1>1, <1>2, <1>4, FrameKinds
  <2>2. Is(0, "lz4") /\ items[0].flags = Lz4Flags /\ e = 23 + f.csz
    BY <2>1, <1>1, <1>3 DEF LZ4Frame, Holds, LZ4Header, Is
  <2>3. VerifyLZ4FrameHeader(0) = "OK"
    BY <2>2, LZ4Verified
  <2>4. FindLZ4Footer(0, len) = 15 + f.csz
    <3>1. EndAt(1) <= 0 + len /\ LZ4Frame(items, frames[1], EndAt(1)) /\ 0 = frames[1].at
      BY <2>1, <1>1, <1>2, <1>3
    <3>2. FindLZ4Footer(0, len) = 0 + 15 + frames[1].csz
      BY <3>1, <1>1, <1>3, LZ4Footer
    <3>. QED
      BY <3>2, <1>1, <1>3
  <2>5. len >= 15 /\ 15 + f.csz # 0 /\ 15 + f.csz - 0 - 15 <= DestSz(HwBuffSz)
    BY <2>2, <1>3
  <2>6. IsQATLZ4Processable(0, len)
    <3>1. FindLZ4Footer(0, len) # 0 /\ FindLZ4Footer(0, len) - 0 - 15 <= DestSz(HwBuffSz)
      <4>1. PICK q \in Nat, c \in Nat, d \in Nat :
              q = FindLZ4Footer(0, len) /\ c = f.csz /\ d = DestSz(HwBuffSz)
        BY <2>4, <1>3
      <4>2. q = 15 + c /\ c <= d
        BY <4>1, <2>4, <1>3
      <4>3. q # 0 /\ q - 0 - 15 <= d
        BY <4>2
      <4>. QED
        BY <4>1, <4>3, Zenon
    <3>. QED
      BY <3>1, <2>2, <2>3, <2>5, Zenon DEF IsQATLZ4Processable
  <2>. QED
    BY <2>6, <1>4, ProcessableLZ4
<1>5. CASE fmt = "DEFLATE_4B"
  <2>1. B4Frame(items, f, e)
    BY <1>1, <1>2, <1>5, FrameKinds
  <2>2. Is(0, "b4") /\ items[0].sz = f.csz
    BY <2>1, <1>1 DEF B4Frame, Holds, Is
  <2>. QED
    BY <2>2, <1>3, <1>5, ProcessableB4
<1>6. CASE fmt = "DEFLATE_GZIP_EXT"
  <2>1. QzFrame(items, f, e)
    BY <1>1, <1>2, <1>6, OwnKinds
  <2>2. Is(0, "qz") /\ ~ Is(0, "std") /\ ~ Is(0, "named")
    BY <2>1, <1>1 DEF QzFrame, Holds, Is
  <2>3. GzipProcessable(0, len, g) = 1
    BY <2>2 DEF GzipProcessable
  <2>. QED
    BY <2>3, <1>6, ProcessableGzip
<1>7. CASE fmt = "DEFLATE_GZIP"
  <2>1. /\ \A i \in DOMAIN frames : StdFrame(items, frames[i], EndAt(i))
        /\ \A i \in DOMAIN frames : frames[i].std /\ ~ frames[i].look
    <3>1. \A i \in DOMAIN frames : frames[i].own
      BY <1>7
    <3>2. \A i \in DOMAIN frames : StdFrame(items, frames[i], EndAt(i))
      BY <3>1, <1>7, OwnKinds
    <3>3. \A i \in DOMAIN frames : ~ frames[i].look
      BY <3>1 DEF OwnFits
    <3>4. \A i \in DOMAIN frames : frames[i].std
      BY <3>2 DEF StdFrame
    <3>. QED
      BY <3>2, <3>3, <3>4
  <2>2. Is(0, "std") /\ e = 18 + f.csz
    <3>1. StdFrame(items, f, e)
      BY <2>1, <1>1, <1>2
    <3>. QED
      BY <3>1, <1>1, <1>3 DEF StdFrame, Holds, Is
  <2>3. PICK a \in Nat : /\ a = Min({DestSz(HwBuffSz), len})
                         /\ a \in {DestSz(HwBuffSz), len} /\ a <= DestSz(HwBuffSz) /\ a <= len
    <3>1. DestSz(HwBuffSz) \in Int /\ len \in Int
      BY <1>3
    <3>2. /\ Min({DestSz(HwBuffSz), len}) \in {DestSz(HwBuffSz), len}
          /\ Min({DestSz(HwBuffSz), len}) <= DestSz(HwBuffSz)
          /\ Min({DestSz(HwBuffSz), len}) <= len
      BY <3>1, MinOfPair
    <3>. QED
      BY <3>2, <1>3
  <2>4. 1 = Len(frames) => 0 + a = len
    <3>1. 1 = Len(frames) => e = len
      BY <1>2 DEF EndAt
    <3>. QED
      BY <3>1, <2>2, <2>3, <1>3
  <2>5. 1 # Len(frames) => EndAt(1) + 10 <= 0 + a
    <3>1. SUFFICES ASSUME 1 # Len(frames) PROVE e + 10 <= a
      BY <1>2, <2>3
    <3>2. PICK j \in DOMAIN frames : e = frames[j].at
      BY <3>1, <1>1, <1>2, FramePlace
    <3>3. EndAt(j) = frames[j].at + 18 + frames[j].csz
      BY <2>1 DEF StdFrame
    <3>4. frames[j].csz \in Nat /\ EndAt(j) <= len
      BY FramePlace
    <3>5. e + 10 <= len
      BY <3>2, <3>3, <3>4, <1>3
    <3>6. CASE a = len
      BY <3>5, <3>6
    <3>7. CASE a = DestSz(HwBuffSz)
      BY <3>7, <2>2, <1>3
    <3>. QED
      BY <3>6, <3>7, <2>3
  <2>6. PICK q : q = FindStdGzipFooter(0, a)
    OBVIOUS
  <2>7. q = 0 + 10 + f.csz /\ Holds(items, q, [k |-> "foot", sz |-> f.usz])
    <3>1. 0 = frames[1].at /\ a \in Int
      BY <1>1, <2>3
    <3>. QED
      BY <3>1, <1>1, <1>7, <2>1, <2>4, <2>5, <2>6, StdFooterSeen
  <2>8. ~ (Minus(q, 0 + 10) > DestSz(HwBuffSz)) /\ ~ (ISize(q, g) > HwBuffSz)
    <3>1. Minus(q, 0 + 10) = f.csz
      BY <2>7, <1>3 DEF Minus
    <3>2. ISize(q, g) = f.usz
      BY <2>7 DEF ISize, Is, Holds
    <3>. QED
      BY <3>1, <3>2, <1>3
  <2>9. GzipProcessable(0, len, g) = 1
    BY <2>2, <2>3, <2>6, <2>8 DEF GzipProcessable
  <2>. QED
    BY <2>9, <1>7, ProcessableGzip
<1>. QED
  BY <1>4, <1>5, <1>6, <1>7

\* There is room for the header of a frame.
LEMMA HeaderThere ==
    ASSUME Layout, Writers, OwnFits, WholeStream, NEW i \in DOMAIN frames
    PROVE  frames[i].at + OutputHeaderSz(fmt) <= EndAt(i)
<1>1. PICK f : f = frames[i]
  OBVIOUS
<1>2. PICK e : e = EndAt(i)
  OBVIOUS
<1>3. f.at \in Nat /\ f.csz \in Nat /\ e \in Nat
  BY <1>1, <1>2, FramePlace
<1>4. /\ fmt = "DEFLATE_4B" => OutputHeaderSz(fmt) = 4
      /\ fmt = "DEFLATE_GZIP" => OutputHeaderSz(fmt) = 10
      /\ fmt = "DEFLATE_GZIP_EXT" => OutputHeaderSz(fmt) = 24
      /\ fmt = "LZ4_FH" => OutputHeaderSz(fmt) = 15
  BY Generated DEF Layout
<1>5. CASE fmt = "LZ4_FH"
  <2>1. \/ LZ4Frame(items, f, e) \/ BlocksFrame(items, f, e)
        \/ FlaggedFrame(items, f, e) \/ SkippableFrame(items, f, e)
    BY <1>1, <1>2, <1>5, FrameKinds
  <2>2. f.at + 15 <= e
    BY <2>1, <1>3 DEF LZ4Frame, BlocksFrame, FlaggedFrame, SkippableFrame
  <2>. QED
    BY <2>2, <1>1, <1>2, <1>4, <1>5
<1>6. CASE fmt = "DEFLATE_4B"
  <2>1. B4Frame(items, f, e)
    BY <1>1, <1>2, <1>6, FrameKinds
  <2>2. f.at + 4 <= e
    BY <2>1, <1>3 DEF B4Frame
  <2>. QED
    BY <2>2, <1>1, <1>2, <1>4, <1>6
<1>7. CASE fmt = "DEFLATE_GZIP"
  <2>1. StdFrame(items, f, e)
    BY <1>1, <1>2, <1>7, OwnKinds DEF WholeStream
  <2>2. f.at + 10 <= e
    BY <2>1, <1>3 DEF StdFrame
  <2>. QED
    BY <2>2, <1>1, <1>2, <1>4, <1>7
<1>8. CASE fmt = "DEFLATE_GZIP_EXT"
  <2>1. QzFrame(items, f, e)
    BY <1>1, <1>2, <1>8, OwnKinds DEF WholeStream
  <2>2. f.at + 24 <= e
    BY <2>1, <1>3 DEF QzFrame
  <2>. QED
    BY <2>2, <1>1, <1>2, <1>4, <1>8
<1>. QED
  BY <1>5, <1>6, <1>7, <1>8 DEF WholeStream

\* checkHeader finds the sizes of a frame, or the software is to find them.
LEMMA SizesFound ==
    ASSUME Layout, Writers, OwnFits, Reading, WholeStream, NEW i \in DOMAIN frames,
           NEW p, p = frames[i].at, NEW a \in Nat, a = avail - p, NEW g \in Garbage
    PROVE  /\ FrameSizes(p, a, g).rc \in {"OK", "FORCE_SW"}
           /\ FrameSizes(p, a, g).rc = "OK" => ~ (FrameSizes(p, a, g).usz > room)
<1>1. /\ p \in Nat /\ frames[i].usz \in 0 .. 2 * HwBuffSz /\ HwBuffSz \in Nat
      /\ EndAt(i) \in Nat /\ EndAt(i) <= len /\ len \in Nat
      /\ avail = len /\ room >= 2 * HwBuffSz /\ room \in Nat
  BY FormatConstants, FramePlace DEF WholeStream, Reading
<1>2. Regular
  BY WholeRegular
<1>3. FrameSizes(p, a, g).rc \in {"OK", "FORCE_SW"}
  <2>1. CASE fmt = "DEFLATE_GZIP"
    BY <2>1, GzipSizes
  <2>2. CASE fmt = "DEFLATE_4B"
    BY <2>2, B4Sizes
  <2>3. CASE fmt = "DEFLATE_GZIP_EXT"
    <3>1. QzFrame(items, frames[i], EndAt(i))
      BY <2>3, OwnKinds DEF WholeStream
    <3>2. GzipHeaderExt(p)
      BY <3>1 DEF QzFrame, GzipHeaderExt, Holds, Is
    <3>. QED
      BY <2>3, <3>2, ExtSizes
  <2>4. CASE fmt = "LZ4_FH"
    <3>1. CASE LZ4Frame(items, frames[i], EndAt(i)) \/ BlocksFrame(items, frames[i], EndAt(i))
      <4>1. Is(p, "lz4") /\ items[p].flags = Lz4Flags
        BY <3>1 DEF LZ4Frame, BlocksFrame, LZ4Header, Holds, Is
      <4>2. EndAt(i) <= p + a
        BY <1>1
      <4>3. FindLZ4Footer(p, a) = p + 15 + frames[i].csz
        BY <3>1, <4>2, LZ4Footer
      <4>4. FindLZ4Footer(p, a) # 0
        <5>1. frames[i].csz \in Nat
          BY FramePlace
        <5>. QED
          BY <4>3, <5>1, <1>1
      <4>5. VerifyLZ4FrameHeader(p) = "OK"
        BY <4>1, LZ4Verified
      <4>. QED
        BY <2>4, <4>4, <4>5, LZ4Sizes
    <3>2. CASE FlaggedFrame(items, frames[i], EndAt(i))
      <4>1. Is(p, "lz4") /\ items[p].flags = Lz4Flags + 16
        BY <3>2 DEF FlaggedFrame, LZ4Header, Holds, Is
      <4>2. VerifyLZ4FrameHeader(p) = "FORCE_SW"
        BY <4>1, LZ4Verified
      <4>. QED
        BY <2>4, <4>2, LZ4Sizes
    <3>3. CASE SkippableFrame(items, frames[i], EndAt(i))
      <4>1. VerifyLZ4FrameHeader(p) = "FORCE_SW"
        BY <3>3, LZ4Verified DEF SkippableFrame
      <4>. QED
        BY <2>4, <4>1, LZ4Sizes
    <3>. QED
      BY <2>4, <3>1, <3>2, <3>3, FrameKinds
  <2>. QED
    BY <2>1, <2>2, <2>3, <2>4 DEF WholeStream
<1>4. ASSUME FrameSizes(p, a, g).rc = "OK"
      PROVE  ~ (FrameSizes(p, a, g).usz > room)
  <2>1. CASE fmt = "DEFLATE_4B"
    <3>1. HwBuffSz \in Int /\ room \in Int
      BY <1>1
    <3>2. Min({HwBuffSz, room}) \in {HwBuffSz, room} /\ Min({HwBuffSz, room}) <= room
      BY <3>1, MinOfPair
    <3>3. ~ (Min({HwBuffSz, room}) > room)
      BY <3>1, <3>2
    <3>4. FrameSizes(p, a, g).usz = Min({HwBuffSz, room})
      BY <2>1, B4Sizes
    <3>. QED
      BY <3>3, <3>4
  <2>2. CASE fmt # "DEFLATE_4B"
    <3>1. FrameSizes(p, a, g).usz = frames[i].usz
      BY <1>2, <1>4, <2>2, SizesExact
    <3>. QED
      BY <3>1, <1>1
  <2>. QED
    BY <2>1, <2>2
<1>. QED
  BY <1>3, <1>4

\* So a call that has all of the stream goes on at every frame.
LEMMA GoesOn ==
    ASSUME Layout, Writers, OwnFits, Reading, WholeStream, phase = "read", pos < avail,
           NEW g \in Garbage
    PROVE  /\ CheckHeader(pos, avail - pos, g).rc \in {"OK", "FORCE_SW"}
           /\ \E i \in DOMAIN frames : SwCan(i)
<1>1. Regular
  BY WholeRegular
<1>2. PICK i \in DOMAIN frames : frames[i].at = pos
  BY <1>1, Current
<1>3. /\ pos \in Nat /\ avail \in Nat /\ len \in Nat /\ avail = len
      /\ HwBuffSz \in Nat /\ HwBuffSz >= 1024 /\ room >= 2 * HwBuffSz /\ room \in Nat
      /\ frames[i].usz \in 0 .. 2 * HwBuffSz /\ EndAt(i) \in Nat /\ EndAt(i) <= len
  BY FormatConstants, FramePlace DEF Reading, WholeStream
<1>4. SwCan(i)
  <2>1. frames[i].usz <= room
    BY <1>3
  <2>2. IF i = Len(frames) THEN avail = len ELSE frames[i + 1].at <= avail
    BY <1>3 DEF EndAt
  <2>. QED
    BY <1>2, <2>1, <2>2 DEF SwCan
<1>5. PICK a \in Nat : a = avail - pos /\ a > 0
  BY <1>3
<1> DEFINE s == FrameSizes(pos, a, g)
<1>6. s.rc \in {"OK", "FORCE_SW"} /\ (s.rc = "OK" => ~ (s.usz > room))
  BY <1>2, <1>5, SizesFound
<1>7. OutputHeaderSz(fmt) <= a /\ OutputHeaderSz(fmt) \in Nat /\ OutputFooterSz(fmt) \in Nat
  <2>1. OutputHeaderSz(fmt) \in Nat /\ OutputFooterSz(fmt) \in Nat
    BY HeaderSizes DEF Layout
  <2>2. pos + OutputHeaderSz(fmt) <= EndAt(i)
    BY <1>2, HeaderThere
  <2>. QED
    BY <2>1, <2>2, <1>3, <1>5
<1>8. s.rc = "OK" => ~ (s.csz + OutputHeaderSz(fmt) + OutputFooterSz(fmt) > a)
  <2>1. SUFFICES ASSUME s.rc = "OK"
                 PROVE  ~ (s.csz + OutputHeaderSz(fmt) + OutputFooterSz(fmt) > a)
    OBVIOUS
  <2>2. PICK c \in Nat, hs \in Nat, ts \in Nat :
          c = frames[i].csz /\ hs = OutputHeaderSz(fmt) /\ ts = OutputFooterSz(fmt)
    BY <1>7, FramePlace
  <2>3. s.csz = c /\ EndAt(i) = pos + hs + c + ts
    BY <2>1, <2>2, <1>1, <1>2, <1>5, SizesExact
  <2>4. ~ (c + hs + ts > a)
    BY <2>3, <1>3, <1>5
  <2>. QED
    BY <2>2, <2>3, <2>4
<1>9. CheckHeader(pos, a, g).rc \in {"OK", "FORCE_SW"}
  <2>1. ~ (a <= 0) /\ ~ (room <= 0) /\ ~ (a < OutputHeaderSz(fmt))
    BY <1>3, <1>5, <1>7
  <2>. HIDE DEF s
  <2>. QED
    BY <2>1, <1>6, <1>8 DEF CheckHeader, s
<1>. QED
  BY <1>4, <1>5, <1>9

LEMMA ReadsOn ==
    ASSUME FInv, OwnFits, ReadFrame
    PROVE  ReadsAll'
<1>1. /\ phase = "read" /\ pos < avail
      /\ UNCHANGED <<fmt, items, len, frames, avail>>
  BY DEF ReadFrame
<1>2. Layout /\ Writers /\ Reading
  BY DEF FInv
<1>3. SUFFICES ASSUME phase' = "done", WholeStream' PROVE FALSE
  BY DEF ReadsAll, WholeStream
<1>4. PICK g \in Garbage :
        /\ UNCHANGED <<out, pos, room>>
        /\ \/ ~ \E i \in DOMAIN frames : SwCan(i)
           \/ CheckHeader(pos, avail - pos, g).rc \notin {"OK", "FORCE_SW"}
  BY <1>1, <1>3 DEF ReadFrame
<1>5. WholeStream
  BY <1>1, <1>3, <1>4 DEF WholeStream
<1>6. /\ CheckHeader(pos, avail - pos, g).rc \in {"OK", "FORCE_SW"}
      /\ \E i \in DOMAIN frames : SwCan(i)
  BY <1>1, <1>2, <1>5, GoesOn
<1>. QED
  BY <1>4, <1>6

LEMMA ReadToEnd ==
    ASSUME FInv, OwnFits, EndOfSource
    PROVE  ReadsAll'
<1>1. /\ phase = "read" /\ pos >= avail
      /\ UNCHANGED <<fmt, items, len, frames, avail, pos, room, force, out>>
  BY DEF EndOfSource
<1>2. Layout /\ Writers /\ Reading
  BY DEF FInv
<1>3. SUFFICES ASSUME WholeStream' PROVE Len(out) = Len(frames)
  BY <1>1 DEF ReadsAll, WholeStream
<1>4. WholeStream
  BY <1>1, <1>3 DEF WholeStream
<1>5. Regular
  BY <1>2, <1>4, WholeRegular
<1>6. /\ Len(out) \in Nat /\ Len(frames) \in Nat /\ Len(out) <= Len(frames)
      /\ pos = Boundary(Len(out)) /\ pos \in Nat /\ len \in Nat /\ pos >= len
      /\ DOMAIN frames = 1 .. Len(frames)
  BY <1>1, <1>2, <1>4, <1>5 DEF Reading, Layout, WholeStream
<1>7. SUFFICES ASSUME Len(out) # Len(frames) PROVE FALSE
  OBVIOUS
<1>8. PICK i \in DOMAIN frames : i = Len(out) + 1 /\ pos = frames[i].at
  BY <1>6, <1>7 DEF Boundary
<1>9. frames[i].at < EndAt(i) /\ EndAt(i) <= len /\ EndAt(i) \in Nat
  BY <1>2, <1>5, FramePlace, NotEmpty DEF Regular
<1>. QED
  BY <1>6, <1>8, <1>9

LEMMA DeliverReads ==
    ASSUME FInv, OwnFits, NEW a \in Cuts, NEW r \in Rooms, Deliver(a, r)
    PROVE  ReadsAll'
<1>1. /\ phase = "write" /\ frames # << >> /\ avail' = a
      /\ UNCHANGED <<items, len, frames, pos, force, out>>
  BY DEF Deliver
<1>2. Layout /\ Writers /\ out = << >>
  BY <1>1 DEF FInv, Reading
<1>3. SUFFICES ASSUME phase' = "done", WholeStream', frames[1].own PROVE FALSE
  BY <1>1, <1>2 DEF ReadsAll, WholeStream
<1>4. PICK g \in Garbage : ~ IsQATProcessable(a, g) /\ fmt' = fmt
  BY <1>3 DEF Deliver
<1>5. a = len
  BY <1>1, <1>3 DEF WholeStream
<1>6. \/ fmt = "LZ4_FH" /\ frames[1].own
      \/ /\ fmt \in {"DEFLATE_GZIP_EXT", "DEFLATE_GZIP", "DEFLATE_4B"}
         /\ \A i \in DOMAIN frames : frames[i].own
  BY <1>1, <1>3, <1>4 DEF WholeStream
<1>. QED
  BY <1>1, <1>2, <1>4, <1>5, <1>6, OwnProcessable

LEMMA ReadsNext ==
    ASSUME FInv, OwnFits, ReadsAll, [FormatNext]_formatVars
    PROVE  ReadsAll'
<1>1. CASE phase' = "write"
  BY <1>1 DEF ReadsAll
<1>2. CASE ReadFrame
  BY <1>2, ReadsOn
<1>3. CASE EndOfSource
  BY <1>3, ReadToEnd
<1>4. CASE \E a \in Cuts, r \in Rooms : Deliver(a, r)
  BY <1>4, DeliverReads
<1>5. CASE UNCHANGED formatVars
  BY <1>5 DEF ReadsAll, formatVars
<1>6. ASSUME \/ \E res \in Outputs, look \in Looks : WriteFrame(res, look)
             \/ \E kind \in Foreigns : Foreign(kind)
      PROVE  phase' = "write"
  BY <1>6 DEF WriteFrame, Foreign, readVars
<1>. QED
  BY <1>1, <1>2, <1>3, <1>4, <1>5, <1>6 DEF FormatNext

\* ReadsAll: given the whole stream and room for it, decompression comes to the
\* end of the last frame: checkHeader refuses none for its sizes, whether the
\* device or the software reads it, and no walk over LZ4 blocks misses an end.
THEOREM AllRead == ASSUME Stored PROVE FormatSpec => []ReadsAll
<1> DEFINE I == FInv /\ OwnFits /\ Expansion /\ ReadsAll
<1>1. FormatInit => I
  BY InitFInv, InitFits DEF FormatInit, ReadsAll
<1>2. I /\ [FormatNext]_formatVars => I'
  BY FInvNext, FitsNext, ReadsNext
<1>3. I => ReadsAll
  OBVIOUS
<1>. QED
  BY <1>1, <1>2, <1>3, PTL DEF FormatSpec
=============================================================================
