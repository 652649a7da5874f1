--------------------------- MODULE QzRing_proofs ---------------------------
(***************************************************************************)
(* The request ring never overwrites a request and implements the bounded  *)
(* FIFO of QzQueue, for every capacity that divides the range of the       *)
(* indices and for every set of requests.                                  *)
(*                                                                         *)
(* The argument.  Count First from the oldest request that has not been    *)
(* read.  The places from First on are, in this order, the queued requests,*)
(* the one that the producer is writing or about to publish, and empty     *)
(* ones, Capacity in all; the head and the tail of each end differ by one  *)
(* exactly while that end is at work.                                      *)
(***************************************************************************)
EXTENDS QzRing, SequenceTheorems, TLAPS

Index == 0..(Modulus - 1)
Inc(a) == (a + 1) % Modulus

\* Requests in the abstract queue.
Size == Minus(prod_tail, First)

Writing == pcP \in {"write", "publish"}
Taking  == pcC \in {"take", "release"}

TypeInv ==
    /\ prod_head \in Index /\ prod_tail \in Index
    /\ cons_head \in Index /\ cons_tail \in Index
    /\ elems \in [Places -> Reqs \cup {Null}]
    /\ async_ctrl_init \in BOOLEAN
    /\ pcP \in {"idle", "write", "publish", "post"}
    /\ pcC \in {"loop", "wait", "deq", "take", "release", "process", "clear",
                "ended"}
    /\ pcP # "idle" => pReq \in Reqs
    /\ pcC = "release" => cReq \in Reqs

\* The producer's head is ahead of its tail while it fills a place.
ProdInv ==
    /\ Writing => pOld = prod_tail /\ prod_head = Inc(prod_tail)
    /\ ~Writing => prod_head = prod_tail
    /\ pcP # "idle" => async_ctrl_init

\* The consumer's head is ahead of its tail while it empties one.
ConsInv ==
    /\ Taking => cOld = cons_tail /\ cons_head = Inc(cons_tail)
    /\ ~Taking => cons_head = cons_tail
    /\ pcC = "take" => Size >= 1
    /\ pcC \in {"clear", "ended"} => ~async_ctrl_init

\* The places in use never exceed the capacity.
BoundInv == Size + (IF Writing THEN 1 ELSE 0)
                 + (IF pcC = "release" THEN 1 ELSE 0) <= Capacity

\* What the k-th place from First on holds.
HoldsInv ==
    \A k \in 0..(Capacity - 1) :
        LET e == elems[Place(First + k)]
        IN  IF k < Size THEN e \in Reqs
            ELSE IF k = Size /\ pcP = "publish" THEN e = pReq ELSE e = Null

RInv == TypeInv /\ ProdInv /\ ConsInv /\ BoundInv /\ HoldsInv

-----------------------------------------------------------------------------
(* Arithmetic of the indices.                                              *)

LEMMA Constants == /\ Capacity \in Nat \ {0} /\ Modulus \in Nat \ {0}
                   /\ Modulus % Capacity = 0 /\ Modulus >= 2 * (Capacity + 1)
                   /\ Null \notin Reqs
  BY RingAssumption

\* A number and its multiple of m.
LEMMA DivMod ==
    ASSUME NEW m \in Nat \ {0}, NEW a \in Int
    PROVE  /\ a % m \in 0..(m - 1) /\ a \div m \in Int
           /\ a = (a \div m) * m + (a % m)
  OBVIOUS

LEMMA ModUnique ==
    ASSUME NEW m \in Nat \ {0}, NEW a \in Int, NEW q \in Int,
           NEW r \in 0..(m - 1), a = q * m + r
    PROVE  a % m = r
  OBVIOUS

\* The successor of an index, with its wrap.
LEMMA IncFact ==
    ASSUME NEW a \in Index
    PROVE  /\ Inc(a) = IF a = Modulus - 1 THEN 0 ELSE a + 1
           /\ Inc(a) \in Index
<1>1. CASE a = Modulus - 1
  BY <1>1, Constants, ModUnique, 0 \in 0..(Modulus - 1), a + 1 = 1 * Modulus + 0
     DEF Inc, Index
<1>2. CASE a # Modulus - 1
  BY <1>2, Constants DEF Inc, Index
<1>3. QED  BY <1>1, <1>2

\* The unsigned difference of two indices.
LEMMA MinusFact ==
    ASSUME NEW a \in Index, NEW b \in Index
    PROVE  /\ Minus(a, b) = IF a >= b THEN a - b ELSE a - b + Modulus
           /\ Minus(a, b) \in Index
<1>1. CASE a >= b
  BY <1>1, Constants DEF Minus, Index
<1>2. CASE ~(a >= b)
  <2>1. a - b + Modulus \in 0..(Modulus - 1)
    BY <1>2, Constants DEF Index
  <2>2. a - b = (-1) * Modulus + (a - b + Modulus)
    BY Constants DEF Index
  <2>3. QED
    BY <1>2, <2>1, <2>2, ModUnique, Constants DEF Minus, Index
<1>3. QED  BY <1>1, <1>2

LEMMA PlaceType ==
    ASSUME NEW a \in Int PROVE Place(a) \in Places
  BY DivMod, Constants DEF Place, Places

\* Indices that differ by the range of the indices select the same place.
LEMMA PlaceWraps ==
    ASSUME NEW a \in Int PROVE Place(a + Modulus) = Place(a)
<1> DEFINE q == Modulus \div Capacity
           d == a \div Capacity
           r == a % Capacity
<1>1. q \in Int /\ Modulus = q * Capacity
  BY DivMod, Constants
<1>2. d \in Int /\ r \in 0..(Capacity - 1) /\ a = d * Capacity + r
  BY DivMod, Constants
<1>3. /\ q + d \in Int /\ a + Modulus \in Int
      /\ a + Modulus = (q + d) * Capacity + r
  BY <1>1, <1>2, Constants
<1> HIDE DEF q, d
<1>4. (a + Modulus) % Capacity = r
  BY <1>2, <1>3, ModUnique, Constants
<1>5. QED  BY <1>4 DEF Place

\* Places within one capacity of each other are different.
LEMMA PlaceDistinct ==
    ASSUME NEW a \in Int, NEW i \in 0..(Capacity - 1),
           NEW j \in 0..(Capacity - 1), i # j
    PROVE  Place(a + i) # Place(a + j)
<1> SUFFICES ASSUME Place(a + i) = Place(a + j) PROVE FALSE
  OBVIOUS
<1> DEFINE p == (a + i) \div Capacity
           q == (a + j) \div Capacity
<1> DEFINE r == Place(a + i)
<1>0. /\ p \in Int /\ q \in Int /\ r \in Int
      /\ a + i = p * Capacity + r /\ a + j = q * Capacity + r
  <2>1. /\ p \in Int /\ (a + i) % Capacity \in Int
        /\ a + i = p * Capacity + ((a + i) % Capacity)
    BY DivMod, Constants
  <2>2. /\ q \in Int /\ a + j = q * Capacity + ((a + j) % Capacity)
    BY DivMod, Constants
  <2>3. (a + i) % Capacity = r /\ (a + j) % Capacity = r
    BY DEF Place
  <2> HIDE DEF p, q, r
  <2>4. QED  BY <2>1, <2>2, <2>3
<1>2. i - j # 0 /\ i - j < Capacity /\ j - i < Capacity
  BY Constants
<1> HIDE DEF p, q, r
<1>1. i - j = (p - q) * Capacity
  BY <1>0, Constants
<1>3. p - q >= 1 => (p - q) * Capacity >= Capacity
  BY <1>0, Constants
<1>4. p - q <= -1 => (p - q) * Capacity <= -Capacity
  BY <1>0, Constants
<1>5. p - q = 0 => (p - q) * Capacity = 0
  BY <1>0, Constants
<1>6. QED  BY <1>0, <1>1, <1>2, <1>3, <1>4, <1>5, Constants

\* Advancing an index advances the places that are counted from it.
LEMMA PlaceInc ==
    ASSUME NEW a \in Index, NEW k \in Int
    PROVE  Place(Inc(a) + k) = Place(a + (k + 1))
<1>1. CASE a = Modulus - 1
  BY <1>1, IncFact, PlaceWraps, Constants DEF Index
<1>2. CASE a # Modulus - 1
  BY <1>2, IncFact, Constants DEF Index
<1>3. QED  BY <1>1, <1>2

\* The place of an index is the one that is their distance away.
LEMMA PlaceMinus ==
    ASSUME NEW a \in Index, NEW b \in Index
    PROVE  Place(b + Minus(a, b)) = Place(a)
<1>1. CASE a >= b
  BY <1>1, MinusFact, b + (a - b) = a DEF Index
<1>2. CASE ~(a >= b)
  <2>1. b + (a - b + Modulus) = a + Modulus /\ a \in Int
    BY Constants DEF Index
  <2>2. QED  BY <1>2, <2>1, MinusFact, PlaceWraps
<1>3. QED  BY <1>1, <1>2

LEMMA PlaceNext ==
    ASSUME NEW a \in Int PROVE Place(a + Capacity) = Place(a)
<1> DEFINE d == a \div Capacity
           r == a % Capacity
<1>1. d \in Int /\ r \in 0..(Capacity - 1) /\ a = d * Capacity + r
  BY DivMod, Constants
<1> HIDE DEF d, r
<1>2. /\ d + 1 \in Int /\ a + Capacity \in Int
      /\ a + Capacity = (d + 1) * Capacity + r
  BY <1>1, Constants
<1>3. QED  BY <1>1, <1>2, ModUnique, Constants DEF Place, r

\* One more than a difference, as long as it does not wrap.
LEMMA MinusInc ==
    ASSUME NEW a \in Index, NEW b \in Index, Minus(a, b) + 1 < Modulus
    PROVE  /\ Minus(Inc(a), b) = Minus(a, b) + 1
           /\ Minus(a, b) >= 1 => Minus(a, Inc(b)) = Minus(a, b) - 1
<1>1. /\ Inc(a) \in Index /\ Inc(b) \in Index
      /\ Inc(a) = IF a = Modulus - 1 THEN 0 ELSE a + 1
      /\ Inc(b) = IF b = Modulus - 1 THEN 0 ELSE b + 1
  BY IncFact
<1>2. /\ Minus(a, b) = IF a >= b THEN a - b ELSE a - b + Modulus
      /\ Minus(Inc(a), b) = IF Inc(a) >= b THEN Inc(a) - b
                            ELSE Inc(a) - b + Modulus
      /\ Minus(a, Inc(b)) = IF a >= Inc(b) THEN a - Inc(b)
                            ELSE a - Inc(b) + Modulus
  BY <1>1, MinusFact
<1>3. QED  BY <1>1, <1>2, Constants DEF Index

LEMMA MinusDec ==
    ASSUME NEW a \in Index, NEW b \in Index, Minus(a, Inc(b)) + 1 < Modulus
    PROVE  Minus(a, b) = Minus(a, Inc(b)) + 1
<1>1. /\ Inc(b) \in Index
      /\ Inc(b) = IF b = Modulus - 1 THEN 0 ELSE b + 1
  BY IncFact
<1>2. /\ Minus(a, b) = IF a >= b THEN a - b ELSE a - b + Modulus
      /\ Minus(a, Inc(b)) = IF a >= Inc(b) THEN a - Inc(b)
                            ELSE a - Inc(b) + Modulus
  BY <1>1, MinusFact
<1>3. QED  BY <1>1, <1>2, Constants DEF Index

-----------------------------------------------------------------------------
(* What the guards of the code compute.                                    *)

LEMMA FirstIndex ==
    ASSUME RInv
    PROVE  First \in Index /\ Size \in Nat /\ Size <= Capacity
<1>1. First \in Index
  BY DEF RInv, TypeInv, ConsInv, Taking, First
<1>2. Size \in Nat
  BY <1>1, MinusFact DEF RInv, TypeInv, Size, Index
<1>3. QED  BY <1>1, <1>2, Constants DEF RInv, BoundInv

\* Places in use, from the consumer's tail to the producer's head.
LEMMA InUse ==
    ASSUME RInv
    PROVE  Minus(prod_head, cons_tail) =
             Size + (IF Writing THEN 1 ELSE 0)
                  + (IF pcC = "release" THEN 1 ELSE 0)
<1> USE DEF RInv, TypeInv, ProdInv, ConsInv, BoundInv
<1>1. /\ First \in Index /\ Size \in Nat /\ Size <= Capacity
      /\ Size + 1 < Modulus
  BY FirstIndex, Constants
<1>2. CASE pcC = "release"
  <2>1. cons_head = Inc(cons_tail) /\ First = cons_head
    BY <1>2 DEF First, Taking
  <2>2. Minus(prod_tail, cons_tail) = Size + 1
    <3>1. Size = Minus(prod_tail, Inc(cons_tail))
      BY <2>1 DEF Size
    <3>2. QED  BY <1>1, <3>1, MinusDec
  <2>3. Writing => Minus(Inc(prod_tail), cons_tail) = Size + 2
    BY <1>1, <1>2, <2>2, MinusInc, Constants
  <2>4. QED
    BY <1>1, <1>2, <2>2, <2>3
<1>3. CASE pcC # "release"
  <2>1. First = cons_tail
    BY <1>3 DEF First, Taking
  <2>2. Writing => Minus(Inc(prod_tail), cons_tail) = Size + 1
    BY <1>1, <2>1, MinusInc DEF Size
  <2>3. QED
    BY <1>1, <1>3, <2>1, <2>2 DEF Size
<1>4. QED  BY <1>2, <1>3

\* QzRingFreeEntriesCount: the places that are not in use, also across a wrap.
LEMMA FreeFact ==
    ASSUME RInv
    PROVE  FreeEntries = Capacity - Minus(prod_head, cons_tail)
<1> DEFINE d == Minus(prod_head, cons_tail)
<1>1. d \in Nat /\ d <= Capacity
  BY InUse, FirstIndex DEF RInv, BoundInv
<1>2. prod_head \in Index /\ cons_tail \in Index
  BY DEF RInv, TypeInv
<1>3. d = IF prod_head >= cons_tail THEN prod_head - cons_tail
          ELSE prod_head - cons_tail + Modulus
  BY <1>2, MinusFact
<1>4. Capacity - d \in 0..(Modulus - 1)
  BY <1>1, Constants
<1>5. CASE prod_head >= cons_tail
  <2>1. Capacity + cons_tail - prod_head = Capacity - d
    BY <1>2, <1>3, <1>5, Constants DEF Index
  <2> HIDE DEF d
  <2>2. (Capacity - d) % Modulus = Capacity - d
    BY <1>1, <1>4, Constants
  <2>3. QED  BY <2>1, <2>2 DEF FreeEntries, d
<1>6. CASE ~(prod_head >= cons_tail)
  <2>1. Capacity + cons_tail - prod_head = 1 * Modulus + (Capacity - d)
    BY <1>2, <1>3, <1>6, Constants DEF Index
  <2> HIDE DEF d
  <2>2. QED
    BY SMTT(40), <1>1, <1>2, <1>4, <2>1, ModUnique, Constants DEF FreeEntries, Index, d
<1>7. QED  BY <1>5, <1>6

\* QzRingEntriesCount: what is queued, read as an int without a change.
LEMMA EntriesFact ==
    ASSUME RInv, pcC = "deq" PROVE Entries = Size
<1>1. First = cons_head
  BY DEF First
<1>2. Size \in Nat /\ Size <= Capacity
  BY FirstIndex
<1>3. Modulus \div 2 > Capacity
  BY Constants
<1>4. QED  BY <1>1, <1>2, <1>3, Constants DEF Entries, AsInt, Size

-----------------------------------------------------------------------------
(* The steps.                                                              *)

LEMMA InitRInv == Init => RInv
<1> SUFFICES ASSUME Init PROVE RInv
  OBVIOUS
<1>1. 0 \in Index /\ Minus(0, 0) = 0
  BY MinusFact, Constants DEF Index
<1>2. First = 0 /\ Size = 0
  BY <1>1 DEF Init, First, Size
<1>3. TypeInv
  BY <1>1 DEF Init, TypeInv
<1>4. ProdInv /\ ConsInv /\ BoundInv
  BY <1>2, Constants DEF Init, ProdInv, ConsInv, BoundInv, Writing, Taking
<1>5. HoldsInv
  BY <1>2, PlaceType, Constants DEF Init, HoldsInv
<1>6. QED  BY <1>3, <1>4, <1>5 DEF RInv

\* A step that moves neither First nor the producer's tail and leaves the
\* places alone.
LEMMA HoldsFrame ==
    ASSUME RInv, prod_tail' = prod_tail, First' = First, elems' = elems,
           pReq' = pReq, (pcP = "publish")' = (pcP = "publish")
    PROVE  Size' = Size /\ HoldsInv'
<1>1. Size' = Size
  BY DEF Size, Minus
<1>2. QED  BY <1>1 DEF RInv, HoldsInv, Place

LEMMA ReserveStep ==
    ASSUME RInv, NEW r \in Reqs, PReserve(r) PROVE RInv'
<1> USE DEF PReserve, consVars, cVars
<1>1. CASE FreeEntries < 1
  <2>1. UNCHANGED <<prod_head, prod_tail, consVars, elems, async_ctrl_init,
                    pcP, pOld, pReq, cVars>>
    BY <1>1
  <2>2. First' = First
    BY <2>1 DEF First
  <2>3. Size' = Size /\ HoldsInv'
    BY <2>1, <2>2, HoldsFrame
  <2>4. QED
    BY <2>1, <2>3 DEF RInv, TypeInv, ProdInv, ConsInv, BoundInv, Writing,
       Taking, Inc
<1>2. CASE ~(FreeEntries < 1)
  <2>1. /\ pcP = "idle" /\ pcP' = "write" /\ pOld' = prod_head /\ pReq' = r
        /\ prod_head' = Inc(prod_head) /\ async_ctrl_init
        /\ UNCHANGED <<prod_tail, cons_head, cons_tail, elems,
                       async_ctrl_init, pcC, cOld, cReq>>
    BY <1>2 DEF Inc
  <2>2. First' = First /\ Size' = Size
    BY <2>1 DEF First, Size, Minus
  <2>3. TypeInv'
    BY <2>1, IncFact DEF RInv, TypeInv
  <2>4. ProdInv' /\ ConsInv'
    BY <2>1, <2>2 DEF RInv, ProdInv, ConsInv, Writing, Taking, Inc
  <2>5. BoundInv'
    <3>1. Capacity - Minus(prod_head, cons_tail) >= 1
      BY <1>2, FreeFact, InUse, FirstIndex, Constants DEF Writing
    <3>2. QED
      BY <2>1, <2>2, <3>1, InUse, FirstIndex, Constants DEF BoundInv, Writing
  <2>6. HoldsInv'
    BY <2>1, <2>2 DEF RInv, HoldsInv, Place
  <2>7. QED  BY <2>3, <2>4, <2>5, <2>6 DEF RInv
<1>3. QED  BY <1>1, <1>2

LEMMA WriteStep == ASSUME RInv, PWrite PROVE RInv'
<1>1. /\ pcP = "write" /\ pcP' = "publish" /\ pOld = prod_tail
      /\ elems' = [elems EXCEPT ![Place(pOld)] = pReq]
      /\ UNCHANGED <<prod_head, prod_tail, cons_head, cons_tail, pOld, pReq,
                     async_ctrl_init, pcC, cOld, cReq>>
  BY DEF PWrite, prodVars, consVars, cVars, RInv, ProdInv, Writing
<1>2. First' = First /\ Size' = Size
  BY <1>1 DEF First, Size, Minus
<1>3. /\ First \in Int /\ Size \in 0..(Capacity - 1)
      /\ Place(pOld) = Place(First + Size)
  <2>1. Size \in 0..(Capacity - 1)
    BY <1>1, FirstIndex, Constants DEF RInv, BoundInv, Writing
  <2>2. QED
    BY <1>1, <2>1, PlaceMinus, FirstIndex DEF RInv, TypeInv, Size, Index
<1>4. TypeInv'
  BY <1>1 DEF RInv, TypeInv
<1>5. ProdInv' /\ ConsInv' /\ BoundInv'
  BY <1>1, <1>2 DEF RInv, ProdInv, ConsInv, BoundInv, Writing, Taking, Inc
<1>6. HoldsInv'
  <2> SUFFICES ASSUME NEW k \in 0..(Capacity - 1)
               PROVE  elems'[Place(First + k)] =
                        IF k = Size THEN pReq ELSE elems[Place(First + k)]
    BY <1>1, <1>2 DEF RInv, HoldsInv, Place
  <2>1. Place(First + k) \in Places
    BY <1>3, PlaceType
  <2>2. CASE k = Size
    BY <1>1, <1>3, <2>1, <2>2 DEF RInv, TypeInv
  <2>3. CASE k # Size
    BY <1>1, <1>3, <2>1, <2>3, PlaceDistinct DEF RInv, TypeInv
  <2>4. QED  BY <2>2, <2>3
<1>7. QED  BY <1>4, <1>5, <1>6 DEF RInv

LEMMA PublishStep ==
    ASSUME RInv, PPublish
    PROVE  RInv' /\ Size' = Size + 1 /\ First' = First
<1>1. /\ pcP = "publish" /\ pcP' = "post" /\ pOld = prod_tail
      /\ prod_head = Inc(prod_tail) /\ prod_tail' = Inc(prod_tail)
      /\ UNCHANGED <<prod_head, cons_head, cons_tail, elems, pOld, pReq,
                     async_ctrl_init, pcC, cOld, cReq>>
  BY DEF PPublish, consVars, cVars, RInv, ProdInv, Writing, Inc
<1>2. First' = First
  BY <1>1 DEF First
<1>3. Size \in Nat /\ Size + 1 <= Capacity
  BY <1>1, FirstIndex, Constants DEF RInv, BoundInv, Writing
<1>4. Size' = Size + 1
  <2>1. Size' = Minus(Inc(prod_tail), First)
    BY <1>1, <1>2 DEF Size, Minus
  <2>2. Size + 1 < Modulus
    BY <1>3, Constants
  <2>3. QED
    BY <2>1, <2>2, MinusInc, FirstIndex DEF RInv, TypeInv, Size
<1>5. TypeInv'
  BY <1>1, IncFact DEF RInv, TypeInv
<1>6. ProdInv' /\ ConsInv'
  BY <1>1, <1>3, <1>4 DEF RInv, ProdInv, ConsInv, Writing, Taking, Inc
<1>7. BoundInv'
  BY <1>1, <1>3, <1>4 DEF RInv, BoundInv, Writing
<1>8. HoldsInv'
  <2> SUFFICES ASSUME NEW k \in 0..(Capacity - 1)
               PROVE  LET e == elems[Place(First + k)]
                      IN  IF k < Size + 1 THEN e \in Reqs ELSE e = Null
    BY <1>1, <1>2, <1>4 DEF HoldsInv, Place
  <2>1. LET e == elems[Place(First + k)]
        IN  IF k < Size THEN e \in Reqs
            ELSE IF k = Size THEN e = pReq ELSE e = Null
    BY <1>1 DEF RInv, HoldsInv
  <2>2. pReq \in Reqs
    BY <1>1 DEF RInv, TypeInv
  <2> HIDE DEF RInv
  <2>3. QED  BY <1>3, <2>1, <2>2, Constants
<1>9. QED  BY <1>2, <1>4, <1>5, <1>6, <1>7, <1>8 DEF RInv

LEMMA PostExitStep == ASSUME RInv, PPost \/ PExit PROVE RInv'
<1>1. /\ ~Writing /\ ~Writing' /\ (pcP = "publish")' = (pcP = "publish")
      /\ pcP' = "idle"
      /\ UNCHANGED <<prod_head, prod_tail, cons_head, cons_tail, elems, pcC,
                     cOld, cReq>>
      /\ async_ctrl_init' \in BOOLEAN
      /\ pcC \in {"clear", "ended"} => ~async_ctrl_init'
  <2>1. CASE PPost
    BY <2>1 DEF PPost, prodVars, consVars, cVars, Writing, RInv, TypeInv,
       ConsInv
  <2>2. CASE PExit
    BY <2>2 DEF PExit, prodVars, consVars, cVars, pVars, Writing, RInv,
       TypeInv, ConsInv
  <2>3. QED  BY <2>1, <2>2
<1>2. First' = First /\ Size' = Size
  BY <1>1 DEF First, Size, Minus
<1>3. HoldsInv'
  BY <1>1, <1>2 DEF RInv, HoldsInv, Place
<1>4. TypeInv'
  BY <1>1 DEF RInv, TypeInv
<1>5. ProdInv' /\ ConsInv' /\ BoundInv'
  BY <1>1, <1>2 DEF RInv, ProdInv, ConsInv, BoundInv, Taking, Inc
<1>6. QED  BY <1>3, <1>4, <1>5 DEF RInv

\* Steps of the consumer that leave the ring alone.
LEMMA LoopStep ==
    ASSUME RInv, CLoop \/ CWait \/ CProcess
    PROVE  RInv' /\ UNCHANGED <<First, Size>>
<1>1. /\ ~Taking /\ ~Taking' /\ pcC # "release" /\ pcC' # "release"
      /\ UNCHANGED <<prod_head, prod_tail, cons_head, cons_tail, elems,
                     async_ctrl_init, pcP, pOld, pReq, cOld>>
      /\ pcC' \in {"loop", "wait", "deq", "clear"}
      /\ pcC' = "clear" => ~async_ctrl_init
  BY DEF CLoop, CWait, CProcess, prodVars, consVars, pVars, Taking, RInv,
     TypeInv
<1>2. First' = First /\ Size' = Size
  BY <1>1 DEF First, Size, Minus, Taking
<1>3. HoldsInv'
  BY <1>1, <1>2, HoldsFrame
<1>4. TypeInv'
  BY <1>1 DEF RInv, TypeInv
<1>5. ProdInv' /\ ConsInv' /\ BoundInv'
  BY <1>1, <1>2 DEF RInv, ProdInv, ConsInv, BoundInv, Writing, Taking, Inc
<1>6. QED  BY <1>2, <1>3, <1>4, <1>5 DEF RInv

LEMMA CReserveStep ==
    ASSUME RInv, CReserve PROVE RInv' /\ UNCHANGED <<First, Size>>
<1>1. /\ pcC = "deq" /\ cons_head = cons_tail /\ pcC' \in {"loop", "take"}
      /\ UNCHANGED <<prod_head, prod_tail, cons_tail, elems,
                     async_ctrl_init, pcP, pOld, pReq, cReq>>
      /\ pcC' = "loop" => UNCHANGED cons_head
      /\ pcC' = "take" => /\ cOld' = cons_head /\ cons_head' = Inc(cons_head)
                          /\ ~(Entries < 1)
  BY DEF CReserve, prodVars, pVars, RInv, ConsInv, Taking, Inc
<1>2. First' = First /\ Size' = Size
  BY <1>1 DEF First, Size, Minus
<1>3. pcC' = "take" => Size' >= 1
  BY <1>1, <1>2, EntriesFact, FirstIndex
<1>4. HoldsInv'
  BY <1>1, <1>2, HoldsFrame
<1>5. TypeInv'
  BY <1>1, IncFact DEF RInv, TypeInv
<1>6. ProdInv' /\ ConsInv' /\ BoundInv'
  BY <1>1, <1>2, <1>3 DEF RInv, ProdInv, ConsInv, BoundInv, Writing, Taking,
     Inc
<1>7. QED  BY <1>2, <1>4, <1>5, <1>6 DEF RInv

\* Reading a place moves First and empties the place, which becomes the last.
LEMMA TakeStep ==
    ASSUME RInv, CTake
    PROVE  /\ RInv' /\ Size >= 1 /\ Size' = Size - 1 /\ First' = Inc(First)
           /\ cReq' = elems[Place(First)]
           /\ elems' = [elems EXCEPT ![Place(First)] = Null]
<1>1. /\ pcC = "take" /\ pcC' = "release" /\ cOld = cons_tail
      /\ cons_head = Inc(cons_tail) /\ Size >= 1 /\ First = cOld
      /\ cReq' = elems[Place(First)]
      /\ elems' = [elems EXCEPT ![Place(First)] = Null]
      /\ UNCHANGED <<prod_head, prod_tail, cons_head, cons_tail, cOld,
                     async_ctrl_init, pcP, pOld, pReq>>
  BY DEF CTake, prodVars, consVars, pVars, RInv, ConsInv, Taking, First
<1>2. First' = Inc(First)
  BY <1>1 DEF First
<1>3. /\ First \in Index /\ First \in Int /\ Size \in Nat /\ Size <= Capacity
      /\ Size + 1 < Modulus
  BY FirstIndex, Constants DEF Index
<1>4. Size' = Size - 1
  BY <1>1, <1>2, <1>3, MinusInc DEF Size, Minus, RInv, TypeInv
<1>5. Place(First) \in Places
  BY <1>3, PlaceType
<1>6. cReq' \in Reqs
  <2>1. 0 \in 0..(Capacity - 1) /\ 0 < Size /\ First + 0 = First
    BY <1>1, <1>3, Constants
  <2>2. QED
    BY <1>1, <2>1 DEF RInv, HoldsInv
<1>7. TypeInv'
  BY <1>1, <1>5, <1>6 DEF RInv, TypeInv
<1>8. ProdInv' /\ ConsInv'
  BY <1>1 DEF RInv, ProdInv, ConsInv, Writing, Taking, Inc
<1>9. BoundInv'
  BY <1>1, <1>3, <1>4 DEF RInv, BoundInv, Writing
<1>10. HoldsInv'
  <2> SUFFICES ASSUME NEW k \in 0..(Capacity - 1)
               PROVE  LET e == elems'[Place(Inc(First) + k)]
                      IN  IF k < Size - 1 THEN e \in Reqs
                          ELSE IF k = Size - 1 /\ pcP = "publish"
                               THEN e = pReq ELSE e = Null
    BY <1>1, <1>2, <1>4 DEF HoldsInv, Place
  <2>1. Place(Inc(First) + k) = Place(First + (k + 1))
    BY <1>3, PlaceInc
  <2>2. CASE k = Capacity - 1
    <3>1. Place(First + Capacity) = Place(First)
      BY <1>3, PlaceNext
    <3>2. elems'[Place(Inc(First) + k)] = Null
      BY <1>1, <1>5, <2>1, <2>2, <3>1, Constants DEF RInv, TypeInv
    <3>3. ~(k < Size - 1) /\ ~(k = Size - 1 /\ pcP = "publish")
      BY <1>3, <1>9, <1>1, <1>4, <2>2, Constants DEF BoundInv, Writing
    <3>4. QED  BY <3>2, <3>3
  <2>3. CASE k # Capacity - 1
    <3>1. k + 1 \in 0..(Capacity - 1) /\ k + 1 # 0 /\ 0 \in 0..(Capacity - 1)
          /\ First + 0 = First
      BY <1>3, <2>3, Constants
    <3>2. Place(First + (k + 1)) # Place(First)
      BY <1>3, <3>1, PlaceDistinct
    <3>3. Place(First + (k + 1)) \in Places
      BY <1>3, PlaceType
    <3>4. elems'[Place(Inc(First) + k)] = elems[Place(First + (k + 1))]
      BY <1>1, <2>1, <3>2, <3>3 DEF RInv, TypeInv
    <3>5. QED
      BY <1>3, <3>1, <3>4 DEF RInv, HoldsInv
  <2>4. QED  BY <2>2, <2>3
<1>11. QED  BY <1>1, <1>2, <1>4, <1>7, <1>8, <1>9, <1>10 DEF RInv

LEMMA ReleaseStep ==
    ASSUME RInv, CRelease PROVE RInv' /\ UNCHANGED <<First, Size>>
<1>1. /\ pcC = "release" /\ pcC' = "process" /\ cOld = cons_tail
      /\ cons_head = Inc(cons_tail) /\ cons_tail' = cons_head
      /\ UNCHANGED <<prod_head, prod_tail, cons_head, elems, cOld, cReq,
                     async_ctrl_init, pcP, pOld, pReq>>
  BY DEF CRelease, prodVars, pVars, RInv, ConsInv, Taking, Inc
<1>2. First' = First /\ Size' = Size
  BY <1>1 DEF First, Size, Minus
<1>3. HoldsInv'
  BY <1>1, <1>2, HoldsFrame
<1>4. TypeInv'
  BY <1>1 DEF RInv, TypeInv
<1>5. ProdInv' /\ ConsInv' /\ BoundInv'
  BY <1>1, <1>2, FirstIndex, Constants DEF RInv, ProdInv, ConsInv, BoundInv,
     Writing, Taking, Inc
<1>6. QED  BY <1>2, <1>3, <1>4, <1>5 DEF RInv

\* By then the application's thread is gone.
LEMMA ClearStep ==
    ASSUME RInv, CClear PROVE RInv' /\ Size' = 0 /\ ~async_ctrl_init
<1>1. /\ pcC = "clear" /\ pcC' = "ended" /\ pcP = "idle" /\ ~async_ctrl_init
      /\ elems' = [k \in Places |-> Null]
      /\ prod_head' = 0 /\ prod_tail' = 0 /\ cons_head' = 0 /\ cons_tail' = 0
      /\ UNCHANGED <<async_ctrl_init, pcP>>
  BY DEF CClear, pVars, RInv, TypeInv, ConsInv, ProdInv
<1>2. 0 \in Index /\ (0 - 0) % Modulus = 0
  BY Constants DEF Index
<1>3. First' = 0 /\ Size' = 0
  BY <1>1, <1>2 DEF First, Size, Minus
<1>4. TypeInv'
  BY <1>1, <1>2 DEF TypeInv, RInv
<1>5. ProdInv' /\ ConsInv' /\ BoundInv'
  BY <1>1, <1>3, Constants DEF ProdInv, ConsInv, BoundInv, Writing, Taking
<1>6. HoldsInv'
  BY <1>1, <1>3, PlaceType, Constants DEF HoldsInv, Place
<1>7. QED  BY <1>1, <1>3, <1>4, <1>5, <1>6 DEF RInv

LEMMA RInvStep == RInv /\ [Next]_vars => RInv'
<1> SUFFICES ASSUME RInv, [Next]_vars PROVE RInv'
  OBVIOUS
<1>1. CASE PNext
  BY <1>1, ReserveStep, WriteStep, PublishStep, PostExitStep DEF PNext
<1>2. CASE CNext
  BY <1>2, LoopStep, CReserveStep, TakeStep, ReleaseStep, ClearStep DEF CNext
<1>3. CASE UNCHANGED vars
  <2>1. UNCHANGED <<prod_head, prod_tail, cons_head, cons_tail, elems,
                    async_ctrl_init, pcP, pOld, pReq, pcC, cOld, cReq>>
    BY <1>3 DEF vars, prodVars, consVars, pVars, cVars
  <2>2. First' = First /\ Size' = Size
    BY <2>1 DEF First, Size, Minus
  <2>3. QED
    BY <2>1, <2>2 DEF RInv, TypeInv, ProdInv, ConsInv, BoundInv, HoldsInv,
       Writing, Taking, Inc, Place
<1>4. QED  BY <1>1, <1>2, <1>3 DEF Next, Rest

\* The structure of the ring, for every capacity and every wrap of the
\* indices: who has reserved a place, which places hold requests, and that
\* reservations never exceed the capacity (QzRingMoveProdHead,
\* QzRingMoveConsHead, QzRingUpdatTail).
THEOREM RingInvariant == Spec => []RInv
<1>1. QED  BY InitRInv, RInvStep, PTL DEF Spec

\* QzRingEnqueueElem never writes over a request that has not been taken.
THEOREM NoOverwriting == Spec => []NeverOverwritten
<1>1. RInv => NeverOverwritten
  <2> SUFFICES ASSUME RInv, pcP = "write" PROVE elems[Place(pOld)] = Null
    BY DEF NeverOverwritten
  <2>1. Size \in 0..(Capacity - 1)
    BY FirstIndex, Constants DEF RInv, BoundInv, Writing
  <2>2. Place(pOld) = Place(First + Size)
    BY PlaceMinus, FirstIndex DEF RInv, TypeInv, ProdInv, Writing, Size
  <2>3. QED
    BY <2>1, <2>2 DEF RInv, HoldsInv
<1>2. QED  BY <1>1, RingInvariant, PTL

-----------------------------------------------------------------------------
(* The ring implements the bounded FIFO of QzQueue.                        *)

\* The i-th request of the abstract queue, and the abstract queue.
Cell(i) == elems[Place(First + i - 1)]
Queue   == [i \in 1..Size |-> Cell(i)]
Held    == IF pcC = "release" THEN cReq ELSE Null

LEMMA QueueFact ==
    ASSUME RInv
    PROVE  /\ Queue \in Seq(Reqs) /\ Len(Queue) = Size
           /\ \A i \in 1..Size : Queue[i] = Cell(i)
           /\ Q!Occupied = Size + (IF pcC = "release" THEN 1 ELSE 0)
<1>1. Size \in Nat /\ Size <= Capacity /\ First \in Int
  BY FirstIndex DEF Index
<1>2. ASSUME NEW i \in 1..Size PROVE Cell(i) \in Reqs
  <2>1. /\ i - 1 \in 0..(Capacity - 1) /\ i - 1 < Size
        /\ First + (i - 1) = First + i - 1
    BY <1>1, Constants
  <2>2. QED  BY <2>1 DEF RInv, HoldsInv, Cell
<1>3. Queue \in [1..Size -> Reqs]
  BY <1>2 DEF Queue
<1>4. Queue \in Seq(Reqs) /\ Len(Queue) = Size
  BY <1>1, <1>3
<1>5. pcC = "release" => cReq # Null
  BY Constants DEF RInv, TypeInv
<1>6. Q!Occupied = Size + (IF pcC = "release" THEN 1 ELSE 0)
  <2>1. Q!Occupied = Len(Queue) + (IF Held = Null THEN 0 ELSE 1)
    BY DEF Q!Occupied, Queue, Cell, Held, Size
  <2>2. QED  BY <1>4, <1>5, <2>1 DEF Held
<1>7. QED  BY <1>4, <1>6 DEF Queue

\* The same of the next state.
QueueOK == /\ Queue \in Seq(Reqs) /\ Len(Queue) = Size
           /\ \A i \in 1..Size : Queue[i] = Cell(i)

LEMMA QueueStep == RInv' => QueueOK'
<1>1. RInv => QueueOK
  BY QueueFact DEF QueueOK
<1>2. QED  BY <1>1, PTL

\* Appending to, and taking the head off, a sequence given by its elements.
LEMMA AppendFact ==
    ASSUME NEW S, NEW s \in Seq(S), NEW e \in S, NEW t \in Seq(S),
           Len(t) = Len(s) + 1, t[Len(s) + 1] = e,
           \A i \in 1..Len(s) : t[i] = s[i]
    PROVE  t = Append(s, e)
<1>1. /\ Append(s, e) \in Seq(S) /\ Len(Append(s, e)) = Len(s) + 1
      /\ Append(s, e)[Len(s) + 1] = e
      /\ \A i \in 1..Len(s) : Append(s, e)[i] = s[i]
  BY AppendProperties
<1>2. Len(s) \in Nat
  BY LenProperties
<1>3. \A i \in 1..Len(t) : t[i] = Append(s, e)[i]
  BY <1>1, <1>2
<1>4. QED  BY <1>1, <1>3, SeqEqual

LEMMA TailFact ==
    ASSUME NEW S, NEW s \in Seq(S), NEW t \in Seq(S), Len(s) >= 1,
           Len(t) = Len(s) - 1, \A i \in 1..Len(t) : t[i] = s[i + 1]
    PROVE  s # << >> /\ Head(s) = s[1] /\ t = Tail(s)
<1>1. s # << >>
  BY EmptySeq
<1>2. /\ Head(s) = s[1] /\ Tail(s) \in Seq(S) /\ Len(Tail(s)) = Len(s) - 1
      /\ \A i \in 1..Len(Tail(s)) : Tail(s)[i] = s[i + 1]
  BY <1>1, HeadTailProperties, LenProperties
<1>3. QED  BY <1>1, <1>2, SeqEqual

\* A step that moves none of what the abstract queue is made of.
LEMMA Stutter ==
    ASSUME UNCHANGED <<First, Size, rc, async_ctrl_init>>, Held' = Held,
           \A i \in 1..Size : Cell(i)' = Cell(i)
    PROVE  UNCHANGED Q!qvars
<1>1. Queue' = Queue
  BY DEF Queue
<1>2. QED
  BY <1>1 DEF Q!qvars, Queue, Cell, Held, Size

LEMMA ReserveRefines ==
    ASSUME RInv, NEW r \in Reqs, PReserve(r) PROVE [Q!QNext]_Q!qvars
<1>1. /\ pcP = "idle" /\ async_ctrl_init
      /\ UNCHANGED <<prod_tail, cons_head, cons_tail, elems, async_ctrl_init,
                     pcC, cOld, cReq>>
  BY DEF PReserve, consVars, cVars
<1>2. UNCHANGED <<First, Size, Held>>
  BY <1>1 DEF First, Size, Minus, Held
<1>3. \A i \in 1..Size : Cell(i)' = Cell(i)
  BY <1>1, <1>2 DEF Cell, Place
<1>4. CASE FreeEntries < 1
  <2>1. Q!Occupied >= Capacity
    BY <1>1, <1>4, FreeFact, InUse, QueueFact, FirstIndex, Constants
       DEF Writing
  <2>2. Queue' = Queue
    BY <1>2, <1>3 DEF Queue
  <2>3. rc' = "FAIL"
    BY <1>4 DEF PReserve
  <2>4. Q!Reject
    BY <1>1, <1>2, <2>1, <2>2, <2>3 DEF Q!Reject, Queue, Cell, Held, Size
  <2>5. QED  BY <2>4 DEF Q!QNext
<1>5. CASE ~(FreeEntries < 1)
  BY <1>1, <1>2, <1>3, <1>5, Stutter DEF PReserve
<1>6. QED  BY <1>4, <1>5

\* The place that is filled is not one of the queue's.
LEMMA WriteRefines == ASSUME RInv, PWrite PROVE UNCHANGED Q!qvars
<1>1. /\ pcP = "write" /\ elems' = [elems EXCEPT ![Place(pOld)] = pReq]
      /\ UNCHANGED <<prod_tail, cons_head, cons_tail, pcC, cOld, cReq, rc,
                     async_ctrl_init>>
  BY DEF PWrite, prodVars, consVars, cVars
<1>2. UNCHANGED <<First, Size, Held>>
  BY <1>1 DEF First, Size, Minus, Held
<1>3. /\ First \in Int /\ Size \in 0..(Capacity - 1)
      /\ Place(pOld) = Place(First + Size)
  BY <1>1, FirstIndex, PlaceMinus, Constants
     DEF RInv, BoundInv, TypeInv, ProdInv, Writing, Size, Index
<1>4. ASSUME NEW i \in 1..Size PROVE Cell(i)' = Cell(i)
  <2>1. /\ i - 1 \in 0..(Capacity - 1) /\ i - 1 # Size
        /\ First + (i - 1) = First + i - 1
    BY <1>3, Constants
  <2>2. Place(First + i - 1) # Place(pOld)
    BY <1>3, <2>1, PlaceDistinct
  <2>3. /\ Place(First + i - 1) \in Places
        /\ elems \in [Places -> Reqs \cup {Null}]
    BY <1>3, <2>1, PlaceType DEF RInv, TypeInv
  <2>4. Cell(i)' = elems'[Place(First + i - 1)]
    BY <1>2 DEF Cell, Place
  <2>5. QED  BY <1>1, <2>2, <2>3, <2>4 DEF Cell
<1>5. QED  BY <1>1, <1>2, <1>4, Stutter

LEMMA PublishRefines ==
    ASSUME RInv, PPublish PROVE Q!Enqueue(pReq) /\ pReq \in Reqs
<1>1. /\ pcP = "publish" /\ async_ctrl_init /\ pReq \in Reqs /\ rc' = "OK"
      /\ UNCHANGED <<cons_head, cons_tail, elems, pcC, cOld, cReq,
                     async_ctrl_init>>
  BY DEF PPublish, consVars, cVars, RInv, TypeInv, ProdInv
<1>2. RInv' /\ Size' = Size + 1 /\ First' = First
  BY PublishStep
<1>3. Size \in 0..(Capacity - 1) /\ First \in Int
  BY <1>1, FirstIndex, Constants DEF RInv, BoundInv, Writing, Index
<1>4. Q!Occupied < Capacity
  BY <1>1, <1>3, QueueFact, Constants DEF RInv, BoundInv, Writing
<1>5. \A i \in 1..Size + 1 : Cell(i)' = Cell(i)
  BY <1>1, <1>2 DEF Cell, Place
<1>6. Cell(Size + 1) = pReq
  <2>1. elems[Place(First + Size)] = pReq
    BY <1>1, <1>3 DEF RInv, HoldsInv
  <2>2. First + (Size + 1) - 1 = First + Size
    BY <1>3
  <2>3. QED  BY <2>1, <2>2 DEF Cell
<1>7. /\ Queue \in Seq(Reqs) /\ Len(Queue) = Size
      /\ \A i \in 1..Size : Queue[i] = Cell(i)
  BY QueueFact
<1>8. Queue' \in Seq(Reqs) /\ Len(Queue') = Size + 1
      /\ \A i \in 1..Size + 1 : Queue'[i] = Cell(i)
  <2>1. /\ Queue' \in Seq(Reqs) /\ Len(Queue') = Size'
        /\ \A i \in 1..Size' : Queue'[i] = Cell(i)'
    BY <1>2, QueueStep DEF QueueOK
  <2>2. QED  BY <1>2, <1>5, <2>1
<1>9. Queue' = Append(Queue, pReq)
  BY <1>1, <1>3, <1>6, <1>7, <1>8, AppendFact
<1>10. Held' = Held
  BY <1>1 DEF Held
<1>11. QED
  BY <1>1, <1>4, <1>9, <1>10 DEF Q!Enqueue, Queue, Cell, Held, Size

LEMMA TakeRefines == ASSUME RInv, CTake PROVE Q!Dequeue
<1>1. /\ pcC = "take" /\ pcC' = "release"
      /\ UNCHANGED <<prod_head, prod_tail, cons_head, cons_tail, rc,
                     async_ctrl_init>>
  BY DEF CTake, prodVars, consVars, pVars
<1>2. /\ RInv' /\ Size >= 1 /\ Size' = Size - 1 /\ First' = Inc(First)
      /\ cReq' = elems[Place(First)]
      /\ elems' = [elems EXCEPT ![Place(First)] = Null]
  BY TakeStep
<1>3. First \in Index /\ First \in Int /\ Size \in Nat /\ Size <= Capacity
  BY FirstIndex DEF Index
<1>4. /\ Queue \in Seq(Reqs) /\ Len(Queue) = Size
      /\ \A i \in 1..Size : Queue[i] = Cell(i)
  BY QueueFact
<1>5. /\ Queue' \in Seq(Reqs) /\ Len(Queue') = Size'
      /\ \A i \in 1..Size' : Queue'[i] = Cell(i)'
  BY <1>2, QueueStep DEF QueueOK
<1>6. ASSUME NEW i \in 1..Size - 1 PROVE Cell(i)' = Cell(i + 1)
  <2>1. /\ 0 \in 0..(Capacity - 1) /\ i \in 0..(Capacity - 1) /\ i # 0
        /\ First + 0 = First /\ First + i = First + (i + 1) - 1
        /\ i - 1 \in Int /\ (i - 1) + 1 = i
        /\ Inc(First) + (i - 1) = Inc(First) + i - 1
    BY <1>3, IncFact, Constants DEF Index
  <2>2. Cell(i)' = elems'[Place(Inc(First) + i - 1)]
    BY <1>2 DEF Cell, Place
  <2>3. Place(Inc(First) + i - 1) = Place(First + i)
    BY <1>3, <2>1, PlaceInc
  <2>4. Place(First + i) # Place(First)
    BY <1>3, <2>1, PlaceDistinct
  <2>5. Place(First + i) \in Places /\ elems \in [Places -> Reqs \cup {Null}]
    BY <1>3, <2>1, PlaceType DEF RInv, TypeInv
  <2>6. elems'[Place(First + i)] = elems[Place(First + i)]
    BY <1>2, <2>4, <2>5
  <2>7. QED  BY <2>1, <2>2, <2>3, <2>6 DEF Cell
<1>7. \A i \in 1..Len(Queue') : Queue'[i] = Queue[i + 1]
  <2> SUFFICES ASSUME NEW i \in 1..Size - 1 PROVE Queue'[i] = Queue[i + 1]
    BY <1>2, <1>5
  <2>1. i \in 1..Size' /\ i + 1 \in 1..Size
    BY <1>2, <1>3
  <2>2. QED  BY <1>4, <1>5, <1>6, <2>1
<1>8. Queue # << >> /\ Head(Queue) = Queue[1] /\ Queue' = Tail(Queue)
  <2>1. Len(Queue') = Len(Queue) - 1 /\ Len(Queue) >= 1
    BY <1>2, <1>4, <1>5
  <2>2. QED  BY <1>4, <1>5, <1>7, <2>1, TailFact
<1>9. Held = Null /\ Held' = Head(Queue)
  <2>1. First + 1 - 1 = First /\ 1 \in 1..Size
    BY <1>2, <1>3
  <2>2. QED  BY <1>1, <1>2, <1>4, <1>8, <2>1 DEF Held, Cell
<1>10. QED
  BY <1>1, <1>8, <1>9 DEF Q!Dequeue, Queue, Cell, Held, Size

LEMMA ReleaseRefines == ASSUME RInv, CRelease PROVE Q!GiveBack
<1>1. /\ pcC = "release" /\ pcC' = "process" /\ cReq \in Reqs
      /\ UNCHANGED <<elems, rc, async_ctrl_init>>
  BY DEF CRelease, pVars, RInv, TypeInv
<1>2. UNCHANGED <<First, Size>>
  BY ReleaseStep
<1>3. Queue' = Queue
  BY <1>1, <1>2 DEF Queue, Cell, Place
<1>4. Held # Null /\ Held' = Null
  BY <1>1, Constants DEF Held
<1>5. QED
  BY <1>1, <1>3, <1>4 DEF Q!GiveBack, Queue, Cell, Held, Size

LEMMA ExitRefines == ASSUME RInv, PExit PROVE Q!Close
<1>1. /\ async_ctrl_init /\ async_ctrl_init' = FALSE
      /\ UNCHANGED <<prod_tail, cons_head, elems, pcC, cOld, cReq, rc>>
  BY DEF PExit, prodVars, consVars, cVars, pVars
<1>2. UNCHANGED <<First, Size, Held>>
  BY <1>1 DEF First, Size, Minus, Held
<1>3. Queue' = Queue
  BY <1>1, <1>2 DEF Queue, Cell, Place
<1>4. QED
  BY <1>1, <1>2, <1>3 DEF Q!Close, Queue, Cell, Held, Size

LEMMA ClearRefines == ASSUME RInv, CClear PROVE Q!Discard
<1>1. pcC = "clear" /\ pcC' = "ended" /\ UNCHANGED <<rc, async_ctrl_init>>
  BY DEF CClear, pVars
<1>2. RInv' /\ Size' = 0 /\ ~async_ctrl_init
  BY ClearStep
<1>3. Queue' = << >>
  BY <1>2, QueueStep, EmptySeq DEF QueueOK
<1>4. Held = Null /\ Held' = Null
  BY <1>1 DEF Held
<1>5. QED
  BY <1>1, <1>2, <1>3, <1>4 DEF Q!Discard, Queue, Cell, Held, Size

\* Steps that the queue does not see.
LEMMA OtherRefines ==
    ASSUME RInv, PPost \/ CLoop \/ CWait \/ CProcess \/ CReserve
                       \/ UNCHANGED vars
    PROVE  UNCHANGED Q!qvars
<1>1. UNCHANGED <<First, Size, elems, rc, async_ctrl_init, Held>>
  <2>1. CASE PPost \/ UNCHANGED vars
    BY <2>1 DEF PPost, vars, prodVars, consVars, pVars, cVars, First, Size,
       Minus, Held
  <2>2. CASE CLoop \/ CWait \/ CProcess
    BY <2>2, LoopStep DEF CLoop, CWait, CProcess, pVars, Held
  <2>3. CASE CReserve
    BY <2>3, CReserveStep DEF CReserve, pVars, Held
  <2>4. QED  BY <2>1, <2>2, <2>3
<1>2. \A i \in 1..Size : Cell(i)' = Cell(i)
  BY <1>1 DEF Cell, Place
<1>3. QED  BY <1>1, <1>2, Stutter

LEMMA InitRefines == Init => Q!QInit
<1> SUFFICES ASSUME Init PROVE Q!QInit
  OBVIOUS
<1>1. RInv
  BY InitRInv
<1>2. Size = 0
  <2>1. 0 \in Index
    BY Constants DEF Index
  <2>2. QED  BY <2>1, MinusFact DEF Init, Size, First
<1>3. Queue = << >>
  BY <1>1, <1>2, QueueFact, EmptySeq
<1>4. QED
  BY <1>3 DEF Init, Q!QInit, Queue, Cell, Held, Size

\* Every step of the two threads is a step of the bounded FIFO or none: the
\* accepted requests reach the consumer in the order of their submission, each
\* of them once, and a request is turned away only when every place is taken
\* (qzAsyncReqSubmit and AsyncReqConsumeJob around qatzip_ring.c).
THEOREM RingRefinesQueue == Spec => IsBoundedFIFO
<1>1. RInv /\ [Next]_vars => [Q!QNext]_Q!qvars
  <2> SUFFICES ASSUME RInv, [Next]_vars PROVE [Q!QNext]_Q!qvars
    OBVIOUS
  <2>1. CASE PNext
    <3>1. CASE PPublish
      BY <3>1, PublishRefines DEF Q!QNext
    <3>2. CASE PExit
      BY <3>2, ExitRefines DEF Q!QNext
    <3>3. QED
      BY <2>1, <3>1, <3>2, ReserveRefines, WriteRefines, OtherRefines DEF PNext
  <2>2. CASE CNext
    <3>1. CASE CTake
      BY <3>1, TakeRefines DEF Q!QNext
    <3>2. CASE CRelease
      BY <3>2, ReleaseRefines DEF Q!QNext
    <3>3. CASE CClear
      BY <3>3, ClearRefines DEF Q!QNext
    <3>4. QED
      BY <2>2, <3>1, <3>2, <3>3, OtherRefines DEF CNext
  <2>3. CASE UNCHANGED vars
    BY <2>3, OtherRefines
  <2>4. QED  BY <2>1, <2>2, <2>3 DEF Next, Rest
<1>2. QED
  BY <1>1, InitRefines, RingInvariant, PTL DEF Spec, IsBoundedFIFO, Q!QSpec
=============================================================================
