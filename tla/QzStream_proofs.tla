--------------------------- MODULE QzStream_proofs ---------------------------
(***************************************************************************)
(* The stream API conveys every byte: for every size of the stream buffer, *)
(* of the pieces and of the room, and for every way the codec cuts what it *)
(* is given, as long as no call copies input onto pending input that it    *)
(* has just made room for (InputSpared; the run stream_flush shows a call  *)
(* that does).                                                             *)
(*                                                                         *)
(* The argument.  What the application received and what is pending in the *)
(* output buffer end with the last token of a byte n, and the pending      *)
(* input is the bytes from n + 1 on, at a place of the input buffer that   *)
(* the control point tells.                                                *)
(***************************************************************************)
EXTENDS QzStream, SequenceTheorems, TLAPS

Tok == Nat \X Nat \X Nat

\* The bytes up to n, as tokens in order.
Chain(o, n) ==
  /\ o \in Seq(Tok)
  /\ Len(o) = 0 => n = 0
  /\ Len(o) > 0 => /\ o[1][1] = 1 /\ o[1][2] = 1
                   /\ o[Len(o)][1] = n /\ o[Len(o)][2] = o[Len(o)][3]
  /\ \A k \in 1 .. Len(o) - 1 : Follows(o[k], o[k + 1])

\* The tokens of c bytes, from n + 1 on.
Run(T, n, c) ==
  /\ T \in Seq(Tok)
  /\ Len(T) \in Nat /\ (c = 0 => Len(T) = 0) /\ (c > 0 => Len(T) > 0)
  /\ c > 0 => /\ T[1][1] = n + 1 /\ T[1][2] = 1
              /\ T[Len(T)][1] = n + c /\ T[Len(T)][2] = T[Len(T)][3]
  /\ \A k \in 1 .. Len(T) - 1 : Follows(T[k], T[k + 1])

\* The p bytes behind place from of s are those from n + 1 on.
Holds(s, from, p, n) == \A k \in 1 .. p : s[from + k] = n + k

\* A call copies more input behind input that is still pending only before it
\* has delivered any output.  Otherwise the pending input is not at the
\* beginning of the buffer, where copyStreamInput assumes it
\* (qatzip_stream.c 384, 507).
InputSpared ==
  (call.pc = "fill" /\ call.copy_more /\ ~buf.flush_more /\ strm.pending_in > 0)
  => call.produced = 0

(***************************************************************************)
(* The inductive invariant.                                                *)
(***************************************************************************)

AppRec  == [dir : {"compress", "decompress"}, piece : Nat \ {0}, room : Nat \ {0},
            accepted : Nat, got : Seq(Tok), failed : BOOLEAN, streams : Nat]
StrmRec == [opaque : BOOLEAN, pending_in : Nat, pending_out : Nat,
            in_sz : Nat, out_sz : Nat]
BufRec  == [in : [1 .. BufLen -> Nat], out : Seq(Tok), in_offset : Nat,
            out_offset : Nat, flush_more : BOOLEAN]
CallRec == [pc : {"idle", "start", "drain", "fill", "process"}, in : Nat,
            last : BOOLEAN, copied_input : Nat, copied_input_last : Nat,
            copy_more : BOOLEAN, inbuf_offset : Nat, consumed : Nat,
            produced : Nat]

TypeInv ==
  /\ app \in AppRec /\ strm \in StrmRec /\ buf \in BufRec /\ call \in CallRec
  /\ strm.pending_in <= BufLen
  /\ call.copied_input_last <= call.copied_input
  /\ app.accepted + call.copied_input <= NumBytes
  /\ ~Idle => app.accepted + call.copied_input + strm.in_sz <= NumBytes
  /\ Idle => call = NoCall
  /\ app.failed => Idle

\* The bytes that have become tokens.
Processed == app.accepted + call.copied_input - strm.pending_in

OutInv ==
  /\ strm.pending_in <= app.accepted + call.copied_input
  /\ Chain(app.got \o PendingOut, Processed)
  /\ buf.out_offset + strm.pending_out <= Len(buf.out)
  /\ strm.pending_out = 0 => buf.out_offset = 0

FlowInv ==
  /\ ~strm.opaque => /\ call.pc \in {"idle", "start"} /\ app.accepted = 0
                     /\ strm.pending_in = 0 /\ strm.pending_out = 0
                     /\ app.got = << >>
  /\ buf.flush_more => strm.pending_in > 0
  /\ call.pc \in {"idle", "start"} /\ buf.flush_more => strm.pending_out > 0
  /\ call.pc \in {"fill", "process"} => strm.pending_out = 0
  /\ call.pc \in {"start", "drain"} =>
       /\ call.copied_input = 0 /\ call.consumed = 0 /\ call.inbuf_offset = 0
       /\ call.copy_more
  /\ call.pc = "start" => call.produced = 0
  /\ call.pc = "fill" => /\ call.consumed = call.copied_input
                         /\ call.inbuf_offset > 0 => call.produced > 0
                         /\ strm.pending_in = 0 => call.inbuf_offset = 0
  /\ ~Idle => call.in = app.accepted

\* The pending input is in the buffer from place off on.
Located(off) == /\ off + strm.pending_in <= BufLen
                /\ Holds(buf.in, off, strm.pending_in, Processed)

InInv ==
  /\ call.pc \in {"idle", "start"} =>
       Located(IF strm.pending_out > 0 THEN buf.in_offset ELSE 0)
  /\ call.pc = "drain" /\ (strm.pending_out > 0 \/ buf.flush_more) =>
       Located(buf.in_offset)
  /\ call.pc = "drain" /\ strm.pending_out = 0 /\ ~buf.flush_more
       /\ call.produced = 0 => Located(0)
  /\ call.pc = "fill" /\ buf.flush_more => Located(buf.in_offset)
  /\ call.pc = "fill" /\ ~buf.flush_more
       /\ (call.copy_more /\ call.produced > 0 => strm.pending_in = 0) =>
       Located(call.inbuf_offset)
  /\ call.pc = "process" => Located(Offset)

Sound == OutInv /\ FlowInv /\ InInv

SInv == TypeInv /\ (~app.failed => Sound)

-----------------------------------------------------------------------------
(* Tokens.                                                                 *)

LEMMA Constants == /\ NumBytes \in Nat /\ BufLen \in Nat \ {0}
                   /\ Pieces \subseteq Nat \ {0} /\ Rooms \subseteq Nat \ {0}
                   /\ Expansions \subseteq Nat \ {0}
  BY StreamConstants

LEMMA LeastFact ==
    ASSUME NEW a \in Nat, NEW b \in Nat
    PROVE  Least(a, b) \in Nat /\ Least(a, b) <= a /\ Least(a, b) <= b
  BY DEF Least

LEMMA DivMod ==
    ASSUME NEW m \in Nat \ {0}, NEW a \in Nat
    PROVE  /\ a % m \in 0..(m - 1) /\ a \div m \in Nat
           /\ a = (a \div m) * m + (a % m)
  OBVIOUS

LEMMA DivModUnique ==
    ASSUME NEW m \in Nat \ {0}, NEW q \in Nat, NEW r \in 0..(m - 1)
    PROVE  (q * m + r) % m = r /\ (q * m + r) \div m = q
  OBVIOUS

LEMMA Product ==
    ASSUME NEW x \in Nat \ {0}, NEW c \in Nat
    PROVE  /\ x * c \in Nat /\ x * c = c * x /\ (c = 0 => x * c = 0)
           /\ c > 0 => x * c >= x /\ x * c - 1 = (c - 1) * x + (x - 1)
  OBVIOUS

\* The byte of a token is one of the bytes.
LEMMA TokenByte ==
    ASSUME NEW x \in Nat \ {0}, NEW c \in Nat, NEW k \in 1 .. x * c
    PROVE  /\ (k - 1) \div x \in 0 .. c - 1 /\ (k - 1) % x \in 0 .. x - 1
           /\ k - 1 = ((k - 1) \div x) * x + ((k - 1) % x)
<1> DEFINE q == (k - 1) \div x
           r == (k - 1) % x
<1>1. x * c \in Nat /\ x * c = c * x /\ k - 1 \in Nat /\ k - 1 < x * c
  BY Product
<1>2. r \in 0..(x - 1) /\ q \in Nat /\ k - 1 = q * x + r
  BY <1>1, DivMod
<1> HIDE DEF q, r
<1>3. q * x < c * x
  BY <1>1, <1>2
<1>4. q < c
  <2> SUFFICES ASSUME q >= c PROVE q * x >= c * x
    BY <1>2, <1>3
  <2>1. (q - c) * x >= 0 /\ (q - c) * x = q * x - c * x
    BY <1>2
  <2>2. QED  BY <1>2, <2>1
<1>5. QED  BY <1>2, <1>4 DEF q, r

LEMMA SeqFact ==
    ASSUME NEW S, NEW n \in Nat, NEW f, f = [k \in 1 .. n |-> f[k]],
           \A k \in 1 .. n : f[k] \in S
    PROVE  f \in Seq(S) /\ Len(f) = n
<1>1. f \in [1 .. n -> S]
  OBVIOUS
<1>2. QED  BY <1>1

\* What follows a token.
LEMMA TokenFollows ==
    ASSUME NEW x \in Nat \ {0}, NEW n \in Nat, NEW k \in Nat \ {0},
           NEW q \in Nat, NEW r \in 0 .. x - 1, k - 1 = q * x + r
    PROVE  Follows(<<n + q + 1, r + 1, x>>,
                   <<n + (k \div x) + 1, (k % x) + 1, x>>)
<1>1. CASE r + 1 < x
  <2>1. r + 1 \in 0 .. x - 1 /\ k = q * x + (r + 1)
    BY <1>1
  <2>2. k \div x = q /\ k % x = r + 1
    BY <2>1, DivModUnique
  <2>3. QED  BY <1>1, <2>2 DEF Follows
<1>2. CASE r + 1 = x
  <2>1. 0 \in 0 .. x - 1 /\ q + 1 \in Nat /\ k = (q + 1) * x + 0
    BY <1>2
  <2>2. k \div x = q + 1 /\ k % x = 0
    BY <2>1, DivModUnique
  <2>3. QED  BY <1>2, <2>2 DEF Follows
<1>3. QED  BY <1>1, <1>2

\* The tokens of c bytes, beginning with byte n + 1.
LEMMA TokensFact ==
    ASSUME NEW c \in Nat, NEW bytes, Len(bytes) = c, NEW n \in Nat,
           \A i \in 1 .. c : bytes[i] = n + i, NEW x \in Nat \ {0}
    PROVE  Run(Tokens(bytes, x), n, c)
<1> DEFINE T == Tokens(bytes, x)
           X == x * c
<1>1. /\ X \in Nat /\ (c = 0 => X = 0)
      /\ c > 0 => X >= 1 /\ X - 1 = (c - 1) * x + (x - 1)
  BY Product
<1>2. T = [k \in 1 .. X |-> <<bytes[((k - 1) \div x) + 1], ((k - 1) % x) + 1, x>>]
  BY DEF Tokens
<1>3. \A k \in 1 .. X : /\ (k - 1) \div x \in 0 .. c - 1
                        /\ (k - 1) % x \in 0 .. x - 1
                        /\ k - 1 = ((k - 1) \div x) * x + ((k - 1) % x)
  BY TokenByte
<1> HIDE DEF T, X
<1>4. \A k \in 1 .. X :
        /\ T[k] = <<n + ((k - 1) \div x) + 1, ((k - 1) % x) + 1, x>>
        /\ T[k] \in Tok
  <2> SUFFICES ASSUME NEW k \in 1 .. X
               PROVE  /\ T[k] = <<n + ((k - 1) \div x) + 1, ((k - 1) % x) + 1, x>>
                      /\ T[k] \in Tok
    OBVIOUS
  <2>1. PICK q \in 0 .. c - 1, r \in 0 .. x - 1 :
          q = (k - 1) \div x /\ r = (k - 1) % x
    BY <1>3
  <2>2. T[k] = <<bytes[q + 1], r + 1, x>>
    BY <1>2, <2>1
  <2>3. bytes[q + 1] = n + (q + 1)
    BY <2>1
  <2>4. T[k] = <<n + q + 1, r + 1, x>> /\ T[k] \in Tok
    BY <2>2, <2>3 DEF Tok
  <2>5. QED  BY <2>1, <2>4
<1>5. T \in Seq(Tok) /\ Len(T) = X
  <2>1. DOMAIN T = 1 .. X /\ T = [k \in DOMAIN T |-> T[k]]
    BY <1>2
  <2>2. T = [k \in 1 .. X |-> T[k]] /\ \A k \in 1 .. X : T[k] \in Tok
    BY <1>4, <2>1
  <2>3. X \in Nat
    BY <1>1
  <2>4. QED  BY <2>2, <2>3, SeqFact
<1>6. ASSUME c > 0
      PROVE  /\ T[1][1] = n + 1 /\ T[1][2] = 1
             /\ T[X][1] = n + c /\ T[X][2] = T[X][3]
  <2>1. 1 \in 1 .. X /\ X \in 1 .. X
    BY <1>1, <1>6
  <2>2. (1 - 1) \div x = 0 /\ (1 - 1) % x = 0
    <3>1. (0 * x + 0) % x = 0 /\ (0 * x + 0) \div x = 0
      BY DivModUnique, 0 \in Nat, 0 \in 0 .. (x - 1)
    <3>2. 0 * x + 0 = 1 - 1
      OBVIOUS
    <3>3. QED  BY <3>1, <3>2
  <2>3. (X - 1) \div x = c - 1 /\ (X - 1) % x = x - 1
    <3>1. c - 1 \in Nat /\ x - 1 \in 0 .. (x - 1)
      BY <1>6
    <3>2. /\ ((c - 1) * x + (x - 1)) % x = x - 1
          /\ ((c - 1) * x + (x - 1)) \div x = c - 1
      BY <3>1, DivModUnique
    <3>3. QED  BY <1>1, <1>6, <3>2
  <2>4. /\ T[1] = <<n + 0 + 1, 0 + 1, x>>
        /\ T[X] = <<n + (c - 1) + 1, (x - 1) + 1, x>>
    BY <1>4, <2>1, <2>2, <2>3
  <2>5. QED  BY <2>4
<1>7. ASSUME NEW k \in 1 .. X - 1 PROVE Follows(T[k], T[k + 1])
  <2>1. k \in 1 .. X /\ k + 1 \in 1 .. X /\ (k + 1) - 1 = k /\ k \in Nat \ {0}
    BY <1>1
  <2>2. PICK q \in 0 .. c - 1, r \in 0 .. x - 1 :
          q = (k - 1) \div x /\ r = (k - 1) % x /\ k - 1 = q * x + r
    BY <1>3, <2>1
  <2>3. T[k] = <<n + q + 1, r + 1, x>>
    BY <1>4, <2>1, <2>2
  <2>4. T[k + 1] = <<n + (k \div x) + 1, (k % x) + 1, x>>
    BY <1>4, <2>1
  <2>5. Follows(<<n + q + 1, r + 1, x>>, <<n + (k \div x) + 1, (k % x) + 1, x>>)
    <3>1. /\ k \in Nat \ {0} /\ q \in Nat /\ r \in 0 .. x - 1
          /\ k - 1 = q * x + r
      BY <2>1, <2>2
    <3>2. QED  BY <3>1, TokenFollows
  <2>6. QED  BY <2>3, <2>4, <2>5
<1>8. X \in Nat /\ (c = 0 => X = 0) /\ (c > 0 => X > 0)
  BY <1>1
<1>9. Run(T, n, c)
  BY <1>5, <1>6, <1>7, <1>8 DEF Run
<1>10. QED  BY <1>9 DEF T

\* A chain and the tokens that go on from it.
LEMMA ChainJoins ==
    ASSUME NEW n \in Nat, NEW c \in Nat \ {0}, NEW o, Chain(o, n),
           NEW T, Run(T, n, c), NEW s \in Seq(Tok), Len(s) = Len(o) + Len(T),
           \A k \in 1 .. Len(o) + Len(T) :
             s[k] = IF k <= Len(o) THEN o[k] ELSE T[k - Len(o)]
    PROVE  Chain(s, n + c)
<1> PICK L, M : L = Len(o) /\ M = Len(T)
  OBVIOUS
<1>0. /\ L \in Nat /\ M \in Nat \ {0} /\ Len(o) = L /\ Len(s) = L + M
      /\ \A k \in 1 .. L + M : s[k] = IF k <= L THEN o[k] ELSE T[k - L]
      /\ T[1][1] = n + 1 /\ T[1][2] = 1 /\ T[M][1] = n + c /\ T[M][2] = T[M][3]
      /\ \A k \in 1 .. M - 1 : Follows(T[k], T[k + 1])
  <2>1. Len(o) \in Nat
    BY DEF Chain
  <2>2. /\ Len(T) \in Nat \ {0}
        /\ T[1][1] = n + 1 /\ T[1][2] = 1
        /\ T[Len(T)][1] = n + c /\ T[Len(T)][2] = T[Len(T)][3]
        /\ \A k \in 1 .. Len(T) - 1 : Follows(T[k], T[k + 1])
    BY DEF Run
  <2>3. \A k \in 1 .. L + M : s[k] = IF k <= L THEN o[k] ELSE T[k - L]
    OBVIOUS
  <2>4. QED  BY <2>1, <2>2, <2>3
<1>1. 1 \in 1 .. L + M /\ L + M \in 1 .. L + M /\ L + M > L /\ Len(s) > 0
  BY <1>0
<1>2. s[1][1] = 1 /\ s[1][2] = 1
  <2>1. CASE L = 0
    BY <1>0, <1>1, <2>1 DEF Chain
  <2>2. CASE L > 0
    BY <1>0, <1>1, <2>2 DEF Chain
  <2>3. QED  BY <1>0, <2>1, <2>2
<1>3. s[L + M] = T[M]
  BY <1>0, <1>1
<1>4. ASSUME NEW k \in 1 .. L + M - 1 PROVE Follows(s[k], s[k + 1])
  <2>1. k \in 1 .. L + M /\ k + 1 \in 1 .. L + M
    BY <1>0
  <2>2. CASE k < L
    <3>1. s[k] = o[k] /\ s[k + 1] = o[k + 1] /\ k \in 1 .. Len(o) - 1
      BY <1>0, <2>1, <2>2
    <3>2. QED  BY <1>0, <3>1 DEF Chain
  <2>3. CASE k > L
    <3>1. /\ k - L \in 1 .. M - 1 /\ s[k] = T[k - L]
          /\ s[k + 1] = T[(k - L) + 1]
      BY SMTT(30), <1>0, <2>1, <2>3
    <3>2. QED  BY <1>0, <3>1
  <2>4. CASE k = L
    <3>1. s[k] = o[L] /\ s[k + 1] = T[1] /\ L > 0
      <4>1. ~(k + 1 <= L) /\ (k + 1) - L = 1 /\ k <= L /\ k > 0
        BY <1>0, <2>1, <2>4
      <4>2. s[k] = o[k] /\ s[k + 1] = T[(k + 1) - L]
        BY <1>0, <2>1, <4>1
      <4>3. QED  BY <2>4, <4>1, <4>2
    <3>2. o[L][1] = n /\ o[L][2] = o[L][3]
      BY <1>0, <3>1 DEF Chain
    <3>3. T[1][1] = o[L][1] + 1
      BY <1>0, <3>2
    <3>4. QED  BY <1>0, <3>1, <3>2, <3>3 DEF Follows
  <2>5. QED  BY <1>0, <2>2, <2>3, <2>4
<1>5. QED  BY <1>0, <1>1, <1>2, <1>3, <1>4 DEF Chain

LEMMA ChainGrows ==
    ASSUME NEW n \in Nat, NEW c \in Nat, NEW o, Chain(o, n), NEW T, Run(T, n, c)
    PROVE  Chain(o \o T, n + c)
<1>1. o \in Seq(Tok) /\ Len(o) \in Nat /\ T \in Seq(Tok) /\ Len(T) \in Nat
  BY DEF Chain, Run
<1>2. PICK s : s = o \o T
  OBVIOUS
<1>3. /\ s \in Seq(Tok) /\ Len(s) = Len(o) + Len(T)
      /\ \A k \in 1 .. Len(o) + Len(T) :
           s[k] = IF k <= Len(o) THEN o[k] ELSE T[k - Len(o)]
  BY <1>1, <1>2, ConcatProperties
<1>4. CASE c = 0
  <2>1. T = << >>
    BY <1>1, <1>4, EmptySeq DEF Run
  <2>2. o \o T = o /\ n + c = n
    BY <1>1, <1>4, <2>1, ConcatEmptySeq
  <2>3. QED  BY <2>2
<1>5. CASE c > 0
  <2>1. Chain(s, n + c)
    BY <1>3, <1>5, ChainJoins
  <2>2. QED  BY <1>2, <2>1
<1>6. QED  BY <1>4, <1>5

\* Output that moves from the buffer to the application stays in place.
LEMMA MoveOut ==
    ASSUME NEW got \in Seq(Tok), NEW out \in Seq(Tok), NEW off \in Nat,
           NEW q \in Nat, off + q <= Len(out), NEW m \in 0 .. q
    PROVE  /\ got \o SubSeq(out, off + 1, off + m) \in Seq(Tok)
           /\ (got \o SubSeq(out, off + 1, off + m))
                \o SubSeq(out, (off + m) + 1, (off + m) + (q - m))
              = got \o SubSeq(out, off + 1, off + q)
<1> DEFINE a == SubSeq(out, off + 1, off + m)
           b == SubSeq(out, (off + m) + 1, (off + m) + (q - m))
           c == SubSeq(out, off + 1, off + q)
<1>1. Len(out) \in Nat /\ \A i \in 1 .. Len(out) : out[i] \in Tok
  OBVIOUS
<1>2. a \in Seq(Tok) /\ b \in Seq(Tok)
  BY <1>1, SubSeqProperties
<1>3. a \o b = c
  <2>1. /\ off + 1 \in 1 .. Len(out) + 1 /\ off + m \in (off + 1) - 1 .. Len(out)
        /\ off + q \in off + m .. Len(out) /\ (off + m) + (q - m) = off + q
    BY <1>1
  <2>2. QED  BY <2>1, ConcatAdjacentSubSeq
<1> HIDE DEF a, b, c
<1>4. got \o a \in Seq(Tok) /\ (got \o a) \o b = got \o (a \o b)
  <2>1. got \o a \in Seq(Tok)
    BY <1>2, ConcatProperties
  <2>2. (got \o a) \o b = got \o (a \o b)
    BY SMTT(40), <1>2, ConcatAssociative
  <2>3. QED  BY <2>1, <2>2
<1>5. QED  BY <1>3, <1>4 DEF a, b, c

-----------------------------------------------------------------------------
(* The pieces of the steps.                                                *)

\* What the application has and what is pending, for any stream and buffer.
Out(a, b, s) ==
  a.got \o SubSeq(b.out, b.out_offset + 1, b.out_offset + s.pending_out)

LEMMA RecordFacts ==
    /\ \A a \in AppRec : a.accepted \in Nat /\ a.got \in Seq(Tok)
    /\ \A s \in StrmRec : /\ s.pending_in \in Nat /\ s.pending_out \in Nat
                          /\ s.in_sz \in Nat /\ s.out_sz \in Nat
    /\ \A b \in BufRec : /\ b.out \in Seq(Tok) /\ Len(b.out) \in Nat
                         /\ b.out_offset \in Nat /\ b.in_offset \in Nat
                         /\ b.in \in [1 .. BufLen -> Nat]
    /\ \A c \in CallRec : /\ c.copied_input \in Nat /\ c.produced \in Nat
                          /\ c.copied_input_last \in Nat /\ c.in \in Nat
                          /\ c.consumed \in Nat /\ c.inbuf_offset \in Nat
  BY DEF AppRec, StrmRec, BufRec, CallRec

\* What is left when g, e and t follow a, b and s: the same output, some of
\* it with the application now.
Moved(a, b, s, g, e, t) ==
  /\ CopyOut(s) \in 0 .. s.pending_out
  /\ t \in StrmRec /\ t.pending_out = s.pending_out - CopyOut(s)
  /\ t.pending_in = s.pending_in /\ t.in_sz = s.in_sz
  /\ t.opaque = s.opaque
  /\ e \in BufRec /\ e.in = b.in /\ e.in_offset = b.in_offset
  /\ e.flush_more = b.flush_more
  /\ e.out_offset + t.pending_out <= Len(e.out)
  /\ t.pending_out = 0 => e.out_offset = 0
  /\ g \in AppRec /\ g.accepted = a.accepted /\ g.failed = a.failed
  /\ Out(g, e, t) = Out(a, b, s)

\* copyStreamOutput changes who has the output, not the output.
LEMMA DrainFact ==
    ASSUME NEW a \in AppRec, NEW b \in BufRec, NEW s \in StrmRec,
           b.out_offset + s.pending_out <= Len(b.out)
    PROVE  Moved(a, b, s, Taken(a, b, s), Advanced(b, s), Drained(s))
<1> PICK g, e, t : g = Taken(a, b, s) /\ e = Advanced(b, s) /\ t = Drained(s)
  OBVIOUS
<1>1. PICK m, q, off : m = CopyOut(s) /\ q = s.pending_out /\ off = b.out_offset
  OBVIOUS
<1>2. /\ q \in Nat /\ off \in Nat /\ s.out_sz \in Nat /\ a.got \in Seq(Tok)
      /\ b.out \in Seq(Tok) /\ off + q <= Len(b.out)
  BY <1>1, RecordFacts
<1>3. m \in 0 .. q /\ m <= s.out_sz
  <2>1. PICK w \in Nat : w = s.out_sz
    BY <1>2
  <2>2. m = Least(q, w)
    BY <1>1, <2>1 DEF CopyOut
  <2>3. m \in Nat /\ m <= q /\ m <= w
    BY <1>2, <2>2 DEF Least
  <2>4. QED  BY <1>2, <2>1, <2>3
<1>4. PICK z, r, o2 : z = s.out_sz - m /\ r = q - m /\ o2 = IF m = q THEN 0 ELSE off + m
  OBVIOUS
<1>5. /\ z \in Nat /\ r \in Nat /\ o2 \in Nat /\ (r = 0 => o2 = 0)
      /\ o2 + r <= Len(b.out)
  BY <1>2, <1>3, <1>4
<1>6. t = [s EXCEPT !.out_sz = z, !.pending_out = r]
  BY <1>1, <1>4 DEF Drained
<1>7. e = [b EXCEPT !.out_offset = o2]
  BY <1>1, <1>4 DEF Advanced
<1>8. /\ t \in StrmRec /\ t.pending_out = r
      /\ t.pending_in = s.pending_in /\ t.in_sz = s.in_sz
      /\ t.opaque = s.opaque
  BY <1>5, <1>6 DEF StrmRec
<1>9. /\ e \in BufRec /\ e.in = b.in /\ e.in_offset = b.in_offset
      /\ e.flush_more = b.flush_more /\ e.out = b.out /\ e.out_offset = o2
  BY <1>5, <1>7 DEF BufRec
<1>10. PICK x : x = a.got \o SubSeq(b.out, off + 1, off + m)
  OBVIOUS
<1>11. /\ x \in Seq(Tok)
       /\ x \o SubSeq(b.out, (off + m) + 1, (off + m) + (q - m))
            = a.got \o SubSeq(b.out, off + 1, off + q)
  BY ZenonT(40), <1>2, <1>3, <1>10, MoveOut
<1>12. g = [a EXCEPT !.got = x]
  BY <1>1, <1>10 DEF Taken
<1>13. /\ g \in AppRec /\ g.accepted = a.accepted /\ g.failed = a.failed
       /\ g.got = x
  BY <1>11, <1>12 DEF AppRec
<1>14. SubSeq(b.out, o2 + 1, o2 + r)
         = SubSeq(b.out, (off + m) + 1, (off + m) + (q - m))
  <2>1. CASE m = q
    <3>1. SubSeq(b.out, o2 + 1, o2 + r) = << >>
      BY <1>2, <1>3, <1>4, <2>1, SubSeqEmpty, 0 < 0 + 1
    <3>2. SubSeq(b.out, (off + m) + 1, (off + m) + (q - m)) = << >>
      BY <1>2, <1>3, <2>1, SubSeqEmpty, (off + m) + (q - m) < (off + m) + 1
    <3>3. QED  BY <3>1, <3>2
  <2>2. CASE m # q
    BY <1>4, <2>2
  <2>3. QED  BY <2>1, <2>2
<1>15. Out(g, e, t) = Out(a, b, s)
  BY <1>1, <1>8, <1>9, <1>11, <1>13, <1>14 DEF Out
<1>16. QED
  BY <1>1, <1>3, <1>4, <1>5, <1>8, <1>9, <1>13, <1>15 DEF Moved

\* The label done.
LEMMA DoneFact ==
    ASSUME NEW a \in AppRec, NEW c \in CallRec, NEW s \in StrmRec,
           NEW ok \in BOOLEAN, Done(c, s, a, ok), buf' \in BufRec,
           s.pending_in <= BufLen, a.accepted + c.copied_input <= NumBytes
    PROVE  /\ TypeInv' /\ call' = NoCall /\ app'.failed = ~ok
           /\ app'.got = a.got /\ app'.accepted = a.accepted + c.copied_input
           /\ strm'.opaque = s.opaque /\ strm'.pending_in = s.pending_in
           /\ strm'.pending_out = s.pending_out
<1>1. PICK n, f : n = a.accepted + c.copied_input /\ f = ~ok
  OBVIOUS
<1>2. n \in Nat /\ f \in BOOLEAN /\ c.copied_input \in Nat /\ c.produced \in Nat
  BY <1>1, RecordFacts
<1>3. app' = [a EXCEPT !.accepted = n, !.failed = f]
  BY <1>1 DEF Done
<1>4. /\ app' \in AppRec /\ app'.got = a.got /\ app'.accepted = n /\ app'.failed = f
  BY <1>2, <1>3 DEF AppRec
<1>5. /\ strm' \in StrmRec /\ strm'.opaque = s.opaque
      /\ strm'.pending_in = s.pending_in /\ strm'.pending_out = s.pending_out
  BY <1>2 DEF Done, StrmRec
<1>6. call' = NoCall /\ NoCall \in CallRec /\ NoCall.copied_input = 0
      /\ NoCall.copied_input_last = 0 /\ NoCall.pc = "idle"
  BY DEF Done, NoCall, CallRec
<1>7. TypeInv'
  BY <1>1, <1>2, <1>4, <1>5, <1>6 DEF TypeInv, Idle
<1>8. QED  BY <1>1, <1>4, <1>5, <1>6, <1>7

\* A call that ends well leaves the stream sound.
LEMMA DoneStep ==
    ASSUME NEW a \in AppRec, NEW c \in CallRec, NEW s \in StrmRec,
           Done(c, s, a, TRUE), buf' \in BufRec, s.opaque,
           s.pending_in <= BufLen, a.accepted + c.copied_input <= NumBytes,
           s.pending_in <= a.accepted + c.copied_input,
           Chain(Out(a, buf', s), a.accepted + c.copied_input - s.pending_in),
           buf'.out_offset + s.pending_out <= Len(buf'.out),
           s.pending_out = 0 => buf'.out_offset = 0,
           buf'.flush_more => s.pending_in > 0 /\ s.pending_out > 0,
           NEW off, off = IF s.pending_out > 0 THEN buf'.in_offset ELSE 0,
           off + s.pending_in <= BufLen,
           Holds(buf'.in, off, s.pending_in,
                 a.accepted + c.copied_input - s.pending_in)
    PROVE  SInv'
<1>1. /\ TypeInv' /\ call' = NoCall
      /\ app'.got = a.got /\ app'.accepted = a.accepted + c.copied_input
      /\ strm'.opaque = s.opaque /\ strm'.pending_in = s.pending_in
      /\ strm'.pending_out = s.pending_out
  BY DoneFact
<1>2. a.accepted \in Nat /\ c.copied_input \in Nat /\ s.pending_in \in Nat
  BY RecordFacts
<1>3. /\ call'.pc = "idle" /\ call'.copied_input = 0
  BY <1>1 DEF NoCall
<1>4. Processed' = a.accepted + c.copied_input - s.pending_in
  <2>1. Processed' = (a.accepted + c.copied_input) + 0 - s.pending_in
    BY <1>1, <1>3 DEF Processed
  <2>2. QED  BY <1>2, <2>1
<1>5. OutInv'
  <2>1. (app.got \o PendingOut)' = Out(a, buf', s)
    BY <1>1 DEF PendingOut, Out
  <2>2. QED  BY <1>1, <1>2, <1>3, <1>4, <2>1 DEF OutInv
<1>6. FlowInv'
  BY <1>1, <1>3 DEF FlowInv, Idle
<1>7. InInv'
  BY <1>1, <1>3, <1>4 DEF InInv, Located
<1>8. QED  BY <1>1, <1>5, <1>6, <1>7 DEF SInv, Sound

LEMMA FailStep == TypeInv' /\ app'.failed => SInv'
  BY DEF SInv

\* A stream that has not carried anything yet.
Empty == /\ app.got = << >> /\ app.accepted = 0 /\ call.copied_input = 0
         /\ strm.pending_in = 0 /\ strm.pending_out = 0 /\ buf = NewBuf

Fresh == OutInv /\ Located(0) /\ buf \in BufRec /\ ~buf.flush_more

LEMMA EmptySound == Empty => Fresh
<1> SUFFICES ASSUME Empty PROVE Fresh
  OBVIOUS
<1>1. /\ buf.out = << >> /\ buf.out_offset = 0 /\ ~buf.flush_more
      /\ buf \in BufRec
  BY DEF Empty, NewBuf, BufRec
<1>2. Processed = 0
  BY DEF Empty, Processed
<1>3. app.got \o PendingOut = << >>
  <2>1. SubSeq(<< >>, 0 + 1, 0 + 0) = << >>
    BY SubSeqEmpty, 0 + 0 < 0 + 1
  <2>2. PendingOut = << >>
    BY <1>1, <2>1 DEF PendingOut, Empty
  <2>3. QED  BY <2>2, ConcatEmptySeq DEF Empty
<1>4. Chain(<< >>, 0)
  BY DEF Chain
<1>5. OutInv
  BY <1>1, <1>2, <1>3, <1>4 DEF OutInv, Empty
<1>6. Located(0)
  BY Constants DEF Located, Holds, Empty
<1>7. QED  BY <1>1, <1>5, <1>6 DEF Fresh

LEMMA EmptySoundNext == Empty' => Fresh'
  BY EmptySound, PTL

\* A step that leaves what is pending alone.
LEMMA KeepOut ==
    ASSUME OutInv, app'.got = app.got, app'.accepted = app.accepted,
           call'.copied_input = call.copied_input, buf' = buf,
           strm'.pending_in = strm.pending_in,
           strm'.pending_out = strm.pending_out
    PROVE  OutInv' /\ Processed' = Processed
<1>1. Processed' = Processed /\ PendingOut' = PendingOut
  BY DEF Processed, PendingOut
<1>2. QED  BY <1>1 DEF OutInv

-----------------------------------------------------------------------------
(* The steps.                                                              *)

LEMMA InitSInv == Init => SInv
<1> SUFFICES ASSUME Init PROVE SInv
  OBVIOUS
<1>1. /\ app \in AppRec /\ app.accepted = 0 /\ app.got = << >> /\ ~app.failed
  BY Constants DEF Init, AppRec
<1>2. /\ strm \in StrmRec /\ strm.pending_in = 0 /\ strm.pending_out = 0
      /\ ~strm.opaque
  BY DEF Init, NoStream, StrmRec
<1>3. /\ call = NoCall /\ call \in CallRec /\ call.copied_input = 0
      /\ call.copied_input_last = 0 /\ call.pc = "idle"
  BY DEF Init, NoCall, CallRec
<1>4. Empty
  BY <1>1, <1>2, <1>3 DEF Empty, Init
<1>5. OutInv /\ Located(0) /\ buf \in BufRec /\ ~buf.flush_more
  BY <1>4, EmptySound DEF Fresh
<1>6. TypeInv
  BY <1>1, <1>2, <1>3, <1>5, Constants DEF TypeInv, Idle
<1>7. FlowInv
  BY <1>1, <1>2, <1>3, <1>5 DEF FlowInv, Idle
<1>8. InInv
  BY <1>2, <1>3, <1>5 DEF InInv
<1>9. QED  BY <1>5, <1>6, <1>7, <1>8 DEF SInv, Sound

LEMMA CallStep == ASSUME SInv, Call PROVE SInv'
<1>1. /\ TypeInv /\ Sound /\ Idle /\ call = NoCall
  BY DEF SInv, Call, TypeInv
<1>2. /\ app \in AppRec /\ strm \in StrmRec /\ buf \in BufRec
      /\ call.copied_input = 0 /\ call.pc = "idle"
      /\ app.accepted \in Nat /\ app.room \in Nat /\ app.accepted <= NumBytes
      /\ app.piece \in Nat
  BY <1>1, Constants DEF TypeInv, NoCall, AppRec
<1>3. PICK left : left = NumBytes - app.accepted
  OBVIOUS
<1>4. PICK n : n = Least(app.piece, left)
  OBVIOUS
<1>5. left \in Nat /\ n \in Nat /\ app.accepted + n <= NumBytes
  BY <1>2, <1>3, <1>4, Constants DEF Least
<1>6. PICK l \in BOOLEAN : l = (app.accepted + n = NumBytes)
  OBVIOUS
<1>7. /\ strm' = [strm EXCEPT !.in_sz = n, !.out_sz = app.room]
      /\ call' = [NoCall EXCEPT !.pc = "start", !.in = app.accepted, !.last = l]
      /\ app' = app /\ buf' = buf
  BY <1>3, <1>4, <1>6 DEF Call
<1>8. /\ strm' \in StrmRec /\ strm'.opaque = strm.opaque
      /\ strm'.pending_in = strm.pending_in /\ strm'.in_sz = n
      /\ strm'.pending_out = strm.pending_out
  BY <1>2, <1>5, <1>7 DEF StrmRec
<1>9. /\ call' \in CallRec /\ call'.pc = "start" /\ call'.in = app.accepted
      /\ call'.copied_input = 0 /\ call'.copied_input_last = 0
      /\ call'.consumed = 0 /\ call'.inbuf_offset = 0 /\ call'.copy_more
      /\ call'.produced = 0
  BY <1>2, <1>7 DEF CallRec, NoCall
<1>10. TypeInv'
  BY <1>1, <1>2, <1>5, <1>7, <1>8, <1>9 DEF TypeInv, Idle, Call
<1>11. OutInv' /\ Processed' = Processed
  BY <1>1, <1>2, <1>7, <1>8, <1>9, KeepOut DEF Sound
<1>12. FlowInv'
  BY <1>1, <1>2, <1>7, <1>8, <1>9 DEF FlowInv, Idle, Sound
<1>13. InInv'
  BY <1>1, <1>2, <1>7, <1>8, <1>9, <1>11 DEF InInv, Located, Sound
<1>14. QED  BY <1>10, <1>11, <1>12, <1>13 DEF SInv, Sound

LEMMA EndStreamStep == ASSUME SInv, EndStream PROVE SInv'
<1>1. TypeInv /\ Idle /\ call = NoCall /\ call' = call
  BY DEF SInv, EndStream, TypeInv
<1>2. PICK m : m = app.streams + 1
  OBVIOUS
<1>3. app \in AppRec /\ m \in Nat
  BY <1>1, <1>2 DEF TypeInv, AppRec
<1>4. app' = [app EXCEPT !.accepted = 0, !.got = << >>, !.failed = FALSE,
                         !.streams = m]
  BY <1>2 DEF EndStream
<1>5. app' \in AppRec /\ app'.accepted = 0 /\ app'.got = << >> /\ ~app'.failed
  <2>1. PICK e \in Seq(Tok) : e = << >>
    BY EmptySeq
  <2>2. app' = [app EXCEPT !.accepted = 0, !.got = e, !.failed = FALSE,
                           !.streams = m]
    BY <1>4, <2>1
  <2>3. QED  BY <1>3, <2>1, <2>2 DEF AppRec
<1>6. /\ strm' \in StrmRec /\ strm'.pending_in = 0 /\ strm'.pending_out = 0
      /\ ~strm'.opaque
  BY DEF EndStream, NoStream, StrmRec
<1>7. /\ call' \in CallRec /\ call'.copied_input = 0
      /\ call'.copied_input_last = 0 /\ call'.pc = "idle"
  BY <1>1 DEF NoCall, CallRec
<1>8. Empty'
  BY <1>5, <1>6, <1>7 DEF Empty, EndStream
<1>9. OutInv' /\ Located(0)' /\ buf' \in BufRec /\ ~buf'.flush_more
  BY <1>8, EmptySoundNext DEF Fresh
<1>10. TypeInv'
  BY <1>1, <1>5, <1>6, <1>7, <1>9, Constants DEF TypeInv, Idle
<1>11. FlowInv'
  BY <1>5, <1>6, <1>7, <1>9 DEF FlowInv, Idle
<1>12. InInv'
  BY <1>6, <1>7, <1>9 DEF InInv
<1>13. QED  BY <1>9, <1>10, <1>11, <1>12 DEF SInv, Sound

LEMMA StartStep == ASSUME SInv, Start PROVE SInv'
<1>1. TypeInv /\ ~app.failed /\ Sound /\ app' = app /\ call.pc = "start"
  BY DEF SInv, Start, TypeInv, Idle
<1>2. /\ app \in AppRec /\ strm \in StrmRec /\ buf \in BufRec
      /\ call \in CallRec
      /\ call.copied_input = 0 /\ call.consumed = 0 /\ call.inbuf_offset = 0
      /\ call.copy_more /\ call.produced = 0 /\ call.in = app.accepted
  BY <1>1 DEF TypeInv, Sound, FlowInv, Idle
<1>3. call' = [call EXCEPT !.pc = "drain"]
  BY DEF Start, Goto
<1>4. /\ call' \in CallRec /\ call'.pc = "drain" /\ call'.in = call.in
      /\ call'.copied_input = 0 /\ call'.consumed = 0 /\ call'.inbuf_offset = 0
      /\ call'.copied_input_last = call.copied_input_last
      /\ call'.copy_more /\ call'.produced = 0
  BY <1>2, <1>3 DEF CallRec
<1>5. CASE strm.opaque
  <2>1. strm' = strm /\ buf' = buf
    BY <1>5 DEF Start
  <2>2. TypeInv'
    BY <1>1, <1>2, <1>4, <2>1 DEF TypeInv, Idle
  <2>3. OutInv' /\ Processed' = Processed
    BY <1>1, <1>2, <1>4, <2>1, KeepOut DEF Sound
  <2>4. FlowInv'
    BY <1>1, <1>2, <1>4, <1>5, <2>1 DEF FlowInv, Idle, Sound
  <2>5. InInv'
    BY <1>1, <1>2, <1>4, <2>1, <2>3 DEF InInv, Located, FlowInv, Sound
  <2>6. QED  BY <2>2, <2>3, <2>4, <2>5 DEF SInv, Sound
<1>6. CASE ~strm.opaque
  <2>1. /\ strm' = [strm EXCEPT !.opaque = TRUE, !.pending_in = 0, !.pending_out = 0]
        /\ buf' = NewBuf
    BY <1>6 DEF Start
  <2>2. /\ strm' \in StrmRec /\ strm'.pending_in = 0 /\ strm'.pending_out = 0
        /\ strm'.opaque /\ strm'.in_sz = strm.in_sz
    BY <1>2, <2>1 DEF StrmRec
  <2>3. app.accepted = 0 /\ app.got = << >>
    BY <1>1, <1>6 DEF Sound, FlowInv
  <2>4. Empty'
    BY <1>1, <1>4, <2>1, <2>2, <2>3 DEF Empty
  <2>5. OutInv' /\ Located(0)' /\ buf' \in BufRec /\ ~buf'.flush_more
    BY <2>4, EmptySoundNext DEF Fresh
  <2>6. TypeInv'
    BY <1>1, <1>2, <1>4, <2>2, <2>3, <2>5, Constants DEF TypeInv, Idle
  <2>7. FlowInv'
    BY <1>1, <1>2, <1>4, <2>2, <2>5 DEF FlowInv, Idle
  <2>8. InInv'
    BY <1>4, <2>2, <2>5 DEF InInv
  <2>9. QED  BY <2>5, <2>6, <2>7, <2>8 DEF SInv, Sound
<1>7. QED  BY <1>5, <1>6

LEMMA RefuseStep == ASSUME SInv, Refuse PROVE SInv'
<1>1. /\ TypeInv /\ app \in AppRec /\ strm \in StrmRec /\ buf \in BufRec
      /\ Done(NoCall, strm, app, FALSE) /\ buf' = buf
  BY DEF SInv, Refuse, TypeInv
<1>2. NoCall \in CallRec /\ NoCall.copied_input = 0
  BY DEF NoCall, CallRec
<1>3. strm.pending_in <= BufLen /\ app.accepted + NoCall.copied_input <= NumBytes
  BY <1>1, <1>2, Constants, RecordFacts DEF TypeInv
<1>4. TypeInv' /\ app'.failed = ~FALSE
  BY <1>1, <1>2, <1>3, DoneFact
<1>5. QED  BY <1>4, FailStep

LEMMA RefuseInitStep == ASSUME SInv, RefuseInit PROVE SInv'
<1>1. /\ TypeInv /\ app \in AppRec /\ strm' = strm /\ buf' = buf
      /\ call' = NoCall /\ app' = [app EXCEPT !.failed = TRUE]
  BY DEF SInv, RefuseInit, TypeInv
<1>2. /\ call' \in CallRec /\ call'.copied_input = 0 /\ call'.pc = "idle"
      /\ call'.copied_input_last = 0
  BY <1>1 DEF NoCall, CallRec
<1>3. app' \in AppRec /\ app'.failed /\ app'.accepted = app.accepted
  BY <1>1 DEF AppRec
<1>4. app.accepted + 0 <= NumBytes
  BY <1>1, Constants, RecordFacts DEF TypeInv
<1>5. TypeInv'
  BY <1>1, <1>2, <1>3, <1>4 DEF TypeInv, Idle
<1>6. QED  BY <1>3, <1>5, FailStep

LEMMA DrainStep == ASSUME SInv, Drain PROVE SInv'
<1>1. /\ TypeInv /\ ~app.failed /\ Sound /\ call.pc = "drain"
      /\ strm.pending_out > 0
  BY DEF SInv, Drain, TypeInv, Idle
<1>2. /\ app \in AppRec /\ strm \in StrmRec /\ buf \in BufRec
      /\ call \in CallRec /\ strm.opaque /\ OutInv
      /\ buf.out_offset + strm.pending_out <= Len(buf.out)
  BY <1>1 DEF TypeInv, Sound, FlowInv, OutInv
<1>3. /\ call.copied_input = 0 /\ call.consumed = 0 /\ call.inbuf_offset = 0
      /\ call.copy_more /\ call.in = app.accepted
      /\ buf.flush_more => strm.pending_in > 0
  BY <1>1 DEF Sound, FlowInv, Idle
<1>4. Located(buf.in_offset)
  BY <1>1 DEF Sound, InInv
<1>5. PICK s, e, g : /\ s = Drained(strm) /\ e = Advanced(buf, strm)
                     /\ g = Taken(app, buf, strm)
  OBVIOUS
<1>6. /\ CopyOut(strm) \in 0 .. strm.pending_out
      /\ s \in StrmRec /\ s.pending_out = strm.pending_out - CopyOut(strm)
      /\ s.pending_in = strm.pending_in /\ s.in_sz = strm.in_sz
      /\ s.opaque = strm.opaque
      /\ e \in BufRec /\ e.in = buf.in /\ e.in_offset = buf.in_offset
      /\ e.flush_more = buf.flush_more
      /\ e.out_offset + s.pending_out <= Len(e.out)
      /\ s.pending_out = 0 => e.out_offset = 0
      /\ g \in AppRec /\ g.accepted = app.accepted /\ g.failed = app.failed
      /\ Out(g, e, s) = Out(app, buf, strm)
  <2>1. Moved(app, buf, strm, g, e, s)
    BY <1>2, <1>5, DrainFact
  <2>2. QED  BY <2>1 DEF Moved
<1>7. PICK n \in Nat : /\ n = CopyOut(strm) /\ strm.pending_out \in Nat
                       /\ s.pending_out = strm.pending_out - n
                       /\ s.pending_out \in Nat
  BY <1>2, <1>6, RecordFacts
<1>8. PICK pr : pr = call.produced + n
  OBVIOUS
<1>9. pr \in Nat /\ pr >= n
  BY <1>2, <1>8, RecordFacts
<1>10. PICK c : c = [call EXCEPT !.produced = pr]
  OBVIOUS
<1>11. /\ c \in CallRec /\ c.copied_input = 0 /\ c.pc = "drain" /\ c.consumed = 0
       /\ c.inbuf_offset = 0 /\ c.copy_more /\ c.in = call.in /\ c.produced = pr
       /\ c.copied_input_last = call.copied_input_last
  BY <1>1, <1>2, <1>3, <1>9, <1>10 DEF CallRec
<1>12. /\ app.accepted \in Nat /\ strm.pending_in \in Nat
       /\ strm.pending_in <= app.accepted /\ strm.pending_in <= BufLen
       /\ app.accepted <= NumBytes
       /\ Chain(Out(app, buf, strm), app.accepted - strm.pending_in)
       /\ Processed = app.accepted - strm.pending_in
       /\ app.accepted + strm.in_sz <= NumBytes
  <2>1. app.accepted \in Nat /\ strm.pending_in \in Nat /\ strm.in_sz \in Nat
    BY <1>2, RecordFacts
  <2>2. Processed = app.accepted - strm.pending_in
    BY <1>3, <2>1 DEF Processed
  <2>3. Chain(Out(app, buf, strm), Processed)
    BY <1>2 DEF OutInv, Out, PendingOut
  <2>4. app.accepted + 0 + strm.in_sz <= NumBytes /\ app.accepted + 0 <= NumBytes
        /\ strm.pending_in <= BufLen
    BY <1>1, <1>3 DEF TypeInv, Idle
  <2>5. strm.pending_in <= app.accepted + 0
    BY <1>2, <1>3 DEF OutInv
  <2>6. QED  BY <2>1, <2>2, <2>3, <2>4, <2>5, Constants
<1>13. CASE n = 0 \/ (/\ app.dir = "compress" /\ s.pending_out = 0
                      /\ s.pending_in = 0 /\ s.in_sz = 0)
  <2>1. PICK f \in BOOLEAN : f = (buf.flush_more \/ s.pending_in > 0)
    OBVIOUS
  <2>2. /\ Done(c, s, g, TRUE) /\ buf' = [e EXCEPT !.flush_more = f]
    BY <1>5, <1>6, <1>7, <1>8, <1>10, <1>13, <2>1 DEF Drain
  <2>3. /\ buf' \in BufRec /\ buf'.in = e.in /\ buf'.in_offset = e.in_offset
        /\ buf'.out = e.out /\ buf'.out_offset = e.out_offset
        /\ buf'.flush_more = f
    BY <1>6, <2>2 DEF BufRec
  <2>4. Out(g, buf', s) = Out(g, e, s)
    BY <2>3 DEF Out
  <2>5. f => s.pending_in > 0 /\ s.pending_out > 0
    <3> SUFFICES ASSUME f PROVE s.pending_in > 0 /\ s.pending_out > 0
      OBVIOUS
    <3>1. buf.flush_more \/ s.pending_in > 0
      BY <2>1, Zenon
    <3>2. s.pending_in > 0
      BY <1>3, <1>6, <3>1
    <3>3. QED  BY <1>1, <1>7, <1>12, <1>13, <3>2
  <2>6. PICK off : off = IF s.pending_out > 0 THEN buf'.in_offset ELSE 0
    OBVIOUS
  <2>7. /\ off + s.pending_in <= BufLen
        /\ Holds(buf'.in, off, s.pending_in, g.accepted + c.copied_input - s.pending_in)
    <3>1. g.accepted + c.copied_input - s.pending_in = Processed
      BY <1>6, <1>11, <1>12
    <3>2. CASE s.pending_out > 0
      BY <1>4, <1>6, <2>3, <2>6, <3>1, <3>2 DEF Located
    <3>3. CASE ~(s.pending_out > 0)
      <4>1. off = 0 /\ s.pending_in = 0
        BY <1>1, <1>6, <1>7, <1>13, <2>6, <3>3
      <4>2. QED  BY <4>1, Constants DEF Holds
    <3>4. QED  BY <3>2, <3>3
  <2>8. Chain(Out(g, buf', s), g.accepted + c.copied_input - s.pending_in)
    <3>1. g.accepted + c.copied_input - s.pending_in = app.accepted - strm.pending_in
      BY <1>6, <1>11, <1>12
    <3>2. QED  BY <1>6, <1>12, <2>4, <3>1
  <2>9. /\ s.pending_in <= BufLen /\ g.accepted + c.copied_input <= NumBytes
        /\ s.pending_in <= g.accepted + c.copied_input
    BY <1>6, <1>11, <1>12
  <2>10. /\ s.opaque /\ buf'.out_offset + s.pending_out <= Len(buf'.out)
         /\ s.pending_out = 0 => buf'.out_offset = 0
         /\ buf'.flush_more => s.pending_in > 0 /\ s.pending_out > 0
    BY <1>2, <1>6, <2>3, <2>5
  <2>11. QED
    BY ZenonT(40), <1>6, <1>11, <2>2, <2>3, <2>6, <2>7, <2>8, <2>9, <2>10, DoneStep
<1>14. CASE ~(n = 0 \/ (/\ app.dir = "compress" /\ s.pending_out = 0
                        /\ s.pending_in = 0 /\ s.in_sz = 0))
  <2>1. call' = c /\ strm' = s /\ app' = g /\ buf' = e
    BY <1>5, <1>6, <1>7, <1>8, <1>10, <1>14 DEF Drain
  <2>2. pr > 0
    BY <1>9, <1>14
  <2>3. Processed' = Processed
    BY <1>6, <1>11, <1>12, <2>1 DEF Processed
  <2>4. OutInv'
    <3>1. (app.got \o PendingOut)' = Out(g, e, s)
      BY <2>1 DEF PendingOut, Out
    <3>2. QED  BY <1>6, <1>11, <1>12, <2>1, <2>3, <3>1 DEF OutInv
  <2>5. TypeInv'
    <3>1. call.copied_input_last <= call.copied_input
      BY <1>1 DEF TypeInv
    <3>2. /\ g.accepted + c.copied_input <= NumBytes
          /\ g.accepted + c.copied_input + s.in_sz <= NumBytes
      <4>1. strm.in_sz \in Nat
        BY <1>2, RecordFacts
      <4>2. QED  BY <1>6, <1>11, <1>12, <4>1
    <3>3. QED
      BY <1>1, <1>3, <1>6, <1>11, <1>12, <2>1, <3>1, <3>2 DEF TypeInv, Idle
  <2>6. FlowInv'
    BY <1>2, <1>3, <1>6, <1>11, <2>1 DEF FlowInv, Idle
  <2>7. InInv'
    BY <1>4, <1>6, <1>11, <2>1, <2>2, <2>3 DEF InInv, Located
  <2>8. QED  BY <2>4, <2>5, <2>6, <2>7 DEF SInv, Sound
<1>15. QED  BY <1>13, <1>14

LEMMA DrainDoneStep == ASSUME SInv, DrainDone PROVE SInv'
<1>1. /\ TypeInv /\ ~app.failed /\ Sound /\ call.pc = "drain"
      /\ strm.pending_out = 0 /\ app' = app /\ strm' = strm /\ buf' = buf
      /\ call' = [call EXCEPT !.pc = "fill"]
  BY DEF SInv, DrainDone, TypeInv, Idle, Goto
<1>2. /\ call \in CallRec /\ strm.opaque /\ OutInv
      /\ call.copied_input = 0 /\ call.consumed = 0 /\ call.inbuf_offset = 0
      /\ call.copy_more /\ call.in = app.accepted
      /\ buf.flush_more => strm.pending_in > 0
  BY <1>1 DEF TypeInv, Sound, FlowInv, Idle
<1>3. /\ call' \in CallRec /\ call'.pc = "fill" /\ call'.in = call.in
      /\ call'.copied_input = 0 /\ call'.consumed = 0 /\ call'.inbuf_offset = 0
      /\ call'.copied_input_last = call.copied_input_last
      /\ call'.copy_more /\ call'.produced = call.produced
  BY <1>1, <1>2 DEF CallRec
<1>4. TypeInv'
  BY <1>1, <1>2, <1>3 DEF TypeInv, Idle
<1>5. OutInv' /\ Processed' = Processed
  BY <1>1, <1>2, <1>3, KeepOut
<1>6. FlowInv'
  BY <1>1, <1>2, <1>3 DEF FlowInv, Idle
<1>7. InInv'
  <2>1. call.produced \in Nat /\ strm.pending_in \in Nat
    BY <1>1, <1>2, RecordFacts DEF TypeInv
  <2>2. buf.flush_more => Located(buf.in_offset)
    BY <1>1 DEF Sound, InInv
  <2>3. ~buf.flush_more /\ call.produced = 0 => Located(0)
    BY <1>1 DEF Sound, InInv
  <2>4. strm.pending_in = 0 => Located(0)
    BY Constants DEF Located, Holds
  <2>5. Located(buf.in_offset)' = Located(buf.in_offset)
        /\ Located(call.inbuf_offset)' = Located(0)
    BY <1>1, <1>3, <1>5 DEF Located
  <2>6. QED
    BY <1>1, <1>3, <2>1, <2>2, <2>3, <2>4, <2>5 DEF InInv
<1>8. QED  BY <1>4, <1>5, <1>6, <1>7 DEF SInv, Sound

LEMMA FillStep == ASSUME SInv, InputSpared, Fill PROVE SInv'
<1>1. /\ TypeInv /\ ~app.failed /\ Sound /\ call.pc = "fill" /\ OutInv
  BY DEF SInv, Fill, TypeInv, Idle, Sound
<1>2. /\ app \in AppRec /\ strm \in StrmRec /\ buf \in BufRec
      /\ call \in CallRec /\ strm.opaque /\ strm.pending_out = 0
      /\ buf.out_offset = 0 /\ call.consumed = call.copied_input
      /\ call.in = app.accepted
      /\ call.inbuf_offset > 0 => call.produced > 0
      /\ strm.pending_in = 0 => call.inbuf_offset = 0
      /\ buf.flush_more => strm.pending_in > 0
  BY <1>1 DEF TypeInv, Sound, FlowInv, OutInv, Idle
<1>3. PICK acc, ci, P, B : /\ acc = app.accepted /\ ci = call.copied_input
                           /\ P = strm.pending_in /\ B = strm.in_sz
  OBVIOUS
<1>4. /\ acc \in Nat /\ ci \in Nat /\ P \in Nat /\ B \in Nat
      /\ P <= BufLen /\ acc + ci + B <= NumBytes /\ P <= acc + ci
      /\ call.produced \in Nat /\ call.inbuf_offset \in Nat
      /\ Processed = acc + ci - P /\ BufLen \in Nat /\ NumBytes \in Nat
  BY <1>1, <1>2, <1>3, Constants, RecordFacts DEF TypeInv, Idle, OutInv, Processed
<1>5. Chain(Out(app, buf, strm), acc + ci - P)
  BY <1>1, <1>3, <1>4 DEF OutInv, Out, PendingOut
<1>6. CASE ~(call.copy_more /\ ~buf.flush_more)
  <2>1. /\ call' = [call EXCEPT !.pc = "process"]
        /\ app' = app /\ strm' = strm /\ buf' = buf
    BY <1>6 DEF Fill, Goto
  <2>2. /\ call' \in CallRec /\ call'.pc = "process" /\ call'.in = call.in
        /\ call'.copied_input = call.copied_input
        /\ call'.copied_input_last = call.copied_input_last
        /\ call'.inbuf_offset = call.inbuf_offset
    BY <1>2, <2>1 DEF CallRec
  <2>3. TypeInv'
    BY <1>1, <2>1, <2>2 DEF TypeInv, Idle
  <2>4. OutInv' /\ Processed' = Processed
    BY <1>1, <2>1, <2>2, KeepOut
  <2>5. FlowInv'
    BY <1>2, <2>1, <2>2 DEF FlowInv, Idle
  <2>6. Located(Offset)
    BY <1>1, <1>2, <1>6 DEF Sound, InInv, Offset
  <2>7. Located(Offset)' = Located(Offset)
    BY <2>1, <2>2, <2>4 DEF Located, Offset
  <2>8. InInv'
    BY <2>2, <2>6, <2>7 DEF InInv
  <2>9. QED  BY <2>3, <2>4, <2>5, <2>8 DEF SInv, Sound
<1>7. CASE call.copy_more /\ ~buf.flush_more
  <2>1. call.inbuf_offset = 0
    BY <1>1, <1>2, <1>3, <1>4, <1>7 DEF InputSpared
  <2>2. P > 0 => call.produced = 0
    BY <1>1, <1>3, <1>7 DEF InputSpared
  <2>3. call.copy_more /\ call.produced > 0 => strm.pending_in = 0
    BY <1>3, <1>4, <2>2
  <2>4. Holds(buf.in, 0, P, acc + ci - P)
    BY <1>1, <1>3, <1>4, <1>7, <2>1, <2>3 DEF Sound, InInv, Located
  <2>5. PICK n : n = CopyIn(strm)
    OBVIOUS
  <2>6. n \in Nat /\ n <= B /\ P + n <= BufLen
    BY <1>3, <1>4, <2>5 DEF CopyIn, Least
  <2>7. PICK cj, pj, bj, fr : cj = ci + n /\ pj = P + n /\ bj = B - n /\ fr = acc + ci
    OBVIOUS
  <2>8. /\ cj \in Nat /\ pj \in Nat /\ bj \in Nat /\ fr \in Nat
        /\ pj <= BufLen /\ acc + cj + bj <= NumBytes /\ acc + cj <= NumBytes
        /\ pj <= acc + cj /\ acc + cj - pj = acc + ci - P /\ ci <= cj
    BY <1>4, <2>6, <2>7
  <2>9. PICK s : s = [strm EXCEPT !.pending_in = pj, !.in_sz = bj]
    OBVIOUS
  <2>10. /\ s \in StrmRec /\ s.pending_in = pj /\ s.in_sz = bj
         /\ s.pending_out = strm.pending_out /\ s.opaque = strm.opaque
    BY <1>2, <2>8, <2>9 DEF StrmRec
  <2>11. PICK d : d = [call EXCEPT !.copied_input_last = ci, !.copied_input = cj]
    OBVIOUS
  <2>12. /\ d \in CallRec /\ d.copied_input = cj /\ d.copied_input_last = ci
         /\ d.in = call.in /\ d.inbuf_offset = call.inbuf_offset
         /\ d.pc = call.pc
    BY <1>2, <1>4, <2>8, <2>11 DEF CallRec
  <2>13. PICK f : f = [k \in 1 .. BufLen |->
                         IF k \in P + 1 .. P + n THEN fr + k - P ELSE buf.in[k]]
    OBVIOUS
  <2>14. DOMAIN buf.in = 1 .. BufLen /\ \A k \in 1 .. BufLen : buf.in[k] \in Nat
    BY <1>2, RecordFacts
  <2>15. f \in [1 .. BufLen -> Nat] /\ Holds(f, 0, pj, acc + ci - P)
    <3>1. \A k \in 1 .. BufLen : f[k] \in Nat
      BY <1>4, <2>6, <2>8, <2>13, <2>14
    <3>2. \A k \in 1 .. pj : f[0 + k] = (acc + ci - P) + k
      BY <1>4, <2>4, <2>6, <2>7, <2>8, <2>13 DEF Holds
    <3>3. QED  BY <2>13, <3>1, <3>2 DEF Holds
  <2>16. buf' = [buf EXCEPT !.in = f]
    <3>1. buf' = Filled(buf, strm, call.in + call.consumed)
      BY <1>7 DEF Fill
    <3>2. call.in + call.consumed = fr
      BY <1>2, <1>3, <2>7
    <3>3. QED  BY <1>3, <2>5, <2>13, <2>14, <3>1, <3>2 DEF Filled
  <2>17. /\ buf' \in BufRec /\ buf'.in = f /\ buf'.out = buf.out
         /\ buf'.out_offset = buf.out_offset /\ buf'.flush_more = buf.flush_more
         /\ buf'.in_offset = buf.in_offset
    BY <1>2, <2>15, <2>16 DEF BufRec
  <2>18. Out(app, buf', s) = Out(app, buf, strm)
    BY <2>10, <2>17 DEF Out
  <2>19. CASE WaitsForMore(s)
    <3>1. Done(d, s, app, TRUE)
      BY <1>3, <1>7, <2>5, <2>7, <2>9, <2>11, <2>19 DEF Fill
    <3>2. /\ s.opaque /\ s.pending_in <= BufLen /\ s.pending_out = 0
          /\ buf'.out_offset + s.pending_out <= Len(buf'.out)
          /\ buf'.out_offset = 0 /\ ~buf'.flush_more
      BY <1>1, <1>2, <1>7, <2>8, <2>10, <2>17 DEF OutInv
    <3>3. /\ app.accepted + d.copied_input = acc + cj /\ s.pending_in = pj
          /\ Chain(Out(app, buf', s), app.accepted + d.copied_input - s.pending_in)
      BY <1>3, <1>5, <2>8, <2>10, <2>12, <2>18
    <3>4. PICK off : off = IF s.pending_out > 0 THEN buf'.in_offset ELSE 0
      OBVIOUS
    <3>5. /\ off + s.pending_in <= BufLen
          /\ Holds(buf'.in, off, s.pending_in,
                   app.accepted + d.copied_input - s.pending_in)
      <4>1. off = 0 /\ 0 + pj <= BufLen
        BY <2>8, <3>2, <3>4
      <4>2. Holds(f, 0, pj, acc + cj - pj)
        BY <2>8, <2>15
      <4>3. app.accepted + d.copied_input - s.pending_in = acc + cj - pj
        BY <1>3, <2>10, <2>12
      <4>4. QED  BY <2>10, <2>17, <4>1, <4>2, <4>3
    <3>6. QED
      BY <1>2, <2>8, <2>10, <2>12, <2>17, <3>1, <3>2, <3>3, <3>4, <3>5, DoneStep
  <2>20. CASE ~WaitsForMore(s)
    <3>1. /\ call' = [d EXCEPT !.copy_more = FALSE, !.pc = "process"]
          /\ strm' = s /\ app' = app
      BY <1>3, <1>7, <2>5, <2>7, <2>9, <2>11, <2>20 DEF Fill
    <3>2. /\ call' \in CallRec /\ call'.pc = "process" /\ call'.in = d.in
          /\ call'.copied_input = cj /\ call'.copied_input_last = ci
          /\ call'.inbuf_offset = 0
      BY <2>1, <2>12, <3>1 DEF CallRec
    <3>3. TypeInv'
      BY <1>1, <1>2, <1>3, <2>8, <2>10, <2>17, <3>1, <3>2 DEF TypeInv, Idle
    <3>4. Processed' = acc + ci - P
      BY <1>3, <2>8, <2>10, <3>1, <3>2 DEF Processed
    <3>5. OutInv'
      <4>1. (app.got \o PendingOut)' = Out(app, buf, strm)
        BY <2>18, <3>1 DEF PendingOut, Out
      <4>2. QED
        BY <1>1, <1>2, <1>3, <1>5, <2>8, <2>10, <2>17, <3>1, <3>2, <3>4, <4>1
        DEF OutInv
    <3>6. FlowInv'
      BY <1>2, <1>7, <2>10, <2>12, <2>17, <3>1, <3>2 DEF FlowInv, Idle
    <3>7. InInv'
      <4>1. Offset' = 0
        BY <1>7, <2>17, <3>2 DEF Offset
      <4>2. Located(Offset)'
        BY <2>8, <2>10, <2>15, <2>17, <3>1, <3>4, <4>1 DEF Located
      <4>3. QED  BY <3>2, <4>2 DEF InInv
    <3>8. QED  BY <3>3, <3>5, <3>6, <3>7 DEF SInv, Sound
  <2>21. QED  BY <2>19, <2>20
<1>8. QED  BY <1>6, <1>7

LEMMA ProcessFailStep == ASSUME SInv, ProcessFail PROVE SInv'
<1>1. /\ TypeInv /\ app \in AppRec /\ strm \in StrmRec /\ buf \in BufRec
      /\ call \in CallRec
      /\ Done([call EXCEPT !.copied_input = call.copied_input_last], strm, app, FALSE)
      /\ buf' = [buf EXCEPT !.flush_more = FALSE]
  BY DEF SInv, ProcessFail, TypeInv
<1>2. PICK c : c = [call EXCEPT !.copied_input = call.copied_input_last]
  OBVIOUS
<1>3. c \in CallRec /\ c.copied_input = call.copied_input_last
  BY <1>1, <1>2 DEF CallRec
<1>4. buf' \in BufRec
  BY <1>1 DEF BufRec
<1>5. strm.pending_in <= BufLen /\ app.accepted + c.copied_input <= NumBytes
  <2>1. /\ app.accepted \in Nat /\ call.copied_input \in Nat
        /\ call.copied_input_last \in Nat
    BY <1>1, RecordFacts
  <2>2. QED  BY <1>1, <1>3, <2>1, Constants DEF TypeInv
<1>6. TypeInv' /\ app'.failed = ~FALSE
  BY <1>1, <1>2, <1>3, <1>4, <1>5, DoneFact
<1>7. QED  BY <1>6, FailStep

\* r takes the first r.in of the p bytes from n + 1 on and turns them into
\* tokens; all of them, if it did not run out of space.
Converts(r, n, p) ==
  /\ r.in \in 0 .. p /\ Run(r.out, n, r.in)
  /\ r.rc = "OK" => r.in = p
  /\ r.rc \in {"OK", "BUF_ERROR", "FAIL"}

LEMMA CodecFact ==
    ASSUME NEW P \in Nat, NEW bytes \in Seq(Nat), Len(bytes) = P,
           NEW n \in Nat, \A i \in 1 .. P : bytes[i] = n + i,
           NEW r \in Codec(bytes)
    PROVE  Converts(r, n, P)
<1>1. CASE r = [rc |-> "FAIL", in |-> 0, out |-> << >>]
  <2>1. Run(<< >>, n, 0)
    BY EmptySeq DEF Run
  <2>2. QED  BY <1>1, <2>1 DEF Converts
<1>2. ASSUME NEW x \in Expansions,
             r = [rc |-> IF x * Len(bytes) <= BufLen THEN "OK" ELSE "BUF_ERROR",
                  in |-> Least(Len(bytes), BufLen \div x),
                  out |-> Tokens(SubSeq(bytes, 1, Least(Len(bytes), BufLen \div x)), x)]
      PROVE  Converts(r, n, P)
  <2>1. x \in Nat \ {0} /\ BufLen \in Nat
    BY Constants
  <2>2. PICK q : q = BufLen \div x
    OBVIOUS
  <2>3. q \in Nat /\ (x * P <= BufLen => P <= q)
    <3>1. /\ BufLen % x \in 0 .. (x - 1) /\ q \in Nat
          /\ BufLen = q * x + (BufLen % x)
      BY <2>1, <2>2, DivMod
    <3>2. PICK m \in 0 .. (x - 1) : BufLen = q * x + m
      BY <3>1
    <3>3. ASSUME P > q PROVE x * P > BufLen
      <4>1. PICK d \in Nat : P = q + 1 + d
        <5>1. P - q - 1 \in Nat /\ P = q + 1 + (P - q - 1)
          BY <3>1, <3>3
        <5>2. QED  BY <5>1
      <4>2. x * P = q * x + x + x * d /\ x * d >= 0
        BY <2>1, <3>1, <4>1
      <4>3. PICK y, z, w \in Int : y = x * P /\ z = q * x /\ w = x * d
        BY <2>1, <3>1, <4>1
      <4>4. y = z + x + w /\ w >= 0 /\ BufLen = z + m
        BY <3>2, <4>2, <4>3
      <4>5. y > BufLen
        BY <2>1, <4>3, <4>4
      <4>6. QED  BY <4>3, <4>5
    <3>4. x * P \in Nat
      BY <2>1, Product
    <3>5. QED  BY <2>1, <3>1, <3>3, <3>4
  <2>4. PICK c : c = Least(P, q)
    OBVIOUS
  <2>5. c \in 0 .. P /\ (P <= q => c = P)
    BY <2>3, <2>4 DEF Least
  <2>6. PICK b : b = SubSeq(bytes, 1, c)
    OBVIOUS
  <2>7. Len(b) = c /\ \A i \in 1 .. c : b[i] = n + i
    BY <2>5, <2>6, SubSeqProperties
  <2>8. Run(Tokens(b, x), n, c)
    <3>1. /\ c \in Nat /\ Len(b) = c /\ x \in Nat \ {0}
          /\ \A i \in 1 .. c : b[i] = n + i
      BY <2>1, <2>5, <2>7
    <3>2. QED  BY <3>1, TokensFact
  <2>9. /\ r.rc = (IF x * P <= BufLen THEN "OK" ELSE "BUF_ERROR")
        /\ r.in = c /\ r.out = Tokens(b, x)
    BY <1>2, <2>2, <2>4, <2>6
  <2>10. r.rc = "OK" => x * P <= BufLen
    BY <2>9
  <2>11. r.rc \in {"OK", "BUF_ERROR", "FAIL"}
    BY <2>9
  <2>12. QED  BY <2>3, <2>5, <2>8, <2>9, <2>10, <2>11 DEF Converts
<1>3. QED  BY <1>1, <1>2 DEF Codec

LEMMA ProcessStep == ASSUME SInv, Process PROVE SInv'
<1>1. /\ TypeInv /\ ~app.failed /\ Sound /\ call.pc = "process" /\ OutInv
  BY DEF SInv, Process, TypeInv, Idle, Sound
<1>2. /\ app \in AppRec /\ strm \in StrmRec /\ buf \in BufRec
      /\ call \in CallRec /\ strm.opaque /\ strm.pending_out = 0
      /\ buf.out_offset = 0 /\ call.in = app.accepted
      /\ call.copied_input_last <= call.copied_input
  BY <1>1 DEF TypeInv, Sound, FlowInv, OutInv, Idle
<1>3. PICK acc, ci, P, B, off \in Nat :
        /\ acc = app.accepted /\ ci = call.copied_input
        /\ P = strm.pending_in /\ B = strm.in_sz /\ off = Offset
  BY <1>2, RecordFacts DEF Offset
<1>4. /\ acc + ci + B <= NumBytes /\ P <= acc + ci /\ P <= BufLen
      /\ call.produced \in Nat /\ call.copied_input_last \in Nat
      /\ Processed = acc + ci - P /\ BufLen \in Nat /\ NumBytes \in Nat
  BY <1>1, <1>2, <1>3, Constants, RecordFacts
  DEF TypeInv, Idle, OutInv, Processed, Offset
<1>5. PICK N \in Nat : N = acc + ci - P
  BY <1>4
<1>6. off + P <= BufLen /\ Holds(buf.in, off, P, N)
  BY <1>1, <1>3, <1>4, <1>5 DEF Sound, InInv, Located
<1>7. PICK bytes : bytes = SubSeq(buf.in, off + 1, off + P)
  OBVIOUS
<1>8. bytes \in Seq(Nat) /\ Len(bytes) = P /\ \A i \in 1 .. P : bytes[i] = N + i
  <2>1. PICK w \in Seq(Nat) : w = buf.in /\ Len(w) = BufLen
    <3>1. buf.in \in [1 .. BufLen -> Nat]
      BY <1>2, RecordFacts
    <3>2. QED  BY <1>4, <3>1
  <2>2. PICK m \in Nat, n \in Nat : m = off + 1 /\ n = off + P
    OBVIOUS
  <2>3. m \in 1 .. Len(w) + 1 /\ n \in m - 1 .. Len(w) /\ n - m + 1 = P
    BY <1>4, <1>6, <2>1, <2>2
  <2>4. /\ bytes \in Seq(Nat) /\ Len(bytes) = n - m + 1
        /\ \A i \in 1 .. n - m + 1 : bytes[i] = w[m + i - 1]
    <3>1. w \in Seq(Nat) /\ m \in 1 .. Len(w) + 1 /\ n \in m - 1 .. Len(w)
      BY <2>1, <2>3
    <3>2. SubSeq(w, m, n) \in Seq(Nat)
      BY <3>1, SubSeqProperties
    <3>3. Len(SubSeq(w, m, n)) = n - m + 1
      BY <3>1, SubSeqProperties
    <3>4. \A i \in 1 .. n - m + 1 : SubSeq(w, m, n)[i] = w[m + i - 1]
      BY <3>1, SubSeqProperties
    <3>5. bytes = SubSeq(w, m, n)
      BY <1>7, <2>1, <2>2
    <3>6. QED  BY <3>2, <3>3, <3>4, <3>5
  <2>5. \A i \in 1 .. P : bytes[i] = N + i
    <3>1. SUFFICES ASSUME NEW i \in 1 .. P PROVE bytes[i] = N + i
      OBVIOUS
    <3>2. bytes[i] = buf.in[m + i - 1] /\ m + i - 1 = off + i
      BY <2>1, <2>2, <2>3, <2>4
    <3>3. buf.in[off + i] = N + i
      BY <1>6 DEF Holds
    <3>4. QED  BY <3>2, <3>3
  <2>6. QED  BY <2>3, <2>4, <2>5
<1> DEFINE after(r) == [strm EXCEPT !.pending_in = @ - r.in, !.pending_out = Len(r.out)]
           store(r) == [buf EXCEPT !.out = r.out, !.in_offset = Offset + r.in,
                                   !.flush_more = FALSE]
<1>9. PICK r \in Codec(bytes) :
        LET s == after(r)
            b == store(r)
            t == Drained(s)
            a == Taken(app, b, s)
            c == [call EXCEPT !.consumed = call.copied_input,
                              !.produced = @ + CopyOut(s),
                              !.inbuf_offset = IF s.pending_in = 0 THEN 0
                                               ELSE Offset + r.in,
                              !.copy_more = @ \/ s.pending_in = 0]
            bad == r.rc = "FAIL" \/ (r.rc = "BUF_ERROR" /\ r.in = 0)
        IN /\ buf' = Advanced(b, s)
           /\ IF bad
                THEN Done([c EXCEPT !.copied_input = call.copied_input_last], t, a, FALSE)
              ELSE IF (t.pending_in = 0 /\ t.in_sz = 0) \/ t.pending_out > 0
                THEN Done(c, t, a, TRUE)
              ELSE call' = [c EXCEPT !.pc = "fill"] /\ strm' = t /\ app' = a
  BY <1>3, <1>7 DEF Process
<1>10. /\ r.in \in 0 .. P /\ Run(r.out, N, r.in) /\ (r.rc = "OK" => r.in = P)
       /\ r.rc \in {"OK", "BUF_ERROR", "FAIL"}
  <2>1. /\ P \in Nat /\ bytes \in Seq(Nat) /\ Len(bytes) = P /\ N \in Nat
        /\ \A i \in 1 .. P : bytes[i] = N + i
        /\ r \in Codec(bytes)
    BY <1>8
  <2>2. Converts(r, N, P)
    BY <2>1, CodecFact
  <2>3. QED  BY <2>2 DEF Converts
<1>11. PICK j \in 0 .. P : \E T : j = r.in /\ T = r.out
  BY <1>10
<1>11a. PICK T : j = r.in /\ T = r.out
  BY <1>11
<1>12. PICK L \in Nat : /\ L = Len(T) /\ T \in Seq(Tok) /\ Run(T, N, j)
                        /\ (j > 0 => L > 0) /\ (j = 0 => L = 0)
  BY <1>10, <1>11, <1>11a DEF Run
<1>13. PICK io \in Nat, R \in Nat : io = off + j /\ R = P - j
  OBVIOUS
<1>14. /\ R \in Nat /\ R <= BufLen /\ io + R <= BufLen /\ R <= acc + ci
       /\ acc + ci - R = N + j
  BY <1>4, <1>5, <1>6, <1>13
<1>15. PICK s : s = after(r)
  OBVIOUS
<1>16. s = [strm EXCEPT !.pending_in = R, !.pending_out = L]
  BY <1>3, <1>11, <1>11a, <1>12, <1>13, <1>15
<1>17. /\ s \in StrmRec /\ s.pending_in = R /\ s.pending_out = L
       /\ s.in_sz = B /\ s.opaque
  BY <1>2, <1>3, <1>12, <1>14, <1>16 DEF StrmRec
<1>18. PICK b : b = store(r)
  OBVIOUS
<1>19. b = [buf EXCEPT !.out = T, !.in_offset = io, !.flush_more = FALSE]
  BY <1>3, <1>11, <1>11a, <1>13, <1>18
<1>20. /\ b \in BufRec /\ b.out = T /\ b.in_offset = io /\ ~b.flush_more
       /\ b.in = buf.in /\ b.out_offset = 0
  BY <1>2, <1>12, <1>19 DEF BufRec
<1>21. PICK t, e, g : t = Drained(s) /\ e = Advanced(b, s) /\ g = Taken(app, b, s)
  OBVIOUS
<1>22. Moved(app, b, s, g, e, t)
  <2>1. b.out_offset + s.pending_out <= Len(b.out)
    BY <1>11, <1>11a, <1>12, <1>17, <1>20
  <2>2. QED  BY <1>2, <1>17, <1>20, <1>21, <2>1, DrainFact
<1>23. PICK m \in Nat : m = CopyOut(s) /\ m <= L /\ t.pending_out = L - m
  BY <1>12, <1>17, <1>22 DEF Moved
<1>24. /\ t \in StrmRec /\ t.pending_in = R /\ t.in_sz = B /\ t.opaque
       /\ e \in BufRec /\ e.in = buf.in /\ e.in_offset = io /\ ~e.flush_more
       /\ e.out_offset + t.pending_out <= Len(e.out)
       /\ t.pending_out = 0 => e.out_offset = 0
       /\ g \in AppRec /\ g.accepted = acc /\ g.failed = app.failed
       /\ Out(g, e, t) = Out(app, b, s)
  BY <1>2, <1>3, <1>17, <1>20, <1>22 DEF Moved
<1>25. Chain(Out(g, e, t), N + j)
  <2>1. Chain(Out(app, buf, strm), N)
    BY <1>1, <1>4, <1>5 DEF OutInv, Out, PendingOut
  <2>2. app.got \in Seq(Tok) /\ buf.out \in Seq(Tok)
    BY <1>2, RecordFacts
  <2>3. Out(app, buf, strm) = app.got
    <3>1. SubSeq(buf.out, 0 + 1, 0 + 0) = << >>
      BY SubSeqEmpty, 0 + 0 < 0 + 1
    <3>2. Out(app, buf, strm) = app.got \o << >>
      BY <1>2, <3>1 DEF Out
    <3>3. QED  BY <2>2, <3>2, ConcatEmptySeq
  <2>4. Out(app, b, s) = app.got \o T
    <3>1. SubSeq(T, 1, Len(T)) = T
      BY <1>12, SubSeqFull
    <3>2. Out(app, b, s) = app.got \o SubSeq(T, 0 + 1, 0 + L)
      BY <1>17, <1>20 DEF Out
    <3>3. 0 + 1 = 1 /\ 0 + L = Len(T)
      BY <1>11, <1>11a, <1>12
    <3>4. QED  BY <3>1, <3>2, <3>3
  <2>5. Chain(app.got, N)
    BY <2>1, <2>3
  <2>6. Chain(app.got \o T, N + j)
    BY <1>12, <2>5, ChainGrows
  <2>7. QED  BY <1>24, <2>4, <2>6
<1>26. Holds(buf.in, io, R, N + j)
  <2> SUFFICES ASSUME NEW k \in 1 .. R PROVE buf.in[io + k] = (N + j) + k
    BY DEF Holds
  <2>1. j + k \in 1 .. P /\ io + k = off + (j + k) /\ (N + j) + k = N + (j + k)
    BY <1>13
  <2>2. buf.in[off + (j + k)] = N + (j + k)
    BY <1>6, <2>1 DEF Holds
  <2>3. QED  BY <2>1, <2>2
<1>27. PICK pr, ni \in Nat, cm \in BOOLEAN :
         /\ pr = call.produced + m /\ ni = (IF R = 0 THEN 0 ELSE io)
         /\ cm = (call.copy_more \/ R = 0)
  <2>1. call.produced + m \in Nat /\ (IF R = 0 THEN 0 ELSE io) \in Nat
    BY <1>4, <1>12, <1>23
  <2>2. (call.copy_more \/ R = 0) \in BOOLEAN
    OBVIOUS
  <2>3. QED  BY <2>1, <2>2
<1>28. PICK c : c = [call EXCEPT !.consumed = ci, !.produced = pr,
                                 !.inbuf_offset = ni, !.copy_more = cm]
  OBVIOUS
<1>29. /\ c \in CallRec /\ c.copied_input = ci /\ c.consumed = ci
       /\ c.copied_input_last = call.copied_input_last /\ c.in = acc
       /\ c.produced = pr /\ c.inbuf_offset = ni /\ c.copy_more = cm
  BY <1>2, <1>3, <1>4, <1>27, <1>28 DEF CallRec
<1>30. c = [call EXCEPT !.consumed = call.copied_input,
                        !.produced = @ + CopyOut(s),
                        !.inbuf_offset = IF s.pending_in = 0 THEN 0 ELSE Offset + r.in,
                        !.copy_more = @ \/ s.pending_in = 0]
  BY <1>3, <1>11, <1>11a, <1>13, <1>17, <1>23, <1>27, <1>28
<1> DEFINE bad == r.rc = "FAIL" \/ (r.rc = "BUF_ERROR" /\ r.in = 0)
<1>31. /\ buf' = e
       /\ IF bad
            THEN Done([c EXCEPT !.copied_input = call.copied_input_last], t, g, FALSE)
          ELSE IF (t.pending_in = 0 /\ t.in_sz = 0) \/ t.pending_out > 0
            THEN Done(c, t, g, TRUE)
          ELSE call' = [c EXCEPT !.pc = "fill"] /\ strm' = t /\ app' = g
  BY <1>9, <1>15, <1>18, <1>21, <1>30
<1> HIDE DEF after, store
<1>32. CASE bad
  <2>1. PICK d : d = [c EXCEPT !.copied_input = call.copied_input_last]
    OBVIOUS
  <2>2. d \in CallRec /\ d.copied_input = call.copied_input_last
    BY <1>4, <1>29, <2>1 DEF CallRec
  <2>3. Done(d, t, g, FALSE)
    BY <1>31, <1>32, <2>1
  <2>4. g.accepted + d.copied_input <= NumBytes /\ t.pending_in <= BufLen
    <3>1. PICK cl \in Nat : cl = call.copied_input_last
      BY <1>4
    <3>2. cl <= ci
      BY <1>2, <1>3, <3>1
    <3>3. acc + cl <= NumBytes
      BY <1>4, <3>2
    <3>4. QED  BY <1>14, <1>24, <2>2, <3>1, <3>3
  <2>5. TypeInv' /\ app'.failed = ~FALSE
    BY <1>24, <1>31, <2>2, <2>3, <2>4, DoneFact
  <2>6. QED  BY <2>5, FailStep
<1>33. CASE ~bad /\ ((t.pending_in = 0 /\ t.in_sz = 0) \/ t.pending_out > 0)
  <2>1. Done(c, t, g, TRUE)
    BY <1>31, <1>33
  <2>2. g.accepted = acc /\ c.copied_input = ci /\ t.pending_in = R
    BY <1>24, <1>29
  <2>3. /\ t.pending_in <= BufLen /\ g.accepted + c.copied_input <= NumBytes
        /\ t.pending_in <= g.accepted + c.copied_input
        /\ g.accepted + c.copied_input - t.pending_in = N + j
    BY <1>4, <1>14, <2>2
  <2>4. Chain(Out(g, buf', t), g.accepted + c.copied_input - t.pending_in)
    BY <1>25, <1>31, <2>3
  <2>5. PICK from : from = IF t.pending_out > 0 THEN buf'.in_offset ELSE 0
    OBVIOUS
  <2>6. /\ from + t.pending_in <= BufLen
        /\ Holds(buf'.in, from, t.pending_in, g.accepted + c.copied_input - t.pending_in)
    <3>1. CASE t.pending_out > 0
      <4>1. from = io
        BY <1>24, <1>31, <2>5, <3>1
      <4>2. QED  BY <1>14, <1>24, <1>26, <1>31, <2>2, <2>3, <4>1
    <3>2. CASE ~(t.pending_out > 0)
      <4>1. from = 0 /\ t.pending_in = 0
        BY <1>33, <2>5, <3>2
      <4>2. QED  BY <1>4, <4>1 DEF Holds
    <3>3. QED  BY <3>1, <3>2
  <2>7. /\ buf'.out_offset + t.pending_out <= Len(buf'.out)
        /\ t.pending_out = 0 => buf'.out_offset = 0
        /\ buf' \in BufRec /\ ~buf'.flush_more
    BY <1>24, <1>31
  <2>8. QED
    BY <1>24, <1>29, <2>1, <2>3, <2>4, <2>5, <2>6, <2>7, DoneStep
<1>34. CASE ~bad /\ ~((t.pending_in = 0 /\ t.in_sz = 0) \/ t.pending_out > 0)
  <2>1. call' = [c EXCEPT !.pc = "fill"] /\ strm' = t /\ app' = g /\ buf' = e
    BY <1>31, <1>34
  <2>2. /\ call' \in CallRec /\ call'.pc = "fill" /\ call'.copied_input = ci
        /\ call'.consumed = ci /\ call'.in = acc /\ call'.produced = pr
        /\ call'.copied_input_last = call.copied_input_last
        /\ call'.inbuf_offset = ni /\ call'.copy_more = cm
    BY <1>29, <2>1 DEF CallRec
  <2>3. t.pending_out = 0 /\ m = L
    <3>1. t.pending_out \in Nat
      BY <1>24, RecordFacts
    <3>2. t.pending_out = 0
      BY <1>34, <3>1
    <3>3. QED  BY <1>12, <1>23, <3>2
  <2>4. ni > 0 => pr > 0
    <3>1. CASE R = 0
      BY <1>27, <3>1
    <3>2. CASE R > 0
      <4>1. r.rc # "OK" /\ r.rc # "FAIL"
        BY <1>10, <1>11, <1>11a, <1>12, <1>13, <1>34, <3>2
      <4>2. j # 0
        BY <1>10, <1>11, <1>11a, <1>34, <4>1
      <4>3. QED  BY <1>4, <1>12, <1>27, <2>3, <4>2
    <3>3. QED  BY <1>14, <3>1, <3>2
  <2>5. Processed' = N + j
    BY <1>14, <1>24, <2>1, <2>2 DEF Processed
  <2>6. OutInv'
    <3>1. (app.got \o PendingOut)' = Out(g, e, t)
      BY <2>1 DEF PendingOut, Out
    <3>2. QED  BY <1>14, <1>24, <1>25, <2>1, <2>2, <2>5, <3>1 DEF OutInv
  <2>7. TypeInv'
    <3>1. /\ acc + ci <= NumBytes /\ acc + ci + B <= NumBytes
          /\ call.copied_input_last <= ci /\ R <= BufLen
      BY <1>2, <1>3, <1>4, <1>14
    <3>2. QED  BY <1>1, <1>24, <2>1, <2>2, <3>1 DEF TypeInv, Idle
  <2>8. FlowInv'
    BY <1>24, <1>27, <2>1, <2>2, <2>3, <2>4 DEF FlowInv, Idle
  <2>9. Located(call.inbuf_offset)'
    <3>1. CASE R = 0
      <4>1. strm'.pending_in = 0 /\ call'.inbuf_offset = 0 /\ 0 + 0 <= BufLen
        BY <1>4, <1>24, <1>27, <2>1, <2>2, <3>1
      <4>2. Holds(buf'.in, 0, 0, Processed')
        BY DEF Holds
      <4>3. QED  BY <4>1, <4>2 DEF Located
    <3>2. CASE R # 0
      BY <1>14, <1>24, <1>26, <1>27, <2>1, <2>2, <2>5, <3>2 DEF Located
    <3>3. QED  BY <3>1, <3>2
  <2>10. InInv'
    BY <1>24, <2>1, <2>2, <2>9 DEF InInv
  <2>11. QED  BY <2>6, <2>7, <2>8, <2>10 DEF SInv, Sound
<1>35. QED  BY <1>32, <1>33, <1>34

LEMMA SInvStep == SInv /\ InputSpared /\ [Next]_vars => SInv'
<1> SUFFICES ASSUME SInv, InputSpared, [Next]_vars PROVE SInv'
  OBVIOUS
<1>1. CASE Call  BY <1>1, CallStep
<1>2. CASE EndStream  BY <1>2, EndStreamStep
<1>3. CASE Start  BY <1>3, StartStep
<1>4. CASE Refuse  BY <1>4, RefuseStep
<1>5. CASE RefuseInit  BY <1>5, RefuseInitStep
<1>6. CASE Drain  BY <1>6, DrainStep
<1>7. CASE DrainDone  BY <1>7, DrainDoneStep
<1>8. CASE Fill  BY <1>8, FillStep
<1>9. CASE Process  BY <1>9, ProcessStep
<1>10. CASE ProcessFail  BY <1>10, ProcessFailStep
<1>11. CASE UNCHANGED vars
  BY <1>11 DEF vars, SInv, TypeInv, Idle, Sound, OutInv, FlowInv, InInv, Located,
               Processed, PendingOut, Offset
<1>12. QED
  BY <1>1, <1>2, <1>3, <1>4, <1>5, <1>6, <1>7, <1>8, <1>9, <1>10, <1>11
  DEF Next, Step

LEMMA SInvConveyed == SInv => Conveyed
<1> SUFFICES ASSUME SInv, Idle, ~app.failed, strm.opaque PROVE Conveyed
  BY DEF Conveyed
<1>1. /\ TypeInv /\ Sound /\ call = NoCall /\ app \in AppRec
      /\ strm \in StrmRec /\ buf \in BufRec
  BY DEF SInv, TypeInv
<1>2. call.copied_input = 0 /\ call.pc = "idle"
  BY <1>1 DEF NoCall
<1>3. PICK n, P \in Nat : /\ n = app.accepted - strm.pending_in
                          /\ P = strm.pending_in /\ Processed = n
  <2>1. app.accepted \in Nat /\ strm.pending_in \in Nat
    BY <1>1, RecordFacts
  <2>2. Processed = app.accepted - strm.pending_in
    BY <1>2, <2>1 DEF Processed
  <2>3. strm.pending_in <= app.accepted + 0
    BY <1>1, <1>2 DEF Sound, OutInv
  <2>4. app.accepted - strm.pending_in \in Nat
    BY <2>1, <2>3
  <2>5. QED  BY <2>1, <2>2, <2>4
<1>4. PICK o : o = app.got \o PendingOut
  OBVIOUS
<1>5. Chain(o, n)
  BY <1>1, <1>3, <1>4 DEF Sound, OutInv
<1>6. /\ Len(o) > 0 => /\ o[1][1] = 1 /\ o[1][2] = 1
                       /\ Last(o)[1] = n /\ Last(o)[2] = Last(o)[3]
      /\ Len(o) = 0 => n = 0
      /\ \A k \in 1 .. Len(o) - 1 : Follows(o[k], o[k + 1])
  BY <1>5 DEF Chain, Last
<1>7. PICK from \in Nat : from = IF strm.pending_out > 0 THEN buf.in_offset ELSE 0
  BY <1>1, RecordFacts
<1>8. from + P <= BufLen /\ Holds(buf.in, from, P, n)
  BY <1>1, <1>2, <1>3, <1>7 DEF Sound, InInv, Located
<1>9. PendingIn = [k \in 1 .. P |-> n + k]
  <2>1. PendingIn = SubSeq(buf.in, from + 1, from + P)
    BY <1>3, <1>7 DEF PendingIn
  <2>2. PICK l \in Nat, m \in Nat : l = from + 1 /\ m = from + P
    OBVIOUS
  <2>3. SubSeq(buf.in, l, m) = [k \in 1 .. m - l + 1 |-> buf.in[l + k - 1]]
    OBVIOUS
  <2>4. m - l + 1 = P
    BY <2>2
  <2>5. \A k \in 1 .. P : buf.in[l + k - 1] = n + k
    <3>1. SUFFICES ASSUME NEW k \in 1 .. P PROVE buf.in[l + k - 1] = n + k
      OBVIOUS
    <3>2. l + k - 1 = from + k
      BY <2>2
    <3>3. buf.in[from + k] = n + k
      BY <1>8 DEF Holds
    <3>4. QED  BY <3>2, <3>3
  <2>6. QED  BY <2>1, <2>2, <2>3, <2>4, <2>5
<1>10. QED  BY <1>3, <1>4, <1>6, <1>9 DEF Conveyed

-----------------------------------------------------------------------------
(* The stream API conveys the stream: what the application received, then  *)
(* the pending output, then the pending input, are at every return the     *)
(* bytes the calls reported as consumed, in order, none lost, none twice,  *)
(* for all sizes of buffer, pieces and room and all ways the codec cuts    *)
(* its input, unless a call copies input onto pending input it has just    *)
(* made room for (qatzip_stream.c 348-570, 629-785).                       *)
THEOREM StreamConveys == Spec /\ []InputSpared => []Conveyed
<1>1. Init => SInv
  BY InitSInv
<1>2. SInv /\ InputSpared /\ [Next]_vars => SInv'
  BY SInvStep
<1>3. SInv => Conveyed
  BY SInvConveyed
<1>4. QED  BY <1>1, <1>2, <1>3, PTL DEF Spec
=============================================================================
