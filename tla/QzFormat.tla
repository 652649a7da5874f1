------------------------------ MODULE QzFormat ------------------------------
(***************************************************************************)
(* The data formats: the headers and footers compression writes around the *)
(* output of the device, and how decompression finds its way through them  *)
(* (isQATProcessable, checkHeader, findStdGzipFooter, findLZ4Footer).      *)
(*                                                                         *)
(* Memory is sparse: items maps an offset to the structure that begins     *)
(* there, everything else is compressed data.  The sizes are the real ones *)
(* in bytes.  A compressed payload may contain the four bytes that make a  *)
(* standard gzip header ("look"), which only findStdGzipFooter can mistake *)
(* for one.  The application may pass decompression any prefix of the      *)
(* stream and a destination of any size.                                   *)
(***************************************************************************)
EXTENDS Integers, Sequences, FiniteSetsExt

CONSTANTS
  Formats,    \* data formats
  HwBuffSz,   \* sess_params.hw_buff_sz
  Outputs,    \* what the device may answer: {[consumed, produced]}
  Looks,      \* where in a payload a look-alike may be (a negative one: nowhere)
  Foreigns,   \* kinds of frames other programs write, see Foreign
  Rooms,      \* destination sizes of the decompression
  MaxFrames   \* bound on the frames of the stream

\* 1024 is QZ_HW_BUFF_MIN_SZ.
ASSUME FormatConstants ==
  /\ Formats \subseteq {"DEFLATE_4B", "DEFLATE_RAW", "DEFLATE_GZIP", "DEFLATE_GZIP_EXT",
                        "DEFLATE_ZLIB", "LZ4_FH", "LZ4S_BK"}
  /\ HwBuffSz \in Nat /\ HwBuffSz >= 1024 /\ MaxFrames \in Nat
  /\ \A r \in Outputs : r.consumed \in 1 .. HwBuffSz /\ r.produced \in Nat
  /\ Looks \subseteq Int /\ Rooms \subseteq Nat
  /\ Foreigns \subseteq {"named", "large", "blocks", "flagged", "skippable"}

VARIABLES
  fmt,     \* sess_params.data_fmt
  items,   \* the structures in memory
  len,     \* bytes of output counted so far
  frames,  \* the frames written: [at, csz, usz, std, look, own]
  phase,   \* "write", "read" or "done"
  avail,   \* bytes of the stream given to decompression
  pos,     \* how far doDecompressIn is
  room,    \* dest_avail_len
  force,   \* force_sw
  out      \* the frames decompression found: [at, csz, usz]

formatVars == <<fmt, items, len, frames, phase, avail, pos, room, force, out>>

(***************************************************************************)
(* Sizes.                                                                  *)
(***************************************************************************)

DestSz(n) == (9 * n) \div 8 + 1024

\* Unsigned 32-bit difference: what wraps is larger than any size of a buffer.
Wrapped == 2 ^ 30
Minus(a, b) == IF a >= b THEN a - b ELSE Wrapped

SizeOf(s) ==
  CASE s.k \in {"std", "named"} -> 10
    [] s.k = "qz"   -> 24
    [] s.k = "foot" -> 8
    [] s.k = "b4"   -> 4
    [] s.k = "lz4"  -> 15
    [] s.k = "blk"  -> 4
    [] s.k = "end"  -> 8
    [] s.k = "zlib" -> 2
    [] s.k = "adler" -> 4
    [] OTHER -> 0

OutputHeaderSz(f) ==
  CASE f = "DEFLATE_4B"   -> 4
    [] f = "DEFLATE_RAW"  -> 0
    [] f = "DEFLATE_GZIP" -> 10
    [] f = "LZ4_FH"       -> 15
    [] f = "LZ4S_BK"      -> 4
    [] f = "DEFLATE_ZLIB" -> 2
    [] OTHER              -> 24

OutputFooterSz(f) ==
  CASE f \in {"DEFLATE_4B", "DEFLATE_RAW", "LZ4S_BK"} -> 0
    [] f = "LZ4_FH"       -> 8
    [] f = "DEFLATE_ZLIB" -> 4
    [] OTHER              -> 8

(***************************************************************************)
(* Writing.  res is the answer of the device.                              *)
(***************************************************************************)

\* QZ_LZ4_VERSION, BLK_CKS, CNT_SIZE, CNT_CKS and DICT_ID in their bits.
Lz4Flags == 1 * 64 + 0 * 16 + 1 * 8 + 1 * 4 + 0

QzGzipHeaderGen(res) == [k |-> "qz", src |-> res.consumed, dest |-> res.produced]
StdGzipHeaderGen(res) == [k |-> "std"]
Qz4BHeaderGen(res) == [k |-> "b4", sz |-> res.produced]
StdZlibHeaderGen(res) == [k |-> "zlib", cmf |-> 120, flg |-> 156]
\* Not used by any specification: the content size is what came out.
LZ4HeaderGenWithSizeSwapped(res) == [k |-> "lz4", flags |-> Lz4Flags, sz |-> res.produced]
LZ4HeaderGen(res) == [k |-> "lz4", flags |-> Lz4Flags, sz |-> res.consumed]
LZ4SBlockHeaderGen(res) == [k |-> "blk", sz |-> res.produced]
QzGzipFooterGen(res) == [k |-> "foot", sz |-> res.consumed]
LZ4FooterGen(res) == [k |-> "end"]
QzZlibFooterGen(res) == [k |-> "adler"]
Nothing == [k |-> "none"]

OutputHeaderGen(f, res) ==
  CASE f = "DEFLATE_4B"   -> Qz4BHeaderGen(res)
    [] f = "DEFLATE_RAW"  -> Nothing
    [] f = "DEFLATE_GZIP" -> StdGzipHeaderGen(res)
    [] f = "LZ4_FH"       -> LZ4HeaderGen(res)
    [] f = "LZ4S_BK"      -> LZ4SBlockHeaderGen(res)
    [] f = "DEFLATE_ZLIB" -> StdZlibHeaderGen(res)
    [] OTHER              -> QzGzipHeaderGen(res)

\* There is no case for DEFLATE_4B, whose footer has size 0.
OutputFooterGen(f, res) ==
  CASE f \in {"DEFLATE_RAW", "LZ4S_BK"} -> Nothing
    [] f = "LZ4_FH"       -> LZ4FooterGen(res)
    [] f = "DEFLATE_ZLIB" -> QzZlibFooterGen(res)
    [] OTHER              -> QzGzipFooterGen(res)

\* Memory with n bytes from o overwritten, and with structure s there.
Erase(m, o, n) ==
  [q \in {x \in DOMAIN m : x >= o + n \/ x + SizeOf(m[x]) <= o} |-> m[q]]
Put(m, o, s) ==
  LET rest == Erase(m, o, SizeOf(s))
  IN IF s.k = "none" THEN m
     ELSE [q \in DOMAIN rest \cup {o} |-> IF q = o THEN s ELSE rest[q]]

\* The payload of a frame at o.  The device writes an LZ4 frame's blocks, the
\* block header included; look is the offset of a look-alike.
Payload(m, f, o, n, look) ==
  LET e == Erase(m, o, n)
  IN CASE f = "LZ4_FH" -> Put(e, o, [k |-> "blk", sz |-> n - 4])
       [] f # "LZ4_FH" /\ look >= 0 -> Put(e, o + look, [k |-> "std"])
       [] OTHER -> e

FormatInit ==
  /\ fmt \in Formats
  /\ items = << >> /\ len = 0 /\ frames = << >>
  /\ phase = "write"
  /\ avail = 0 /\ pos = 0 /\ room = 0 /\ force = FALSE /\ out = << >>

readVars == <<phase, avail, pos, room, force, out>>

\* doCompressOut for one answer: header, data, footer.  The blocks of an LZ4
\* frame begin with the size of the first.
WriteFrame(res, look) ==
  LET body == len + OutputHeaderSz(fmt)
      foot == body + res.produced
  IN /\ phase = "write" /\ Len(frames) < MaxFrames
     /\ look + 10 <= res.produced
     /\ fmt = "LZ4_FH" => res.produced >= 4
     /\ items' = Put(Payload(Put(items, len, OutputHeaderGen(fmt, res)),
                             fmt, body, res.produced, look),
                     foot, OutputFooterGen(fmt, res))
     /\ len' = foot + OutputFooterSz(fmt)
     /\ frames' = Append(frames, [at |-> len, csz |-> res.produced, usz |-> res.consumed,
                                  std |-> fmt = "DEFLATE_GZIP", look |-> look >= 0, own |-> look < 0])
     /\ UNCHANGED <<fmt, readVars>>

\* A frame of another program: a gzip member with a file name, one larger than
\* a buffer of the device, an LZ4 frame with two blocks or with block
\* checksums, a skippable LZ4 frame.
Foreign(kind) ==
  LET lz4 == kind \in {"blocks", "flagged", "skippable"}
      hdr == IF lz4 THEN 15 ELSE 10
      n == IF kind = "large" THEN 2 * DestSz(HwBuffSz) ELSE 100
      usz == IF kind = "large" THEN 2 * HwBuffSz ELSE IF kind = "skippable" THEN 0 ELSE 50
      flags == IF kind = "flagged" THEN Lz4Flags + 16 ELSE Lz4Flags
      head == IF kind = "named" THEN [k |-> "named"]
              ELSE IF kind = "large" THEN [k |-> "std"]
              ELSE IF kind = "skippable" THEN Nothing
              ELSE [k |-> "lz4", flags |-> flags, sz |-> usz]
      foot == IF kind = "skippable" THEN Nothing
              ELSE IF lz4 THEN [k |-> "end"] ELSE [k |-> "foot", sz |-> usz]
      top == Put(Erase(items, len, hdr + n), len, head)
      body == IF kind \in {"blocks", "flagged"}
              THEN Put(Put(top, len + 15, [k |-> "blk", sz |-> 40]),
                       len + 59, [k |-> "blk", sz |-> 52])
              ELSE top
  IN /\ phase = "write" /\ Len(frames) < MaxFrames
     /\ fmt \in IF lz4 THEN {"LZ4_FH"} ELSE {"DEFLATE_GZIP", "DEFLATE_GZIP_EXT"}
     /\ items' = Put(body, len + hdr + n, foot)
     /\ len' = len + hdr + n + SizeOf(foot)
     /\ frames' = Append(frames, [at |-> len, csz |-> n, usz |-> usz,
                                  std |-> kind = "large", look |-> FALSE, own |-> FALSE])
     /\ UNCHANGED <<fmt, readVars>>

\* Not used by any specification: the plain size is the bound, but for the pad.
MaxCompressedLengthWithoutExpansion(src_sz) ==
  IF src_sz = 0 THEN 34 ELSE src_sz + 48 + OutputHeaderSz("DEFLATE_GZIP_EXT") + 8

\* qzMaxCompressedLength without a session.  chunk_cnt is never more than 1:
\* the conditional expression takes the whole sum for its condition.  A bound
\* that does not fit 32 bits is returned as 0.
MaxCompressedLength(src_sz) ==
  LET chunk_cnt == IF src_sz \div 65536 + (src_sz % 65536) # 0 THEN 1 ELSE 0
      out_sz == (9 * src_sz + 7) \div 8 + 48
                  + chunk_cnt * (OutputHeaderSz("DEFLATE_GZIP_EXT") + OutputFooterSz("DEFLATE_GZIP_EXT"))
  IN IF src_sz = 0 THEN 34 ELSE IF out_sz \div 65536 >= 65536 THEN 0 ELSE out_sz

(***************************************************************************)
(* Reading, at offset p with a bytes left.                                 *)
(***************************************************************************)

Is(p, k) == p \in DOMAIN items /\ items[p].k = k

\* The end of a standard gzip member is found by the header of the next one.
FindStdGzipFooter(p, a) ==
  LET hits == {o \in DOMAIN items : o >= p + 18 /\ o + 10 <= p + a /\ Is(o, "std")}
  IN IF hits = {} THEN p + a - 8 ELSE Min(hits) - 8

\* Not used by any specification: only the first block is looked at.
FindLZ4FooterWithoutBlocks(p, a) ==
  LET footer == p + 19 + IF Is(p + 15, "blk") THEN items[p + 15].sz ELSE 0
  IN IF a < 27 \/ footer + 8 > p + a \/ Is(footer, "blk") THEN 0 ELSE footer

\* The size of the data of the block at o, 0 for what is not a block.
BlockSz(o) == IF Is(o, "blk") THEN items[o].sz ELSE 0

\* Where the end mark is found when the first frame_sz bytes, place of the
\* footer included, have been walked over; 0 when it is not there.
LZ4Walk(p, a) ==
  LET walk[frame_sz \in 0 .. a] ==
        LET footer == p + frame_sz - 8
            next == frame_sz + BlockSz(footer) + 4
        IN IF ~ Is(footer, "blk") THEN footer
           ELSE IF next > a THEN 0 ELSE walk[next]
  IN walk

\* An LZ4 frame is walked block by block.
FindLZ4Footer(p, a) ==
  LET first == BlockSz(p + 15) + 15 + 4 + 8
  IN IF a < 27 \/ first > a THEN 0 ELSE LZ4Walk(p, a)[first]

\* qzVerifyLZ4FrameHeader.
VerifyLZ4FrameHeader(p) ==
  IF ~ Is(p, "lz4") THEN IF p \in DOMAIN items THEN "FAIL" ELSE "FORCE_SW"
  ELSE LET bit(n) == (items[p].flags \div n) % 2
       IN IF (items[p].flags \div 64) % 4 # 1 THEN "FAIL"
          ELSE IF <<bit(1), bit(16), bit(4), bit(8)>> # <<0, 0, 1, 1>> THEN "FORCE_SW"
          ELSE "OK"

\* qzVerifyZlibHeader: method, window, no dictionary, the check bits.
VerifyZlibHeader(p, a) ==
  /\ a >= 2 /\ Is(p, "zlib")
  /\ items[p].cmf % 16 = 8 /\ items[p].cmf \div 16 <= 7
  /\ (items[p].flg \div 32) % 2 = 0
  /\ (items[p].cmf * 256 + items[p].flg) % 31 = 0

\* qzGzipHeaderExt: the header at p is one QATzip wrote.
GzipHeaderExt(p) == Is(p, "qz")

\* The i_size of a footer at o; g is what is found where there is none.
ISize(o, g) == IF Is(o, "foot") THEN items[o].sz ELSE g

\* isQATDeflateProcessable for gzip: 1, 0 or -1, and whether the session
\* becomes a plain gzip one.
GzipProcessable(p, a, g) ==
  LET footer == FindStdGzipFooter(p, Min({DestSz(HwBuffSz), a}))
  IN IF Is(p, "std")
     THEN IF Minus(footer, p + 10) > DestSz(HwBuffSz) \/ ISize(footer, g) > HwBuffSz
          THEN 0 ELSE 1
     ELSE IF Is(p, "named") THEN 0 ELSE IF Is(p, "qz") THEN 1 ELSE -1

IsQATLZ4Processable(p, a) ==
  /\ a >= 15 /\ Is(p, "lz4") /\ VerifyLZ4FrameHeader(p) = "OK"
  /\ FindLZ4Footer(p, a) # 0
  /\ FindLZ4Footer(p, a) - p - 15 <= DestSz(HwBuffSz)

\* isQATProcessable at the start of a call.
IsQATProcessable(a, g) ==
  CASE fmt \in {"DEFLATE_GZIP", "DEFLATE_GZIP_EXT"} -> GzipProcessable(0, a, g) # 0
    [] fmt = "DEFLATE_4B" -> Is(0, "b4") /\ items[0].sz <= DestSz(HwBuffSz)
    [] fmt = "DEFLATE_ZLIB" -> VerifyZlibHeader(0, a)
    [] fmt = "LZ4_FH" -> IsQATLZ4Processable(0, a)
    [] fmt = "DEFLATE_RAW" -> TRUE
    [] OTHER -> FALSE

\* The compressed and the uncompressed size checkHeader works out, or its error.
FrameSizes(p, a, g) ==
  CASE fmt = "DEFLATE_GZIP" ->
         LET footer == FindStdGzipFooter(p, a)
         IN [rc |-> "OK", csz |-> Minus(footer, p + 10), usz |-> ISize(footer, g),
             last |-> footer = p + a - 8]
    [] fmt = "DEFLATE_GZIP_EXT" ->
         IF GzipHeaderExt(p) THEN [rc |-> "OK", csz |-> items[p].dest, usz |-> items[p].src, last |-> FALSE]
         ELSE [rc |-> "FAIL"]
    [] fmt = "DEFLATE_4B" ->
         [rc |-> "OK", csz |-> IF Is(p, "b4") THEN items[p].sz ELSE g,
          usz |-> Min({HwBuffSz, room}), last |-> FALSE]
    [] fmt = "LZ4_FH" ->
         LET rc == VerifyLZ4FrameHeader(p)
             footer == FindLZ4Footer(p, a)
         IN IF rc # "OK" THEN [rc |-> rc]
            ELSE IF footer = 0 THEN [rc |-> "DATA_ERROR"]
            ELSE [rc |-> "OK", csz |-> footer - p - 15, usz |-> items[p].sz, last |-> FALSE]
    [] fmt = "DEFLATE_RAW" -> [rc |-> "OK", csz |-> avail, usz |-> room, last |-> FALSE]
    [] fmt = "DEFLATE_ZLIB" ->
         [rc |-> "OK", csz |-> Minus(a, 6), usz |-> Min({HwBuffSz, room}), last |-> FALSE]
    [] OTHER -> [rc |-> "FAIL"]

\* checkHeader.
CheckHeader(p, a, g) ==
  IF a <= 0 \/ room <= 0 THEN [rc |-> "BUF_ERROR"]
  ELSE IF a < OutputHeaderSz(fmt) THEN [rc |-> "DATA_ERROR"]
  ELSE IF force THEN [rc |-> "FORCE_SW"]
  ELSE LET s == FrameSizes(p, a, g)
       IN IF s.rc # "OK" THEN s
          ELSE IF s.csz > DestSz(HwBuffSz) \/ s.usz > HwBuffSz
               THEN [rc |-> "FORCE_SW", last |-> s.last]
          ELSE IF s.csz + OutputHeaderSz(fmt) + OutputFooterSz(fmt) > a
               THEN [rc |-> "DATA_ERROR"]
          ELSE IF s.usz > room THEN [rc |-> "BUF_ERROR"] ELSE s

Garbage == {0, HwBuffSz + 1}

\* Where an application may cut the stream: anywhere that matters.
Cuts ==
  {c \in {len} \cup {f + d : f \in {frames[i].at : i \in DOMAIN frames} \cup {len},
                             d \in {-9, -1, 1, 5, 12, 20, 27}} : c \in 1 .. len}

\* qzDecompress: the device is tried, or the call is left to the software.
Deliver(a, r) ==
  /\ phase = "write" /\ frames # << >>
  /\ avail' = a /\ room' = r
  /\ \E g \in Garbage :
       IF IsQATProcessable(a, g)
       THEN /\ phase' = "read"
            /\ fmt' = IF fmt = "DEFLATE_GZIP_EXT" /\ Is(0, "std") THEN "DEFLATE_GZIP" ELSE fmt
       ELSE phase' = "done" /\ UNCHANGED fmt
  /\ UNCHANGED <<items, len, frames, pos, force, out>>

\* The frame that begins at p is whole and its plain text fits: what software
\* decompression (zlib, lz4) needs to get past it.
SwCan(i) ==
  /\ frames[i].at = pos /\ frames[i].usz <= room
  /\ IF i = Len(frames) THEN avail = len ELSE frames[i + 1].at <= avail

\* doDecompressIn at the next header: the device takes the frame, the software
\* does, or the call ends.
ReadFrame ==
  /\ phase = "read" /\ pos < avail
  /\ \E g \in Garbage :
       LET s == CheckHeader(pos, avail - pos, g)
       IN \/ /\ s.rc = "OK"
             /\ out' = Append(out, [at |-> pos, csz |-> s.csz, usz |-> s.usz])
             /\ pos' = pos + OutputHeaderSz(fmt) + s.csz + OutputFooterSz(fmt)
             /\ room' = room - s.usz
             /\ UNCHANGED <<phase, force>>
          \/ /\ s.rc = "FORCE_SW"
             /\ force' = (force \/ ("last" \in DOMAIN s /\ ~ (fmt = "DEFLATE_GZIP" /\ s.last)))
             /\ \/ \E i \in DOMAIN frames :
                     /\ SwCan(i)
                     /\ out' = Append(out, [at |-> pos, csz |-> frames[i].csz, usz |-> frames[i].usz])
                     /\ pos' = IF i = Len(frames) THEN len ELSE frames[i + 1].at
                     /\ room' = room - frames[i].usz
                     /\ UNCHANGED phase
                \/ /\ ~ \E i \in DOMAIN frames : SwCan(i)
                   /\ phase' = "done"
                   /\ UNCHANGED <<out, pos, room>>
          \/ /\ s.rc \notin {"OK", "FORCE_SW"}
             /\ phase' = "done"
             /\ UNCHANGED <<out, pos, room, force>>
  /\ UNCHANGED <<fmt, items, len, frames, avail>>

EndOfSource ==
  /\ phase = "read" /\ pos >= avail
  /\ phase' = "done"
  /\ UNCHANGED <<fmt, items, len, frames, avail, pos, room, force, out>>

FormatNext ==
  \/ \E res \in Outputs, look \in Looks : WriteFrame(res, look)
  \/ \E kind \in Foreigns : Foreign(kind)
  \/ \E a \in Cuts, r \in Rooms : Deliver(a, r)
  \/ ReadFrame
  \/ EndOfSource

FormatSpec == FormatInit /\ [][FormatNext]_formatVars

-----------------------------------------------------------------------------

\* What checkHeader accepts lies inside the bytes that are left of the source
\* and its plain text inside the room that is left, in every format, on every
\* truncated or foreign stream, with whatever bytes are taken for a footer; and
\* decompression takes for a frame only what is one, with its sizes and in
\* order.  In the formats whose frames tell their length that holds on every
\* stream, truncated and foreign ones included; a plain gzip stream must have
\* standard headers throughout, no look-alike, and not be truncated.  zlib and
\* raw streams are taken to be one member, and a 4B frame does not tell the
\* size of its plain text.
FindsFrames ==
  LET exact(i) ==
        /\ i \in DOMAIN frames
        /\ out[i].at = frames[i].at /\ out[i].csz = frames[i].csz
        /\ fmt # "DEFLATE_4B" => out[i].usz = frames[i].usz
      regular == avail = len /\ \A i \in DOMAIN frames : frames[i].std /\ ~ frames[i].look
  IN /\ phase # "write" => pos <= avail
     /\ room >= 0
     /\ fmt \in {"DEFLATE_GZIP_EXT", "LZ4_FH", "DEFLATE_4B"} \/ (fmt = "DEFLATE_GZIP" /\ regular)
          => \A i \in DOMAIN out : exact(i)

\* And it finds them all: a stream delivered whole, with room for its plain
\* text, is read to its end, by the device or by the software, if QATzip wrote
\* it in the session's format; an LZ4 stream whoever wrote it.  (A call that
\* begins at a foreign frame may be left to the software altogether.)
ReadsAll ==
  (/\ phase = "done" /\ avail = len /\ room >= 2 * HwBuffSz
   /\ \/ fmt = "LZ4_FH"
      \/ /\ fmt \in {"DEFLATE_GZIP_EXT", "DEFLATE_GZIP", "DEFLATE_4B"}
         /\ \A i \in DOMAIN frames : frames[i].own)
  => Len(out) = Len(frames) \/ (out = << >> /\ ~ frames[1].own)

\* The plain text of the frames fs.
SourceSz(fs) ==
  LET sum[i \in 0 .. Len(fs)] == IF i = 0 THEN 0 ELSE sum[i - 1] + fs[i].usz
  IN sum[Len(fs)]

\* qzMaxCompressedLength without a session is enough for what QATzip writes
\* when every chunk but the last fills the buffer and the device expands a
\* chunk by no more than a stored block's header, although the headers and
\* footers of one chunk only are counted; unless there is no bound of 32 bits.
BoundHolds ==
  (/\ phase = "write" /\ \A i \in DOMAIN frames : frames[i].own
   /\ \A i \in 1 .. Len(frames) - 1 : frames[i].usz = HwBuffSz)
  => LET bound == MaxCompressedLength(SourceSz(frames))
     IN len <= bound \/ bound = 0
=============================================================================
