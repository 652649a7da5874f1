-------------------------- MODULE QzSession_proofs --------------------------
(***************************************************************************)
(* The process-wide default parameters are usable by every call that has   *)
(* no session, the session made from them has their format, and the        *)
(* checksum the device computes is the one of the format, for all          *)
(* parameters an application may pass and any number of threads.           *)
(*                                                                         *)
(* The argument.  Every function that writes the default has checked what  *)
(* it writes, and leaves the fields it does not know as they were; the     *)
(* conversions map every format to one that the chosen set-up function     *)
(* accepts.  zlib_format is never set back to 0, so where it is still 0    *)
(* the default was never zlib and no session's format was overridden.      *)
(***************************************************************************)
EXTENDS QzSession, TLAPS

Checksums == {"xxhash32", "adler32", "crc32"}
SRec == [params : ParamRec,
         setup : [comp : {"LZ4", "LZ4S", "DEFLATE"}, checksum : Checksums]]
URec == [fmt : Formats, checksum : Checksums]
Stats == SetupStats \cup {"UNSUPPORTED_FMT"}
TRec == [pc : {"idle", "zlib", "setup", "use"},
         kind : {"none", "compress", "decompress", "async"},
         api : {"none", "deflate", "ext", "lz4", "lz4s"},
         p : ParamRec, seen : ParamRec, stat : Stats]

TypeInv == /\ dflt \in ParamRec /\ sess \in [Threads -> {Null} \cup SRec]
           /\ used \in [Threads -> {Null} \cup URec]
           /\ th \in [Threads -> TRec]

\* What every writer of the default guarantees of it.
Usable(d) == /\ DirOK(d.dir) /\ HwOK(d.hw) /\ d.lvl \in 1 .. 12
             /\ d.mini \in 3 .. 4
             /\ d.fmt \in Deflates \cup {"LZ4_FH", "LZ4S_BK", "DEFLATE_ZLIB"}
             /\ d.fmt = "DEFLATE_ZLIB" => d.zlib = 1

\* The set-up function for a default of format fmt.
ApiOf(fmt, kind) ==
  CASE fmt = "LZ4_FH"  -> "lz4"
    [] fmt = "LZ4S_BK" -> "lz4s"
    [] fmt = "DEFLATE_ZLIB" /\ kind # "async" -> "ext"
    [] OTHER -> "deflate"

CallInv ==
  \A t \in Threads :
    /\ th[t].pc = "setup" => th[t].api = ApiOf(th[t].seen.fmt, th[t].kind)
    /\ th[t].pc = "use" => sess[t] \in SRec

\* A session computes the checksum of its format.
Agrees(s) == s.setup.checksum = ChecksumOf(s.params.fmt)

SumInv ==
  dflt.zlib = 0 =>
    \A t \in Threads :
      /\ sess[t] # Null \/ th[t].pc = "use" => Agrees(sess[t])
      /\ used[t] # Null => used[t].checksum = ChecksumOf(used[t].fmt)

DInv == TypeInv /\ Usable(dflt) /\ CallInv /\ SumInv

-----------------------------------------------------------------------------
(* The conversions.                                                        *)

LEMMA FormatInFact ==
    ASSUME NEW f PROVE FormatIn(f) \in Deflates /\ FormatIn(f) \in Formats
  BY DEF FormatIn, Deflates, Formats

LEMMA ZeroedFact == Zeroed \in ParamRec /\ NewParams \in ParamRec
  BY DEF Zeroed, NewParams, ParamRec, Formats, Deflates

\* Writing a structure into an internal one.
LEMMA DeflateSet ==
    ASSUME NEW d \in ParamRec, NEW p \in ParamRec
    PROVE  LET e == SetParamsDeflate(p, d)
           IN /\ e \in ParamRec /\ e.zlib = d.zlib /\ e.fmt = FormatIn(p.fmt)
              /\ e.dir = p.dir /\ e.lvl = p.lvl /\ e.hw = p.hw /\ e.mini = d.mini
  BY FormatInFact DEF SetParamsDeflate, SetParamsCommon, ParamRec

LEMMA ZlibSet ==
    ASSUME NEW d \in ParamRec, NEW p \in ParamRec
    PROVE  LET e == SetParamsZlib(p, d)
           IN /\ e \in ParamRec
              /\ e.dir = d.dir /\ e.lvl = d.lvl /\ e.hw = d.hw /\ e.mini = d.mini
              /\ e.fmt = IF p.zlib = 1 THEN "DEFLATE_ZLIB" ELSE d.fmt
              /\ e.zlib = IF p.zlib = 1 THEN 1 ELSE d.zlib
  BY DEF SetParamsZlib, ParamRec, Formats

LEMMA OldSet ==
    ASSUME NEW d \in ParamRec, NEW p \in ParamRec
    PROVE  LET e == SetParams(p, d)
           IN /\ e \in ParamRec /\ e.zlib = d.zlib /\ e.fmt = FormatIn(p.fmt)
              /\ e.dir = p.dir /\ e.lvl = p.lvl /\ e.hw = p.hw /\ e.mini = d.mini
  BY FormatInFact DEF SetParams, ParamRec

LEMMA LZ4Set ==
    ASSUME NEW d \in ParamRec, NEW p \in ParamRec
    PROVE  LET e == SetParamsLZ4(p, d)
           IN /\ e \in ParamRec /\ e.zlib = d.zlib /\ e.fmt = "LZ4_FH"
              /\ e.dir = p.dir /\ e.lvl = p.lvl /\ e.hw = p.hw /\ e.mini = d.mini
  BY DEF SetParamsLZ4, SetParamsCommon, ParamRec, Formats

LEMMA LZ4SSet ==
    ASSUME NEW d \in ParamRec, NEW p \in ParamRec
    PROVE  LET e == SetParamsLZ4S(p, d)
           IN /\ e \in ParamRec /\ e.zlib = d.zlib /\ e.fmt = "LZ4S_BK"
              /\ e.dir = p.dir /\ e.lvl = p.lvl /\ e.hw = p.hw /\ e.mini = p.mini
  BY DEF SetParamsLZ4S, SetParamsCommon, ParamRec, Formats

\* A checked structure leaves the default usable.
LEMMA SetUsable ==
    ASSUME NEW d \in ParamRec, NEW p \in ParamRec, Usable(d),
           NEW api \in Apis, Check(api, p), api # "ext"
    PROVE  LET e == Set(api, p, d)
           IN e \in ParamRec /\ Usable(e) /\ e.zlib = d.zlib
<1> USE DEF Usable, Check, Set
<1>1. CASE api = "old"
  <2>1. p.lvl \in 1 .. 12 /\ DirOK(p.dir) /\ HwOK(p.hw)
    BY <1>1 DEF CheckParams
  <2>2. QED
    BY <1>1, <2>1, OldSet, FormatInFact DEF Deflates
<1>2. CASE api = "deflate"
  <2>1. p.lvl \in 1 .. 12 /\ DirOK(p.dir) /\ HwOK(p.hw)
    BY <1>2 DEF CheckParamsDeflate, CheckParamsCommon
  <2>2. QED
    BY <1>2, <2>1, DeflateSet, FormatInFact DEF Deflates
<1>3. CASE api = "lz4"
  <2>1. p.lvl \in 1 .. 12 /\ DirOK(p.dir) /\ HwOK(p.hw)
    BY <1>3 DEF CheckParamsLZ4, CheckParamsCommon
  <2>2. QED  BY <1>3, <2>1, LZ4Set
<1>4. CASE api = "lz4s"
  <2>1. /\ p.lvl \in 1 .. 12 /\ DirOK(p.dir) /\ HwOK(p.hw)
        /\ p.mini \in 3 .. 4
    BY <1>4 DEF CheckParamsLZ4S, CheckParamsCommon
  <2>2. QED  BY <1>4, <2>1, LZ4SSet
<1>5. QED  BY <1>1, <1>2, <1>3, <1>4 DEF Apis

\* The two halves of qzSetDefaultsDeflateExt.
LEMMA ExtUsable ==
    ASSUME NEW d \in ParamRec, NEW p \in ParamRec, Usable(d)
    PROVE  /\ Check("ext", p) => /\ SetParamsDeflate(p, d) \in ParamRec
                                 /\ Usable(SetParamsDeflate(p, d))
                                 /\ SetParamsDeflate(p, d).zlib = d.zlib
           /\ SetParamsZlib(p, d) \in ParamRec /\ Usable(SetParamsZlib(p, d))
           /\ SetParamsZlib(p, d).zlib = 0 => d.zlib = 0
<1>1. ASSUME Check("ext", p)
      PROVE  /\ SetParamsDeflate(p, d) \in ParamRec
             /\ Usable(SetParamsDeflate(p, d))
             /\ SetParamsDeflate(p, d).zlib = d.zlib
  <2>1. p.lvl \in 1 .. 12 /\ DirOK(p.dir) /\ HwOK(p.hw)
    BY <1>1 DEF Check, CheckParamsDeflateExt, CheckParamsCommon
  <2>2. QED
    BY <2>1, DeflateSet, FormatInFact DEF Usable, Deflates
<1>2. SetParamsZlib(p, d) \in ParamRec /\ Usable(SetParamsZlib(p, d))
  BY ZlibSet DEF Usable
<1>3. SetParamsZlib(p, d).zlib = 0 => d.zlib = 0
  BY ZlibSet
<1>4. QED  BY <1>1, <1>2, <1>3

\* Reading the default changes at most zlib_format, and only of a zlib one.
LEMMA AfterGetFact ==
    ASSUME NEW d \in ParamRec, Usable(d), NEW api
    PROVE  /\ AfterGet(api, d) \in ParamRec /\ Usable(AfterGet(api, d))
           /\ AfterGet(api, d).zlib = 0 => d.zlib = 0
<1>1. CASE api = "ext" /\ d.fmt = "DEFLATE_ZLIB"
  <2>1. AfterGet(api, d) = [d EXCEPT !.zlib = 1]
    BY <1>1 DEF AfterGet
  <2>2. QED  BY <2>1 DEF ParamRec, Usable
<1>2. CASE ~(api = "ext" /\ d.fmt = "DEFLATE_ZLIB")
  <2>1. AfterGet(api, d) = d
    BY <1>2 DEF AfterGet
  <2>2. QED  BY <2>1
<1>3. QED  BY <1>1, <1>2

\* Reading an internal structure back.
LEMMA CommonGet ==
    ASSUME NEW d \in ParamRec
    PROVE  LET e == GetParamsCommon(d)
           IN /\ e \in ParamRec /\ e.dir = d.dir /\ e.lvl = d.lvl /\ e.hw = d.hw
              /\ e.zlib = 0
  BY ZeroedFact DEF GetParamsCommon, ParamRec, Zeroed

LEMMA OldGet == ASSUME NEW d \in ParamRec PROVE GetParams(d) \in ParamRec
  BY ZeroedFact, FormatInFact DEF GetParams, ParamRec

LEMMA DeflateGet ==
    ASSUME NEW d \in ParamRec
    PROVE  LET e == GetParamsDeflate(d)
           IN /\ e \in ParamRec /\ e.dir = d.dir /\ e.lvl = d.lvl /\ e.hw = d.hw
              /\ e.alg = "QZ_DEFLATE" /\ e.fmt = FormatIn(d.fmt) /\ e.zlib = 0
  BY CommonGet, FormatInFact DEF GetParamsDeflate, ParamRec

LEMMA ExtGet ==
    ASSUME NEW d \in ParamRec
    PROVE  LET e == GetParamsDeflateExt(d)
           IN /\ e \in ParamRec /\ e.dir = d.dir /\ e.lvl = d.lvl /\ e.hw = d.hw
              /\ e.alg = "QZ_DEFLATE" /\ e.fmt = FormatIn(d.fmt)
              /\ d.fmt = "DEFLATE_ZLIB" => e.zlib = 1
<1> DEFINE z == IF d.fmt = "DEFLATE_ZLIB" THEN 1 ELSE d.zlib
<1>1. z \in Nat /\ (d.fmt = "DEFLATE_ZLIB" => z = 1)
  BY DEF ParamRec
<1>2. GetParamsDeflateExt(d) = [GetParamsDeflate(d) EXCEPT !.zlib = z,
                                                           !.stop = d.stop]
  BY DEF GetParamsDeflateExt
<1> HIDE DEF z
<1>3. QED  BY ZenonT(40), <1>1, <1>2, DeflateGet DEF ParamRec

LEMMA LZ4Get ==
    ASSUME NEW d \in ParamRec
    PROVE  LET e == GetParamsLZ4(d)
           IN /\ e \in ParamRec /\ e.dir = d.dir /\ e.lvl = d.lvl /\ e.hw = d.hw
              /\ e.alg = "QZ_LZ4"
  BY CommonGet DEF GetParamsLZ4, ParamRec

LEMMA LZ4SGet ==
    ASSUME NEW d \in ParamRec
    PROVE  LET e == GetParamsLZ4S(d)
           IN /\ e \in ParamRec /\ e.dir = "compress" /\ e.lvl = d.lvl
              /\ e.hw = d.hw /\ e.alg = "QZ_LZ4s" /\ e.mini = d.mini
  BY CommonGet DEF GetParamsLZ4S, ParamRec

LEMMA GetFact ==
    ASSUME NEW d \in ParamRec, NEW api \in Apis
    PROVE  Get(api, d) \in ParamRec
  BY OldGet, DeflateGet, ExtGet, LZ4Get, LZ4SGet DEF Get, Apis

\* What a usable default gives is accepted by the function it is meant for.
LEMMA GetAccepted ==
    ASSUME NEW d \in ParamRec, Usable(d),
           NEW api \in {"deflate", "ext", "lz4", "lz4s"}
    PROVE  Check(api, Get(api, d))
<1> USE DEF Usable, Check, Get, CheckParamsCommon
<1>1. CASE api = "deflate"
  BY <1>1, DeflateGet, FormatInFact DEF CheckParamsDeflate
<1>2. CASE api = "ext"
  BY <1>2, ExtGet, FormatInFact DEF CheckParamsDeflateExt
<1>3. CASE api = "lz4"
  BY <1>3, LZ4Get DEF CheckParamsLZ4
<1>4. CASE api = "lz4s"
  BY <1>4, LZ4SGet DEF CheckParamsLZ4S, DirOK
<1>5. QED  BY <1>1, <1>2, <1>3, <1>4

\* A new session is complete and computes the checksum of its format.
LEMMA OpenedFact ==
    ASSUME NEW p \in ParamRec, NEW api \in Apis
    PROVE  Opened(api, p) \in SRec /\ Agrees(Opened(api, p))
<1> DEFINE d == Set(api, p, NewParams)
<1>1. d \in ParamRec
  <2>1. CASE api = "ext"
    BY <2>1, ZeroedFact, DeflateSet, ZlibSet DEF Set
  <2>2. CASE api # "ext"
    BY <2>2, ZeroedFact, OldSet, DeflateSet, LZ4Set, LZ4SSet DEF Set, Apis
  <2>3. QED  BY <2>1, <2>2
<1>2. Opened(api, p) = [params |-> d, setup |-> SetupDcSessionData(d)]
  BY DEF Opened
<1> HIDE DEF d
<1>3. /\ SetupDcSessionData(d) \in [comp : {"LZ4", "LZ4S", "DEFLATE"},
                                     checksum : Checksums]
      /\ SetupDcSessionData(d).checksum = ChecksumOf(d.fmt)
  BY DEF SetupDcSessionData, ChecksumOf, Checksums
<1>4. QED  BY <1>1, <1>2, <1>3 DEF SRec, Agrees

\* The session made from a usable default has the format of the default.
LEMMA FormatKept ==
    ASSUME NEW d \in ParamRec, Usable(d), NEW kind,
           ~(kind = "async" /\ d.fmt = "DEFLATE_ZLIB")
    PROVE  LET api == ApiOf(d.fmt, kind)
           IN Opened(api, Get(api, d)).params.fmt = d.fmt
<1>1. CASE d.fmt = "LZ4_FH"
  BY <1>1, LZ4Get, LZ4Set, ZeroedFact DEF ApiOf, Opened, Get, Set
<1>2. CASE d.fmt = "LZ4S_BK"
  BY <1>2, LZ4SGet, LZ4SSet, ZeroedFact DEF ApiOf, Opened, Get, Set
<1>3. CASE d.fmt = "DEFLATE_ZLIB"
  <2>1. ApiOf(d.fmt, kind) = "ext"
    BY <1>3 DEF ApiOf
  <2>2. GetParamsDeflateExt(d) \in ParamRec /\ GetParamsDeflateExt(d).zlib = 1
    BY <1>3, ExtGet
  <2>3. QED
    BY <1>3, <2>1, <2>2, ZeroedFact, DeflateSet, ZlibSet DEF Opened, Get, Set
<1>4. CASE d.fmt \in Deflates
  <2>1. ApiOf(d.fmt, kind) = "deflate" /\ FormatIn(FormatIn(d.fmt)) = d.fmt
    BY <1>4 DEF ApiOf, FormatIn, Deflates
  <2>2. QED
    BY <2>1, ZeroedFact, DeflateGet, DeflateSet DEF Opened, Get, Set
<1>5. QED  BY <1>1, <1>2, <1>3, <1>4 DEF Usable

-----------------------------------------------------------------------------
(* The steps.                                                              *)

Others(t) == \A u \in Threads : u # t =>
               th'[u] = th[u] /\ sess'[u] = sess[u] /\ used'[u] = used[u]

\* What a call leaves to its own thread, the default's zlib_format being 0.
OwnSum(t) == /\ sess[t] # Null \/ th[t].pc = "use" => Agrees(sess[t])
             /\ used[t] # Null => used[t].checksum = ChecksumOf(used[t].fmt)

LEMMA ThreadStep ==
    ASSUME DInv, NEW t \in Threads, Others(t), TypeInv', Usable(dflt)',
           dflt'.zlib = 0 => dflt.zlib = 0,
           th'[t].pc = "setup" =>
             th'[t].api = ApiOf(th'[t].seen.fmt, th'[t].kind),
           th'[t].pc = "use" => sess'[t] \in SRec,
           dflt'.zlib = 0 => OwnSum(t)'
    PROVE  DInv'
<1>1. CallInv'
  BY DEF DInv, CallInv, Others
<1>2. SumInv'
  BY DEF DInv, SumInv, Others, Agrees, OwnSum
<1>3. QED  BY <1>1, <1>2 DEF DInv

LEMMA OwnSumFact ==
    ASSUME DInv, NEW t \in Threads, dflt.zlib = 0 PROVE OwnSum(t)
  BY DEF DInv, SumInv, OwnSum

LEMMA ReturnFact ==
    ASSUME TypeInv, NEW t \in Threads, NEW c \in Stats, Return(t, c)
    PROVE  /\ th' \in [Threads -> TRec] /\ th'[t].pc = "idle"
           /\ \A u \in Threads : u # t => th'[u] = th[u]
<1>1. Idle \in TRec /\ Idle.pc = "idle"
  BY ZeroedFact DEF Idle, TRec, Stats, SetupStats
<1> DEFINE r == [Idle EXCEPT !.stat = c]
<1>2. r \in TRec /\ r.pc = "idle"
  BY <1>1 DEF TRec
<1>3. th' = [th EXCEPT ![t] = r]
  BY DEF Return
<1> HIDE DEF r
<1>4. QED  BY <1>2, <1>3 DEF TypeInv

LEMMA InitDInv == Init => DInv
<1> SUFFICES ASSUME Init PROVE DInv
  OBVIOUS
<1>1. dflt \in ParamRec /\ Usable(dflt)
  <2>1. dflt = [Zeroed EXCEPT !.dir = "both", !.lvl = 1, !.alg = "QZ_DEFLATE",
                              !.hw = 64, !.fmt = "DEFLATE_GZIP_EXT", !.mini = 3]
    BY DEF Init
  <2>2. /\ dflt.dir = "both" /\ dflt.lvl = 1 /\ dflt.hw = 64
        /\ dflt.fmt = "DEFLATE_GZIP_EXT" /\ dflt.mini = 3
    BY <2>1 DEF Zeroed
  <2>3. Usable(dflt)
    BY <2>2 DEF Usable, DirOK, HwOK, Deflates
  <2>4. dflt \in ParamRec
    <3>1. /\ "both" \in {"compress", "decompress", "both", "other"}
          /\ "DEFLATE_GZIP_EXT" \in Formats
          /\ 1 \in Nat /\ 64 \in Nat /\ 3 \in Nat
      BY DEF Formats, Deflates
    <3> DEFINE one == 1
               hw == 64
               mini == 3
    <3>2. one \in Nat /\ hw \in Nat /\ mini \in Nat
      BY <3>1
    <3>3. dflt = [Zeroed EXCEPT !.dir = "both", !.lvl = one,
                    !.alg = "QZ_DEFLATE", !.hw = hw,
                    !.fmt = "DEFLATE_GZIP_EXT", !.mini = mini]
      BY <2>1
    <3> HIDE DEF one, hw, mini
    <3>4. QED  BY <3>1, <3>2, <3>3, ZeroedFact DEF ParamRec
  <2>5. QED  BY <2>3, <2>4
<1>2. Idle \in TRec /\ Idle.pc = "idle"
  BY ZeroedFact DEF Idle, TRec, Stats, SetupStats
<1>3. TypeInv
  BY <1>1, <1>2 DEF Init, TypeInv
<1>4. CallInv /\ SumInv
  BY <1>2 DEF Init, CallInv, SumInv
<1>5. QED  BY <1>1, <1>3, <1>4 DEF DInv

\* Steps of the default's setters.
LEMMA SetDefaultsStep ==
    ASSUME DInv, NEW t \in Threads, NEW o \in Offers, SetDefaults(t, o)
    PROVE  DInv'
<1>1. /\ TypeInv /\ Usable(dflt) /\ dflt \in ParamRec
      /\ th[t].pc = "idle" /\ UNCHANGED <<sess, used>>
      /\ o.api \in Apis /\ o.p \in ParamRec
      /\ {"PARAMS", "OK"} \subseteq Stats
  BY SessionConstants DEF SetDefaults, DInv, TypeInv, Stats, SetupStats
<1>2. /\ dflt' \in ParamRec /\ Usable(dflt') /\ dflt'.zlib = dflt.zlib
  BY <1>1, SetUsable, ExtUsable DEF SetDefaults
<1>3. /\ th' \in [Threads -> TRec] /\ th'[t].pc \in {"idle", "zlib"}
      /\ \A u \in Threads : u # t => th'[u] = th[u]
  <2>1. CASE \E c \in {"PARAMS", "OK"} : Return(t, c)
    BY <1>1, <2>1, ReturnFact
  <2>2. CASE th' = [th EXCEPT ![t] = [Idle EXCEPT !.pc = "zlib", !.p = o.p]]
    <3> DEFINE r == [Idle EXCEPT !.pc = "zlib", !.p = o.p]
    <3>1. r \in TRec /\ r.pc = "zlib"
      BY <1>1, ZeroedFact DEF Idle, TRec, Stats, SetupStats
    <3>2. th' = [th EXCEPT ![t] = r]
      BY <2>2
    <3> HIDE DEF r
    <3>3. QED  BY <1>1, <3>1, <3>2 DEF TypeInv
  <2>3. QED  BY <2>1, <2>2 DEF SetDefaults
<1>4. TypeInv' /\ Others(t)
  BY <1>1, <1>2, <1>3 DEF TypeInv, Others
<1>5. dflt'.zlib = 0 => OwnSum(t)'
  BY <1>1, <1>2, <1>3, OwnSumFact DEF OwnSum, Agrees
<1>6. QED  BY <1>2, <1>3, <1>4, <1>5, ThreadStep

LEMMA SetDefaultsZlibStep ==
    ASSUME DInv, NEW t \in Threads, SetDefaultsZlib(t) PROVE DInv'
<1>1. /\ TypeInv /\ Usable(dflt) /\ dflt \in ParamRec /\ th[t].p \in ParamRec
      /\ th[t].pc = "zlib" /\ UNCHANGED <<sess, used>>
      /\ dflt' = SetParamsZlib(th[t].p, dflt) /\ Return(t, "OK")
  BY DEF SetDefaultsZlib, DInv, TypeInv, TRec
<1>2. /\ dflt' \in ParamRec /\ Usable(dflt')
      /\ dflt'.zlib = 0 => dflt.zlib = 0
  BY <1>1, ExtUsable
<1>3. /\ th' \in [Threads -> TRec] /\ th'[t].pc = "idle"
      /\ \A u \in Threads : u # t => th'[u] = th[u]
  BY <1>1, ReturnFact, "OK" \in Stats DEF Stats, SetupStats
<1>4. TypeInv' /\ Others(t)
  BY <1>1, <1>2, <1>3 DEF TypeInv, Others
<1>5. dflt'.zlib = 0 => OwnSum(t)'
  BY <1>1, <1>2, <1>3, OwnSumFact DEF OwnSum, Agrees
<1>6. QED  BY <1>2, <1>3, <1>4, <1>5, ThreadStep

LEMMA GetDefaultsStep ==
    ASSUME DInv, NEW t \in Threads, NEW api \in Apis, GetDefaults(t, api)
    PROVE  DInv'
<1>1. /\ TypeInv /\ Usable(dflt) /\ dflt \in ParamRec /\ th[t].pc = "idle"
      /\ UNCHANGED <<sess, used, th>> /\ dflt' = AfterGet(api, dflt)
  BY DEF GetDefaults, DInv, TypeInv
<1>2. /\ dflt' \in ParamRec /\ Usable(dflt')
      /\ dflt'.zlib = 0 => dflt.zlib = 0
  BY <1>1, AfterGetFact
<1>3. TypeInv' /\ Others(t)
  BY <1>1, <1>2 DEF TypeInv, Others
<1>4. dflt'.zlib = 0 => OwnSum(t)'
  BY <1>1, <1>2, OwnSumFact DEF OwnSum, Agrees
<1>5. QED  BY <1>1, <1>2, <1>3, <1>4, ThreadStep

\* A session is opened or not; one that is is the only change.
LEMMA OpenFact ==
    ASSUME DInv, NEW t \in Threads, NEW api \in Apis, NEW p \in ParamRec,
           NEW stat \in SetupStats, OpenSession(t, api, p, stat)
    PROVE  /\ sess' \in [Threads -> {Null} \cup SRec]
           /\ \A u \in Threads : u # t => sess'[u] = sess[u]
           /\ stat = "OK" => sess'[t] = Opened(api, p)
           /\ stat # "OK" => sess' = sess
           /\ stat = "OK" => sess'[t] \in SRec /\ Agrees(sess'[t])
  BY OpenedFact DEF OpenSession, DInv, TypeInv

\* The explicit set-ups, from given parameters or from the default.
LEMMA SetupStep ==
    ASSUME DInv, NEW t \in Threads, NEW api \in Apis, NEW p \in ParamRec,
           th[t].pc = "idle", UNCHANGED used,
           dflt' \in ParamRec, Usable(dflt'), dflt'.zlib = 0 => dflt.zlib = 0,
           \E stat \in SetupStats :
             OpenSession(t, api, p, stat) /\ Return(t, stat)
    PROVE  DInv'
<1>1. PICK stat \in SetupStats : OpenSession(t, api, p, stat) /\ Return(t, stat)
  OBVIOUS
<1>2. TypeInv /\ stat \in Stats
  BY DEF DInv, Stats
<1>3. /\ th' \in [Threads -> TRec] /\ th'[t].pc = "idle"
      /\ \A u \in Threads : u # t => th'[u] = th[u]
  BY <1>1, <1>2, ReturnFact
<1>4. /\ sess' \in [Threads -> {Null} \cup SRec]
      /\ \A u \in Threads : u # t => sess'[u] = sess[u]
      /\ sess' = sess \/ Agrees(sess'[t])
  BY <1>1, OpenFact
<1>5. TypeInv' /\ Others(t)
  BY <1>2, <1>3, <1>4 DEF TypeInv, Others
<1>6. dflt'.zlib = 0 => OwnSum(t)'
  BY <1>3, <1>4, OwnSumFact DEF OwnSum, Agrees
<1>7. QED  BY <1>3, <1>5, <1>6, ThreadStep

LEMMA SetupSessionStep ==
    ASSUME DInv, NEW t \in Threads, NEW o \in Offers, SetupSession(t, o)
    PROVE  DInv'
<1>1. /\ o.api \in Apis /\ o.p \in ParamRec
      /\ dflt \in ParamRec /\ Usable(dflt)
  BY SessionConstants DEF DInv, TypeInv
<1>2. QED  BY <1>1, SetupStep DEF SetupSession

LEMMA SetupSessionDefaultStep ==
    ASSUME DInv, NEW t \in Threads, NEW api \in Apis,
           SetupSessionDefault(t, api)
    PROVE  DInv'
<1>1. dflt \in ParamRec /\ Usable(dflt) /\ dflt' = AfterGet(api, dflt)
  BY DEF DInv, TypeInv, SetupSessionDefault
<1>2. /\ dflt' \in ParamRec /\ Usable(dflt')
      /\ dflt'.zlib = 0 => dflt.zlib = 0
  BY <1>1, AfterGetFact
<1>3. Get(api, dflt) \in ParamRec
  BY <1>1, GetFact
<1>4. /\ th[t].pc = "idle" /\ UNCHANGED used
      /\ \E stat \in SetupStats :
           OpenSession(t, api, Get(api, dflt), stat) /\ Return(t, stat)
  BY DEF SetupSessionDefault
<1>5. QED  BY <1>2, <1>3, <1>4, SetupStep

LEMMA TeardownStep ==
    ASSUME DInv, NEW t \in Threads, TeardownSession(t) PROVE DInv'
<1>1. /\ TypeInv /\ Usable(dflt) /\ th[t].pc = "idle"
      /\ UNCHANGED <<dflt, th>>
      /\ sess' = [sess EXCEPT ![t] = Null] /\ used' = [used EXCEPT ![t] = Null]
  BY DEF TeardownSession, DInv
<1>2. TypeInv' /\ Others(t) /\ sess'[t] = Null /\ used'[t] = Null
  BY <1>1 DEF TypeInv, Others
<1>3. OwnSum(t)'
  BY <1>1, <1>2 DEF OwnSum
<1>4. QED  BY <1>1, <1>2, <1>3, ThreadStep

LEMMA CallStep ==
    ASSUME DInv, NEW t \in Threads,
           NEW kind \in {"compress", "decompress", "async"}, Call(t, kind)
    PROVE  DInv'
<1> DEFINE r == [Idle EXCEPT
                   !.pc = IF sess[t] = Null THEN "setup" ELSE "use",
                   !.kind = kind, !.api = ImplicitApi(kind), !.seen = dflt]
<1>1. /\ TypeInv /\ Usable(dflt) /\ dflt \in ParamRec
      /\ UNCHANGED <<dflt, sess, used>> /\ th' = [th EXCEPT ![t] = r]
  BY DEF Call, DInv, TypeInv
<1>2. ImplicitApi(kind) = ApiOf(dflt.fmt, kind)
  BY DEF ImplicitApi, ApiOf
<1>3. ImplicitApi(kind) \in {"deflate", "ext", "lz4", "lz4s"}
  BY DEF ImplicitApi
<1>4. /\ r \in TRec /\ r.seen = dflt /\ r.kind = kind
      /\ r.api = ApiOf(dflt.fmt, kind)
      /\ r.pc = IF sess[t] = Null THEN "setup" ELSE "use"
  BY <1>1, <1>2, <1>3, ZeroedFact DEF Idle, TRec, Stats, SetupStats
<1> HIDE DEF r
<1>5. TypeInv' /\ Others(t) /\ th'[t] = r
  BY <1>1, <1>4 DEF TypeInv, Others
<1>6. th'[t].pc = "use" => sess'[t] \in SRec /\ sess[t] # Null
  BY <1>1, <1>4, <1>5 DEF TypeInv
<1>7. dflt'.zlib = 0 => OwnSum(t)'
  BY <1>1, <1>5, <1>6, OwnSumFact DEF OwnSum, Agrees
<1>8. QED  BY <1>1, <1>4, <1>5, <1>6, <1>7, ThreadStep

\* What ImplicitSetup does to its own thread.
LEMMA ImplicitFact ==
    ASSUME DInv, NEW t \in Threads, ImplicitSetup(t)
    PROVE  /\ th[t].pc = "setup" /\ th[t].api \in Apis
           /\ th[t].api = ApiOf(th[t].seen.fmt, th[t].kind)
           /\ \E stat \in SetupStats :
                /\ OpenSession(t, th[t].api, Get(th[t].api, dflt), stat)
                /\ IF stat = "OK" THEN th' = [th EXCEPT ![t].pc = "use"]
                                  ELSE Return(t, stat)
           /\ dflt' = AfterGet(th[t].api, dflt) /\ UNCHANGED used
<1>1. th[t].pc = "setup" /\ th[t].api = ApiOf(th[t].seen.fmt, th[t].kind)
  BY DEF DInv, CallInv, ImplicitSetup
<1>2. th[t].api \in Apis
  BY <1>1 DEF ApiOf, Apis
<1>3. QED  BY <1>1, <1>2 DEF ImplicitSetup

LEMMA ImplicitSetupStep ==
    ASSUME DInv, NEW t \in Threads, ImplicitSetup(t) PROVE DInv'
<1>1. PICK stat \in SetupStats :
        /\ OpenSession(t, th[t].api, Get(th[t].api, dflt), stat)
        /\ IF stat = "OK" THEN th' = [th EXCEPT ![t].pc = "use"]
                          ELSE Return(t, stat)
  BY ImplicitFact
<1>2. /\ TypeInv /\ Usable(dflt) /\ dflt \in ParamRec /\ stat \in Stats
      /\ th[t].api \in Apis /\ dflt' = AfterGet(th[t].api, dflt)
      /\ UNCHANGED used
  BY ImplicitFact DEF DInv, TypeInv, Stats
<1>3. /\ dflt' \in ParamRec /\ Usable(dflt')
      /\ dflt'.zlib = 0 => dflt.zlib = 0
  BY <1>2, AfterGetFact
<1>4. Get(th[t].api, dflt) \in ParamRec
  BY <1>2, GetFact
<1>5. /\ sess' \in [Threads -> {Null} \cup SRec]
      /\ \A u \in Threads : u # t => sess'[u] = sess[u]
      /\ stat # "OK" => sess' = sess
      /\ stat = "OK" => sess'[t] \in SRec /\ Agrees(sess'[t])
  BY <1>1, <1>2, <1>4, OpenFact
<1>6. /\ th' \in [Threads -> TRec]
      /\ th'[t].pc = IF stat = "OK" THEN "use" ELSE "idle"
      /\ \A u \in Threads : u # t => th'[u] = th[u]
  <2>1. CASE stat = "OK"
    BY <1>1, <1>2, <2>1 DEF TypeInv, TRec
  <2>2. CASE stat # "OK"
    BY <1>1, <1>2, <2>2, ReturnFact
  <2>3. QED  BY <2>1, <2>2
<1>7. TypeInv' /\ Others(t)
  BY <1>2, <1>3, <1>5, <1>6 DEF TypeInv, Others
<1>8. dflt'.zlib = 0 => OwnSum(t)'
  <2> SUFFICES ASSUME dflt'.zlib = 0 PROVE OwnSum(t)'
    OBVIOUS
  <2>1. OwnSum(t)
    BY <1>3, OwnSumFact
  <2>2. CASE stat = "OK"
    BY <1>2, <1>5, <2>1, <2>2 DEF OwnSum, Agrees
  <2>3. CASE stat # "OK"
    BY <1>2, <1>5, <1>6, <2>1, <2>3 DEF OwnSum, Agrees
  <2>4. QED  BY <2>2, <2>3
<1>9. QED  BY <1>3, <1>5, <1>6, <1>7, <1>8, ThreadStep

\* While zlib_format is 0 a call leaves the session's checksum right: it keeps
\* the format, or makes extended gzip plain.
LEMMA UseStep ==
    ASSUME DInv, NEW t \in Threads, Use(t) PROVE DInv'
<1> DEFINE own == sess[t].params.fmt
           zlib == th[t].kind # "async" /\ dflt.fmt = "DEFLATE_ZLIB"
           fmt == IF zlib THEN "DEFLATE_ZLIB" ELSE own
           sum == sess[t].setup.checksum
<1>1. /\ TypeInv /\ Usable(dflt) /\ dflt \in ParamRec
      /\ th[t].pc = "use" /\ sess[t] \in SRec /\ UNCHANGED dflt
  BY DEF Use, DInv, TypeInv, CallInv
<1>2. \E out \in UseFormat(t, fmt) \cup {fmt} :
        /\ sess' = [sess EXCEPT ![t].params.fmt = out]
        /\ \/ used' = used
           \/ used' = [used EXCEPT ![t] = [fmt |-> out, checksum |-> sum]]
  BY DEF Use
<1>3. Return(t, "OK") \/ Return(t, "UNSUPPORTED_FMT")
  BY DEF Use
<1>4. PICK out \in UseFormat(t, fmt) \cup {fmt} :
        /\ sess' = [sess EXCEPT ![t].params.fmt = out]
        /\ \/ used' = used
           \/ used' = [used EXCEPT ![t] = [fmt |-> out, checksum |-> sum]]
  BY <1>2
<1>5. own \in Formats /\ sum \in Checksums /\ sess[t].params \in ParamRec
  BY <1>1 DEF SRec, ParamRec
<1>6. fmt \in Formats
  BY <1>5 DEF Formats
<1>7. /\ out \in Formats
      /\ dflt.zlib = 0 => ChecksumOf(out) = ChecksumOf(own)
  <2>1. out = fmt \/ (fmt = "DEFLATE_GZIP_EXT" /\ out = "DEFLATE_GZIP")
    BY <1>4 DEF UseFormat
  <2>2. out \in Formats
    BY <1>6, <2>1 DEF Formats, Deflates
  <2>3. dflt.zlib = 0 => fmt = own
    BY <1>1 DEF Usable
  <2>4. QED  BY <2>1, <2>2, <2>3 DEF ChecksumOf
<1> HIDE DEF own, fmt, zlib
<1>8. /\ sess' \in [Threads -> {Null} \cup SRec] /\ sess'[t] \in SRec
      /\ sess'[t].params.fmt = out /\ sess'[t].setup = sess[t].setup
      /\ \A u \in Threads : u # t => sess'[u] = sess[u]
  <2> DEFINE p == [sess[t].params EXCEPT !.fmt = out]
             s == [sess[t] EXCEPT !.params = p]
  <2>1. p \in ParamRec /\ p.fmt = out
    BY <1>5, <1>7 DEF ParamRec
  <2>2. sess' = [sess EXCEPT ![t] = s]
    BY <1>4
  <2> HIDE DEF p
  <2>3. s \in SRec /\ s.params = p /\ s.setup = sess[t].setup
    BY <1>1, <2>1 DEF SRec
  <2> HIDE DEF s
  <2>4. QED  BY <1>1, <2>1, <2>2, <2>3 DEF TypeInv
<1>9. /\ th' \in [Threads -> TRec] /\ th'[t].pc = "idle"
      /\ \A u \in Threads : u # t => th'[u] = th[u]
  <2>1. {"OK", "UNSUPPORTED_FMT"} \subseteq Stats
    BY DEF Stats, SetupStats
  <2>2. QED  BY <1>1, <1>3, <2>1, ReturnFact
<1>10. used' = used \/ used' = [used EXCEPT ![t] = [fmt |-> out, checksum |-> sum]]
  BY <1>4
<1> DEFINE r == [fmt |-> out, checksum |-> sum]
<1>11. r \in URec /\ r.fmt = out /\ r.checksum = sum
  BY <1>5, <1>7 DEF URec
<1>12. used' = used \/ used' = [used EXCEPT ![t] = r]
  BY <1>10
<1> HIDE DEF r
<1>13. /\ used' \in [Threads -> {Null} \cup URec]
       /\ used'[t] = used[t] \/ used'[t] = r
       /\ \A u \in Threads : u # t => used'[u] = used[u]
  BY <1>1, <1>11, <1>12 DEF TypeInv
<1>14. TypeInv' /\ Others(t)
  BY <1>1, <1>8, <1>9, <1>13 DEF TypeInv, Others
<1>15. dflt'.zlib = 0 => OwnSum(t)'
  <2> SUFFICES ASSUME dflt.zlib = 0 PROVE OwnSum(t)'
    BY <1>1
  <2>1. OwnSum(t) /\ sum = ChecksumOf(own) /\ ChecksumOf(out) = ChecksumOf(own)
    BY <1>1, <1>7, OwnSumFact DEF OwnSum, Agrees, own
  <2>2. Agrees(sess'[t])
    BY <1>8, <2>1 DEF Agrees
  <2>3. used'[t] # Null => used'[t].checksum = ChecksumOf(used'[t].fmt)
    BY <1>11, <1>13, <2>1 DEF OwnSum
  <2>4. QED  BY <2>2, <2>3 DEF OwnSum, Agrees
<1>16. QED  BY <1>1, <1>8, <1>9, <1>14, <1>15, ThreadStep

LEMMA DInvStep == DInv /\ [Next]_vars => DInv'
<1> SUFFICES ASSUME DInv, [Next]_vars PROVE DInv'
  OBVIOUS
<1>1. CASE Next
  <2>1. PICK t \in Threads :
          \/ \E o \in Offers : SetDefaults(t, o) \/ SetupSession(t, o)
          \/ \E api \in Apis : GetDefaults(t, api) \/ SetupSessionDefault(t, api)
          \/ \E kind \in {"compress", "decompress", "async"} : Call(t, kind)
          \/ SetDefaultsZlib(t) \/ ImplicitSetup(t) \/ Use(t) \/ TeardownSession(t)
    BY <1>1 DEF Next
  <2>2. QED
    BY <2>1, SetDefaultsStep, SetupSessionStep, GetDefaultsStep,
       SetupSessionDefaultStep, CallStep, SetDefaultsZlibStep,
       ImplicitSetupStep, UseStep, TeardownStep
<1>2. CASE UNCHANGED vars
  BY <1>2 DEF vars, DInv, TypeInv, CallInv, SumInv, Agrees
<1>3. QED  BY <1>1, <1>2

-----------------------------------------------------------------------------
(* The theorems.                                                           *)

\* The inductive invariant: the default is well formed and usable after every
\* write of the setters and of qzGetParamsDeflateExt (qatzip.c 3355-3660), a
\* call has chosen the set-up function from a format the default had, and
\* sessions compute the checksum of their format while zlib_format is 0.
THEOREM SessionInvariant == Spec => []DInv
  BY InitDInv, DInvStep, PTL DEF Spec

\* A call without a session is never refused because of the default, however
\* many threads change it between the unlocked look at data_fmt and the
\* locked read (qatzip.c 1899, 2476, 4025).
THEOREM DefaultsAccepted == Spec => []DefaultsUsable
<1>1. DInv => DefaultsUsable
  <2> SUFFICES ASSUME DInv, NEW t \in Threads, th[t].pc = "setup"
               PROVE  Check(th[t].api, Get(th[t].api, dflt))
    BY DEF DefaultsUsable
  <2>1. th[t].api \in {"deflate", "ext", "lz4", "lz4s"}
    BY DEF DInv, CallInv, ApiOf
  <2>2. QED  BY <2>1, GetAccepted DEF DInv, TypeInv
<1>2. QED  BY <1>1, SessionInvariant, PTL

\* The checksum a session computes on the device is the one its footer holds,
\* as long as no default was ever zlib (qatzip.c 1915, 2492).
THEOREM FooterChecksum == Spec => []FooterTrue
<1>1. DInv => FooterTrue
  BY DEF DInv, SumInv, FooterTrue
<1>2. QED  BY <1>1, SessionInvariant, PTL

\* The session that a call makes from an unchanged default has the format of
\* the default (qatzip.c 1899-1912, 2476-2489).
THEOREM ImplicitSessionFormat == Spec => ImplicitFormat
<1> DEFINE Kept ==
      \A t \in Threads :
        (/\ th[t].pc = "setup" /\ th'[t].pc = "use"
         /\ dflt = th[t].seen
         /\ ~ (th[t].kind = "async" /\ dflt.fmt = "DEFLATE_ZLIB"))
        => sess'[t].params.fmt = dflt.fmt
<1>1. DInv /\ [Next]_vars => [Kept]_vars
  <2> SUFFICES ASSUME DInv, Next, NEW t \in Threads,
                      th[t].pc = "setup", th'[t].pc = "use",
                      dflt = th[t].seen,
                      ~ (th[t].kind = "async" /\ dflt.fmt = "DEFLATE_ZLIB")
               PROVE  sess'[t].params.fmt = dflt.fmt
    OBVIOUS
  <2>1. TypeInv /\ dflt \in ParamRec /\ Usable(dflt)
    BY DEF DInv, TypeInv
  <2>2. th'[t] # th[t]
    OBVIOUS
  <2>3. ImplicitSetup(t)
    <3>1. PICK u \in Threads :
            \/ \E o \in Offers : SetDefaults(u, o) \/ SetupSession(u, o)
            \/ \E api \in Apis : GetDefaults(u, api) \/ SetupSessionDefault(u, api)
            \/ \E kind \in {"compress", "decompress", "async"} : Call(u, kind)
            \/ SetDefaultsZlib(u) \/ ImplicitSetup(u) \/ Use(u)
            \/ TeardownSession(u)
      BY DEF Next
    <3>2. CASE u # t
      BY <2>1, <2>2, <3>1, <3>2
         DEF SetDefaults, SetupSession, GetDefaults, SetupSessionDefault, Call,
             SetDefaultsZlib, ImplicitSetup, Use, TeardownSession, Return, TypeInv
    <3>3. CASE u = t
      BY <3>1, <3>3
         DEF SetDefaults, SetupSession, GetDefaults, SetupSessionDefault, Call,
             SetDefaultsZlib, Use, TeardownSession
    <3>4. QED  BY <3>2, <3>3
  <2>4. PICK stat \in SetupStats :
          /\ OpenSession(t, th[t].api, Get(th[t].api, dflt), stat)
          /\ IF stat = "OK" THEN th' = [th EXCEPT ![t].pc = "use"]
                            ELSE Return(t, stat)
    BY <2>3, ImplicitFact
  <2>5. stat = "OK"
    <3> SUFFICES ASSUME stat # "OK" PROVE FALSE
      OBVIOUS
    <3>1. Return(t, stat) /\ stat \in Stats
      BY <2>4 DEF Stats
    <3>2. QED  BY <2>1, <3>1, ReturnFact
  <2>6. th[t].api \in Apis /\ th[t].api = ApiOf(dflt.fmt, th[t].kind)
    BY <2>3, ImplicitFact
  <2>7. sess'[t] = Opened(th[t].api, Get(th[t].api, dflt))
    BY <2>1, <2>4, <2>5, <2>6, GetFact, OpenFact
  <2>8. LET api == ApiOf(dflt.fmt, th[t].kind)
        IN Opened(api, Get(api, dflt)).params.fmt = dflt.fmt
    BY <2>1, FormatKept
  <2>9. QED  BY <2>6, <2>7, <2>8
<1>2. QED  BY <1>1, SessionInvariant, PTL DEF Spec, ImplicitFormat
=============================================================================
