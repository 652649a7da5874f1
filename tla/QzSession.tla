----------------------------- MODULE QzSession -----------------------------
(***************************************************************************)
(* Session parameters: the five public parameter structures, how each is   *)
(* checked, written into and read back from the internal one, the process- *)
(* wide default g_sess_params_internal_default, and the sessions made from *)
(* explicit parameters or, when a call finds no session, from the default. *)
(*                                                                         *)
(* The default is written and read under g_sess_params_lock, except that a *)
(* call looks at its data_fmt without the lock, first to choose the set-up *)
(* function and again when it overrides the session's format; so those are *)
(* steps of their own, and qzSetDefaultsDeflateExt, which writes data_fmt  *)
(* twice, is two steps.                                                    *)
(*                                                                         *)
(* A parameter structure is a record of the fields the code treats         *)
(* differently: hw stands for every range-checked number that all          *)
(* structures share, poll for polling_mode and is_sensitive_mode, which    *)
(* the oldest structure lacks.                                             *)
(***************************************************************************)
EXTENDS Naturals, FiniteSets

CONSTANTS
  Threads,   \* application threads, one session each
  Offers,    \* the parameters an application may pass: {[api, p]}
  MaxSets,   \* bound on the changes of the default
  MaxCalls,  \* bound on the other calls
  Null

Apis == {"old", "deflate", "ext", "lz4", "lz4s"}
Deflates == {"DEFLATE_4B", "DEFLATE_GZIP", "DEFLATE_GZIP_EXT", "DEFLATE_RAW"}

\* A parameter structure, with whatever the application may have put in it;
\* "other" and "FMT_NUM" stand for the values that mean nothing.
Formats  == Deflates \cup {"LZ4_FH", "LZ4S_BK", "DEFLATE_ZLIB", "FMT_NUM"}
ParamRec == [dir : {"compress", "decompress", "both", "other"},
             alg : {"none", "QZ_DEFLATE", "QZ_LZ4", "QZ_LZ4s", "QZ_ZSTD", "other"},
             fmt : Formats, lvl : Nat, hw : Nat, poll : Nat, zlib : Nat,
             stop : Nat, mini : Nat]

ASSUME SessionConstants ==
  /\ MaxSets \in Nat /\ MaxCalls \in Nat
  /\ Null \notin Threads
  /\ Offers \subseteq [api : Apis, p : ParamRec]

VARIABLES
  dflt,   \* g_sess_params_internal_default
  lock,   \* the holder of g_sess_params_lock
  sess,   \* sess[t]: sess->internal of thread t: its parameters and device set-up
  th,     \* th[t]: where thread t is in its call
  used,   \* used[t]: the format and the checksum of the last data produced
  sets, calls

vars == <<dflt, lock, sess, th, used, sets, calls>>

(***************************************************************************)
(* Checking.                                                               *)
(***************************************************************************)

\* In kilobytes, a power of two from QZ_HW_BUFF_MIN_SZ to QZ_HW_BUFF_MAX_SZ.
HwOK(sz) == sz \in {1, 2, 4, 8, 16, 32, 64, 128, 256, 512}

DirOK(dir) == dir \in {"compress", "decompress", "both"}

CheckParamsCommon(p) ==
  /\ DirOK(p.dir)
  /\ p.alg \in {"QZ_DEFLATE", "QZ_LZ4", "QZ_LZ4s", "QZ_ZSTD"}
  /\ HwOK(p.hw)

\* The oldest structure knows levels 1 to 9, and its format is not checked.
CheckParams(p) ==
  p.lvl \in 1 .. 9 /\ DirOK(p.dir) /\ p.alg = "QZ_DEFLATE" /\ HwOK(p.hw)

CheckParamsDeflate(p) ==
  /\ CheckParamsCommon(p) /\ p.alg = "QZ_DEFLATE"
  /\ p.lvl \in 1 .. 12
  /\ p.fmt \in Deflates

CheckParamsDeflateExt(p) ==
  /\ CheckParamsCommon(p) /\ p.alg = "QZ_DEFLATE"
  /\ p.lvl \in 1 .. 12
  /\ p.zlib = 0 => p.fmt \in Deflates

CheckParamsLZ4(p) ==
  CheckParamsCommon(p) /\ p.alg = "QZ_LZ4" /\ p.lvl \in 1 .. 12

CheckParamsLZ4S(p) ==
  /\ CheckParamsCommon(p) /\ p.alg = "QZ_LZ4s"
  /\ p.dir = "compress"
  /\ p.lvl \in 1 .. 12
  /\ p.mini \in 3 .. 4

Check(api, p) ==
  CASE api = "old"     -> CheckParams(p)
    [] api = "deflate" -> CheckParamsDeflate(p)
    [] api = "ext"     -> CheckParamsDeflateExt(p)
    [] api = "lz4"     -> CheckParamsLZ4(p)
    [] api = "lz4s"    -> CheckParamsLZ4S(p)

(***************************************************************************)
(* Writing a public structure into an internal one d.                      *)
(***************************************************************************)

\* Anything but 4B, gzip and raw is extended gzip.
FormatIn(fmt) == IF fmt \in Deflates THEN fmt ELSE "DEFLATE_GZIP_EXT"

SetParamsCommon(p, d) ==
  [d EXCEPT !.dir = p.dir, !.lvl = p.lvl, !.alg = p.alg, !.hw = p.hw, !.poll = p.poll]

SetParams(p, d) ==
  [d EXCEPT !.dir = p.dir, !.lvl = p.lvl, !.alg = p.alg, !.hw = p.hw,
            !.fmt = FormatIn(p.fmt)]

SetParamsDeflate(p, d) == [SetParamsCommon(p, d) EXCEPT !.fmt = FormatIn(p.fmt)]

\* The part of qzSetParamsDeflateExt after qzSetParamsDeflate.  Nothing ever
\* sets zlib_format back to 0.
SetParamsZlib(p, d) ==
  [d EXCEPT !.fmt = IF p.zlib = 1 THEN "DEFLATE_ZLIB" ELSE @,
            !.zlib = IF p.zlib = 1 THEN 1 ELSE @,
            !.stop = p.stop]

SetParamsLZ4(p, d) == [SetParamsCommon(p, d) EXCEPT !.fmt = "LZ4_FH"]

SetParamsLZ4S(p, d) ==
  [SetParamsCommon(p, d) EXCEPT !.fmt = "LZ4S_BK", !.mini = p.mini]

Set(api, p, d) ==
  CASE api = "old"     -> SetParams(p, d)
    [] api = "deflate" -> SetParamsDeflate(p, d)
    [] api = "ext"     -> SetParamsZlib(p, SetParamsDeflate(p, d))
    [] api = "lz4"     -> SetParamsLZ4(p, d)
    [] api = "lz4s"    -> SetParamsLZ4S(p, d)

(***************************************************************************)
(* Reading an internal structure back; a field that the public structure   *)
(* does not have stays as in Zeroed (the callers zero theirs).             *)
(***************************************************************************)

Zeroed == [dir |-> "compress", lvl |-> 0, alg |-> "none", hw |-> 0, poll |-> 0,
           fmt |-> "DEFLATE_4B", zlib |-> 0, stop |-> 0, mini |-> 0]

GetParamsCommon(d) ==
  [Zeroed EXCEPT !.dir = d.dir, !.lvl = d.lvl, !.alg = d.alg, !.hw = d.hw, !.poll = d.poll]

GetParams(d) ==
  [Zeroed EXCEPT !.dir = d.dir, !.lvl = d.lvl, !.alg = d.alg, !.hw = d.hw,
                 !.fmt = FormatIn(d.fmt)]

GetParamsDeflate(d) ==
  [GetParamsCommon(d) EXCEPT !.fmt = FormatIn(d.fmt), !.alg = "QZ_DEFLATE"]

GetParamsDeflateExt(d) ==
  [GetParamsDeflate(d) EXCEPT !.zlib = IF d.fmt = "DEFLATE_ZLIB" THEN 1 ELSE d.zlib,
                              !.stop = d.stop]

GetParamsLZ4(d) == [GetParamsCommon(d) EXCEPT !.alg = "QZ_LZ4"]

\* Not used by any specification: the direction is the default's.
GetParamsLZ4SWithoutDirection(d) ==
  [GetParamsCommon(d) EXCEPT !.alg = "QZ_LZ4s", !.mini = d.mini]

\* LZ4s only compresses, whatever the direction of the default.
GetParamsLZ4S(d) ==
  [GetParamsCommon(d) EXCEPT !.alg = "QZ_LZ4s", !.dir = "compress", !.mini = d.mini]

Get(api, d) ==
  CASE api = "old"     -> GetParams(d)
    [] api = "deflate" -> GetParamsDeflate(d)
    [] api = "ext"     -> GetParamsDeflateExt(d)
    [] api = "lz4"     -> GetParamsLZ4(d)
    [] api = "lz4s"    -> GetParamsLZ4S(d)

\* qzGetParamsDeflateExt also writes zlib_format in the structure it reads.
AfterGet(api, d) ==
  IF api = "ext" /\ d.fmt = "DEFLATE_ZLIB" THEN [d EXCEPT !.zlib = 1] ELSE d

(***************************************************************************)
(* Sessions.                                                               *)
(***************************************************************************)

\* Not used by any specification: a zlib session is given the gzip checksum.
SetupDcSessionDataWithoutAdler(d) ==
  [comp |-> CASE d.fmt = "LZ4_FH" -> "LZ4" [] d.fmt = "LZ4S_BK" -> "LZ4S" [] OTHER -> "DEFLATE",
   checksum |-> IF d.fmt \in {"LZ4_FH", "LZ4S_BK"} THEN "xxhash32" ELSE "crc32"]

\* qzSetupDcSessionData: what the device session computes.
SetupDcSessionData(d) ==
  [comp |-> CASE d.fmt = "LZ4_FH" -> "LZ4" [] d.fmt = "LZ4S_BK" -> "LZ4S" [] OTHER -> "DEFLATE",
   checksum |-> CASE d.fmt \in {"LZ4_FH", "LZ4S_BK"} -> "xxhash32"
                  [] d.fmt = "DEFLATE_ZLIB" -> "adler32"
                  [] OTHER -> "crc32"]

\* The session comes from calloc, so its parameters start as zeroes.
NewParams == [Zeroed EXCEPT !.fmt = "DEFLATE_4B"]

Opened(api, p) ==
  LET d == Set(api, p, NewParams) IN [params |-> d, setup |-> SetupDcSessionData(d)]

Idle == [pc |-> "idle", kind |-> "none", api |-> "none", p |-> Zeroed, seen |-> Zeroed,
         stat |-> "OK"]

\* The call of t returns stat.
Return(t, stat) == th' = [th EXCEPT ![t] = [Idle EXCEPT !.stat = stat]]

Free == lock = Null

Init ==
  /\ dflt = [Zeroed EXCEPT !.dir = "both", !.lvl = 1, !.alg = "QZ_DEFLATE", !.hw = 64,
                           !.fmt = "DEFLATE_GZIP_EXT", !.mini = 3]
  /\ lock = Null
  /\ sess = [t \in Threads |-> Null]
  /\ th = [t \in Threads |-> Idle]
  /\ used = [t \in Threads |-> Null]
  /\ sets = 0 /\ calls = 0

\* qzSetDefaults, qzSetDefaultsDeflate, ...LZ4 and ...LZ4S; the first half of
\* qzSetDefaultsDeflateExt, which keeps the lock.
SetDefaults(t, o) ==
  /\ th[t].pc = "idle" /\ sets < MaxSets
  /\ sets' = sets + 1
  /\ \/ /\ ~ Check(o.api, o.p)
        /\ Return(t, "PARAMS")
        /\ UNCHANGED <<dflt, lock>>
     \/ /\ Check(o.api, o.p) /\ Free /\ o.api # "ext"
        /\ dflt' = Set(o.api, o.p, dflt)
        /\ Return(t, "OK")
        /\ UNCHANGED lock
     \/ /\ Check(o.api, o.p) /\ Free /\ o.api = "ext"
        /\ dflt' = SetParamsDeflate(o.p, dflt)
        /\ lock' = t
        /\ th' = [th EXCEPT ![t] = [Idle EXCEPT !.pc = "zlib", !.p = o.p]]
  /\ UNCHANGED <<sess, used, calls>>

\* The second half of qzSetDefaultsDeflateExt.
SetDefaultsZlib(t) ==
  /\ th[t].pc = "zlib"
  /\ dflt' = SetParamsZlib(th[t].p, dflt)
  /\ lock' = Null
  /\ Return(t, "OK")
  /\ UNCHANGED <<sess, used, sets, calls>>

\* qzGetDefaults and its variants.
GetDefaults(t, api) ==
  /\ th[t].pc = "idle" /\ Free /\ calls < MaxCalls
  /\ dflt' = AfterGet(api, dflt)
  /\ calls' = calls + 1
  /\ UNCHANGED <<lock, sess, th, used, sets>>

SetupStats == {"PARAMS", "DUPLICATE", "OK", "NOSW_NO_HW"}

\* The common body of the qzSetupSession functions, on parameters p: check
\* them, refuse a second session, and make the session; qzSetupSessionInternal
\* or calloc may fail, and then there is none.
OpenSession(t, api, p, stat) ==
  /\ stat \in IF ~ Check(api, p) THEN {"PARAMS"}
             ELSE IF sess[t] # Null THEN {"DUPLICATE"} ELSE {"OK", "NOSW_NO_HW"}
  /\ sess' = IF stat = "OK" THEN [sess EXCEPT ![t] = Opened(api, p)] ELSE sess

SetupSession(t, o) ==
  /\ th[t].pc = "idle" /\ calls < MaxCalls
  /\ calls' = calls + 1
  /\ \E stat \in SetupStats : OpenSession(t, o.api, o.p, stat) /\ Return(t, stat)
  /\ UNCHANGED <<dflt, lock, used, sets>>

\* The same with NULL for the parameters.
SetupSessionDefault(t, api) ==
  /\ th[t].pc = "idle" /\ Free /\ calls < MaxCalls
  /\ calls' = calls + 1
  /\ \E stat \in SetupStats :
       OpenSession(t, api, Get(api, dflt), stat) /\ Return(t, stat)
  /\ dflt' = AfterGet(api, dflt)
  /\ UNCHANGED <<lock, used, sets>>

TeardownSession(t) ==
  /\ th[t].pc = "idle" /\ sess[t] # Null
  /\ sess' = [sess EXCEPT ![t] = Null]
  /\ used' = [used EXCEPT ![t] = Null]
  /\ UNCHANGED <<dflt, lock, th, sets, calls>>

\* Not used by any specification: a zlib default is set up as plain deflate.
ImplicitApiWithoutZlib(kind) ==
  CASE dflt.fmt = "LZ4_FH"  -> "lz4"
    [] dflt.fmt = "LZ4S_BK" -> "lz4s"
    [] OTHER -> "deflate"

\* The set-up function that a call without a session chooses, by the format of
\* the default; the asynchronous API does not know zlib.
ImplicitApi(kind) ==
  CASE dflt.fmt = "LZ4_FH"  -> "lz4"
    [] dflt.fmt = "LZ4S_BK" -> "lz4s"
    [] dflt.fmt = "DEFLATE_ZLIB" /\ kind # "async" -> "ext"
    [] OTHER -> "deflate"

\* qzCompress, qzDecompress or the asynchronous API's first call.
Call(t, kind) ==
  /\ th[t].pc = "idle" /\ calls < MaxCalls
  /\ calls' = calls + 1
  /\ th' = [th EXCEPT ![t] =
       [Idle EXCEPT !.pc = IF sess[t] = Null THEN "setup" ELSE "use", !.kind = kind,
                    !.api = ImplicitApi(kind), !.seen = dflt]]
  /\ UNCHANGED <<dflt, lock, sess, used, sets>>

\* The set-up from the default inside a call.
ImplicitSetup(t) ==
  /\ th[t].pc = "setup" /\ Free
  /\ \E stat \in SetupStats :
       /\ OpenSession(t, th[t].api, Get(th[t].api, dflt), stat)
       /\ IF stat = "OK" THEN th' = [th EXCEPT ![t].pc = "use"] ELSE Return(t, stat)
  /\ dflt' = AfterGet(th[t].api, dflt)
  /\ UNCHANGED <<lock, used, sets, calls>>

\* The formats a call may leave in a session of format fmt: a decompression
\* that sees a plain gzip header makes an extended gzip session plain.
UseFormat(t, fmt) ==
  {fmt} \cup IF th[t].kind = "decompress" /\ fmt = "DEFLATE_GZIP_EXT"
              THEN {"DEFLATE_GZIP"} ELSE {}

\* The rest of the call: a zlib default overrides the session's format, the
\* format is checked against the direction, and the data is processed.
Use(t) ==
  LET own == sess[t].params.fmt
      zlib == th[t].kind # "async" /\ dflt.fmt = "DEFLATE_ZLIB"
      fmt == IF zlib THEN "DEFLATE_ZLIB" ELSE own
      unsupported ==
        \/ th[t].kind = "decompress" /\ fmt = "LZ4S_BK"
        \/ th[t].kind = "async" /\ fmt = "DEFLATE_ZLIB"
  IN /\ th[t].pc = "use"
     /\ \/ /\ unsupported
           /\ sess' = [sess EXCEPT ![t].params.fmt = fmt]
           /\ Return(t, "UNSUPPORTED_FMT")
           /\ UNCHANGED used
        \/ /\ ~ unsupported
           /\ \E out \in UseFormat(t, fmt) :
                /\ sess' = [sess EXCEPT ![t].params.fmt = out]
                /\ used' = [used EXCEPT ![t] =
                     [fmt |-> out, checksum |-> sess[t].setup.checksum]]
           /\ Return(t, "OK")
     /\ UNCHANGED <<dflt, lock, sets, calls>>

Next ==
  \E t \in Threads :
    \/ \E o \in Offers : SetDefaults(t, o) \/ SetupSession(t, o)
    \/ \E api \in Apis : GetDefaults(t, api) \/ SetupSessionDefault(t, api)
    \/ \E kind \in {"compress", "decompress", "async"} : Call(t, kind)
    \/ SetDefaultsZlib(t) \/ ImplicitSetup(t) \/ Use(t) \/ TeardownSession(t)

Spec == Init /\ [][Next]_vars

-----------------------------------------------------------------------------

\* Whatever has been made the default, by whichever of the five functions and
\* in whatever order, a call without a session is never refused because of its
\* parameters: the set-up function that the call chose from the data_fmt it
\* read without the lock accepts the default it then reads under the lock,
\* another thread's changes in between included (qatzip.c 1899, 2476, 4025).
DefaultsUsable ==
  \A t \in Threads :
    th[t].pc = "setup" /\ Free => Check(th[t].api, Get(th[t].api, dflt))

ChecksumOf(fmt) ==
  CASE fmt \in {"LZ4_FH", "LZ4S_BK"} -> "xxhash32"
    [] fmt = "DEFLATE_ZLIB" -> "adler32"
    [] OTHER -> "crc32"

\* The checksum that a session has the device compute is the one that the
\* footer of its data format holds, even after decompression has changed the
\* format of the session.  Exception: a process whose default is zlib (from
\* then on zlib_format is 1) turns every session that compresses or
\* decompresses into a zlib one and leaves its device session as it was
\* (qatzip.c 1915, 2492).
FooterTrue ==
  \A t \in Threads :
    used[t] # Null /\ dflt.zlib = 0 => used[t].checksum = ChecksumOf(used[t].fmt)

\* A call without a session makes one in the default's format, unless the
\* default changes during the call or the API is the asynchronous one, which
\* makes an extended gzip session for a zlib default.
ImplicitFormat ==
  [][\A t \in Threads :
       (/\ th[t].pc = "setup" /\ th'[t].pc = "use"
        /\ dflt = th[t].seen
        /\ ~ (th[t].kind = "async" /\ dflt.fmt = "DEFLATE_ZLIB"))
       => sess'[t].params.fmt = dflt.fmt]_vars
=============================================================================
