----------------------------- MODULE MCSession -----------------------------
(***************************************************************************)
(* Two threads and parameters at the edges of what the checks accept: the  *)
(* level that only the newer structures know, a format that does not       *)
(* exist, a direction LZ4s does not have, a buffer size that is no power   *)
(* of two.                                                                 *)
(***************************************************************************)
EXTENDS QzSession, TLC

Base == [Zeroed EXCEPT !.dir = "both", !.lvl = 1, !.alg = "QZ_DEFLATE", !.hw = 64]
Offer(api, p) == [api |-> api, p |-> p]

Symmetry == Permutations(Threads)

MCOffers ==
  { Offer("old", [Base EXCEPT !.fmt = "DEFLATE_RAW", !.lvl = 9]),
    Offer("old", [Base EXCEPT !.fmt = "FMT_NUM"]),
    Offer("deflate", [Base EXCEPT !.fmt = "DEFLATE_RAW", !.lvl = 12, !.poll = 1]),
    Offer("deflate", [Base EXCEPT !.hw = 48]),
    Offer("ext", [Base EXCEPT !.fmt = "DEFLATE_GZIP", !.stop = 1]),
    Offer("ext", [Base EXCEPT !.fmt = "FMT_NUM", !.zlib = 1]),
    Offer("lz4", [Base EXCEPT !.alg = "QZ_LZ4", !.lvl = 12, !.hw = 512]),
    Offer("lz4s", [Base EXCEPT !.alg = "QZ_LZ4s", !.dir = "compress", !.mini = 4]),
    Offer("lz4s", [Base EXCEPT !.alg = "QZ_LZ4s", !.dir = "both", !.mini = 3]) }
=============================================================================
