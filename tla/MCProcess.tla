----------------------------- MODULE MCProcess -----------------------------
(***************************************************************************)
(* A small process: two instances of which one cannot do LZ4, and threads  *)
(* whose sessions want different device sessions from the same instance.   *)
(***************************************************************************)
EXTENDS QzProcess

Deflater == {"deflateComp", "deflateDecomp", "crc32", "cnv", "dynamicHuffman"}
MCCaps == [i \in Insts |-> IF i = 0 THEN Deflater \cup {"lz4Comp", "lz4Decomp", "xxhash32"}
                                    ELSE Deflater]

MCDefault == [fmt |-> "DEFLATE_GZIP_EXT", huff |-> "dynamic", lvl |-> 1,
              sw_backup |-> TRUE, wait |-> 1]

\* A thread with software backup, and one without, each in a format of its own.
MCThreads == {"a", "b"}
MCParams == [t \in MCThreads |->
  IF t = "a" THEN [MCDefault EXCEPT !.fmt = "LZ4_FH"]
             ELSE [MCDefault EXCEPT !.fmt = "DEFLATE_ZLIB", !.sw_backup = FALSE]]
=============================================================================
