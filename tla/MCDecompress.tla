---------------------------- MODULE MCDecompress ----------------------------
(* Small instances of QzDecompress.                                        *)
EXTENDS QzDecompress

M(sz, kind) == [sz |-> sz, kind |-> kind]

\* More members than buffers, and the last one larger than the room left for
\* it; a corrupt member between two others; one that is too large for the
\* device; a source that ends inside a member; no header.
MCSources == {<<M(1, "ok"), M(1, "ok"), M(2, "ok")>>,
              <<M(1, "ok"), M(1, "bad"), M(1, "ok")>>,
              <<M(1, "ok"), M(3, "ok")>>,
              <<M(1, "ok"), M(2, "trunc")>>,
              <<M(1, "ok"), M(1, "nohdr")>>}

\* gzip_ext copied and with the source lent, zlib, lz4 with a lent destination.
MCModes == {<<"ext", {}>>, <<"ext", {"src"}>>, <<"zlib", {}>>,
            <<"lz4", {"dst"}>>}
=============================================================================
