SPECIFICATION FormatSpec
CONSTANTS
    Formats = {"DEFLATE_4B", "DEFLATE_GZIP", "DEFLATE_GZIP_EXT", "DEFLATE_RAW", "DEFLATE_ZLIB", "LZ4_FH", "LZ4S_BK"}
    HwBuffSz = 1024
    Outputs <- MCOutputs
    Looks <- MCLooks
    Foreigns = {"named", "large", "blocks", "flagged", "skippable"}
    Rooms = {1, 1000, 9000}
    MaxFrames = 3
INVARIANTS FindsFrames ReadsAll BoundHolds
CHECK_DEADLOCK FALSE
