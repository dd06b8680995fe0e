--------------------------- MODULE MCWritableFile ---------------------------
(* Block sizes that divide no common boundary, writes shorter and longer    *)
(* than a block.                                                            *)
EXTENDS WritableFile
=============================================================================
