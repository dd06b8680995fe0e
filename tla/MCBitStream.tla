---------------------------- MODULE MCBitStream ----------------------------
(* Bytes of three bits, values of two bytes, a buffer of three: every       *)
(* offset and every width, and every content of the buffer, are reached.    *)
EXTENDS BitStream
=============================================================================
