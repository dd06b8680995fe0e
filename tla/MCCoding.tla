------------------------------ MODULE MCCoding ------------------------------
(* Bytes of three bits, uint32_t of 9 bits (a varint of 1 to 5 bytes) and   *)
(* uint64_t of 15 bits (1 to 8 bytes); the values on both sides of every    *)
(* threshold of EncodeVarint32, and slices whose bytes look like varints.   *)
EXTENDS CodingStream

MCValues32 == {0, 3, 4, 15, 16, 63, 64, 255, 256, 511}
MCValues64 == {0, 4, 16383, 16384, 32767}
MCSlices == {<<>>, <<4>>, <<7, 0>>, <<0, 1, 2, 3, 4>>}
=============================================================================
