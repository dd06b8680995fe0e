------------------------------- MODULE MCSlice -------------------------------
(* Bytes of two bits, storage of up to 9 bytes: the empty string, strings   *)
(* with zero bytes inside, with equal and with nearly equal parts, two      *)
(* whole words with a tail.                                                 *)
EXTENDS Hash, TLC

MCTexts == {<<>>, <<0, 3, 0, 3>>, <<1, 2, 1, 2, 3, 0>>, <<2, 2, 2, 2>>,
            <<3, 0, 2, 1, 3, 0, 2, 2, 3>>}
Symmetric == Permutations(Slices)
==============================================================================
