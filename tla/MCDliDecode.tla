---------------------------- MODULE MCDliDecode -----------------------------
(* DliDecode with four columns and every pixel pattern over the bytes that *)
(* may be taken for a header.                                              *)
EXTENDS DliDecode

CONSTANTS FirstSeqs      \* the number of the first line

MCDescramble == [k \in 0 .. 3 |-> <<1, 2, 0, 3>>[k + 1]]
MCPixels == [0 .. 3 -> {0, 1, 254}]

(* Three lines with consecutive numbers, from the s-th on.  From 6 on the  *)
(* number of the third is 8, which a decoder that is out of step takes for *)
(* the depth of a line made of pixels; from 255 on the high byte changes.  *)
Swipe(s, p, q, r) ==
  <<[seq |-> s, mark |-> 254, scale |-> 200, px |-> p],
    [seq |-> s + 1, mark |-> 1, scale |-> 216, px |-> q],
    [seq |-> s + 2, mark |-> 254, scale |-> 136, px |-> r]>>

MCSwipes ==
  {Swipe(s, p, q, r) : s \in FirstSeqs, p \in {[k \in 0 .. 3 |-> c] : c \in {0, 254}},
                       q \in MCPixels, r \in MCPixels}
=============================================================================
