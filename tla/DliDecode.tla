----------------------------- MODULE DliDecode ------------------------------
(***************************************************************************)
(* driver/vfs495.c: vfs495_process_capture, which finds the scan lines in  *)
(* the bytes that arrived from the sensor's data endpoint, and             *)
(* vfs495_decode_line, which puts the pixels of one into their columns.    *)
(*                                                                         *)
(* The driver around them is a scaffold (its capture state is a TODO), so  *)
(* this is the algorithm on its own: one call, one step per iteration of   *)
(* its loop, over the bytes the sensor sends for the lines in Swipes.      *)
(***************************************************************************)
EXTENDS Integers, Sequences

CONSTANTS
  LineWidth,     \* VFS495_LINE_WIDTH
  ImageWidth,    \* VFS495_IMAGE_WIDTH
  Descramble,    \* vfs495_descramble
  Swipes,        \* the sequences of lines the sensor may send
  Cuts,          \* how many bytes at the end may not have arrived
  Junk           \* what the stack holds before the first write

Columns == 0 .. LineWidth - 1
Byte == 0 .. 255
Word == 0 .. 65535

ASSUME GeometryAssumption ==
  /\ LineWidth \in Nat \ {0} /\ ImageWidth \in 0 .. LineWidth
  /\ Descramble \in [Columns -> Columns]

(* seq: the line's number; mark and scale: bytes 1 and 6 of its header.    *)
Line == [seq : Word, mark : {1, 254}, scale : Byte, px : [Columns -> Byte]]

ASSUME InputAssumption == Swipes \subseteq Seq(Line) /\ Cuts \subseteq Nat

VARIABLES
  lines,    \* what the sensor sent
  len,      \* capture_len
  i,        \* offset of the next byte to look at
  dec,      \* the decoded line, on the stack
  rows      \* the kept lines, newest first: image and (for the properties) offset

vars == <<lines, len, i, dec, rows>>

VFS495_LINE_HDR == 8
LineLength == VFS495_LINE_HDR + LineWidth

(* [01][01 or fe][seq, 16 bits, little endian][..][..][scale][00]          *)
Header(l) == <<1, l.mark, l.seq % 256, l.seq \div 256, 0, 0, l.scale, 0>>

(* The byte at offset o of the stream.                                     *)
b(o) ==
  LET l == lines[o \div LineLength + 1]
      at == o % LineLength
  IN IF at < VFS495_LINE_HDR THEN Header(l)[at + 1] ELSE l.px[at - VFS495_LINE_HDR]

Init ==
  /\ lines \in Swipes
  /\ \E cut \in Cuts : len = LineLength * Len(lines) - cut /\ len >= 0
  /\ i = 0 /\ rows = <<>>
  /\ dec = [x \in Columns |-> Junk]

-----------------------------------------------------------------------------
(* What the properties must notice if it went missing.                     *)

FaultyMarked == b(i) = 1 /\ b(i + 1) = 1 /\ b(i + 3) = 0 /\ b(i + 7) = 0
Marked == b(i) = 1 /\ b(i + 1) \in {1, 254} /\ b(i + 3) = 0 /\ b(i + 7) = 0

FaultyLineEnd == i + LineWidth                     \* header not skipped
LineEnd == i + VFS495_LINE_HDR + LineWidth

Payload == [k \in Columns |-> b(i + VFS495_LINE_HDR + k)]

FaultyScatter == [x \in Columns |-> Payload[Descramble[x]]]     \* gathered
Scatter ==                                         \* the last pixel written wins
  [x \in Columns |->
     LET from == {k \in Columns : Descramble[k] = x}
     IN IF from = {} THEN dec[x] ELSE Payload[CHOOSE k \in from : \A j \in from : j <= k]]

-----------------------------------------------------------------------------
More == i + LineLength <= len

(* vfs495_decode_line succeeds: long enough (it is, here) and 8 bits a     *)
(* pixel.                                                                  *)
Decodes == len - i >= LineLength /\ b(i + 6) % 16 = 8

Keep ==
  /\ More /\ Marked /\ Decodes
  /\ dec' = Scatter
  /\ rows' = <<[at |-> i, image |-> [x \in 0 .. ImageWidth - 1 |-> dec'[x]]]>> \o rows
  /\ i' = LineEnd
  /\ UNCHANGED <<lines, len>>

Skip ==
  /\ More /\ ~(Marked /\ Decodes)
  /\ i' = i + 1
  /\ UNCHANGED <<lines, len, dec, rows>>

Next == Keep \/ Skip

Spec == Init /\ [][Next]_vars

-----------------------------------------------------------------------------
lines_recorded == Len(rows)

(* No byte belongs to two rows, and every row was in the buffer to its     *)
(* last byte, whatever the pixels look like and wherever the stream ends.  *)
LinesApart ==
  /\ \A n \in 1 .. Len(rows) : rows[n].at + LineLength <= len
  /\ \A m, n \in 1 .. Len(rows) : m < n => rows[n].at + LineLength <= rows[m].at

(* A row is its line: each pixel that belongs in the main image is there,  *)
(* and nothing is left over from an earlier line or from the stack.        *)
ImageIsLine ==
  \A n \in 1 .. Len(rows) :
    /\ \A k \in Columns :
         Descramble[k] < ImageWidth =>
           rows[n].image[Descramble[k]] = b(rows[n].at + VFS495_LINE_HDR + k)
    /\ \A x \in 0 .. ImageWidth - 1 : \E k \in Columns :
         rows[n].image[x] = b(rows[n].at + VFS495_LINE_HDR + k)

Arrived == len \div LineLength
Acceptable(l) == l.seq < 256 /\ l.scale % 16 = 8

(* The lines up to the first one the decoder does not accept are the       *)
(* oldest rows, all of them and in order, even if their pixels look like   *)
(* headers.                                                                *)
LeadingKept ==
  \A n \in 1 .. Arrived :
    (\A m \in 1 .. n : Acceptable(lines[m])) =>
      /\ n <= lines_recorded => rows[lines_recorded + 1 - n].at = LineLength * (n - 1)
      /\ ~More => n <= lines_recorded
=============================================================================
