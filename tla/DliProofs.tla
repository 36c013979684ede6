----------------------------- MODULE DliProofs ------------------------------
(* Theorems about the line decoder, for every width, table and stream, and *)
(* about the table the driver is built with.                               *)
EXTENDS DliDecode, VFS495Descramble, SequenceTheorems, TLAPS

(* Every column of the decoded line is written once, and none beyond it:   *)
(* the table is a permutation of 0 .. 263 that mirrors the main image and  *)
(* keeps the auxiliary pixels out of it.                                   *)
THEOREM TableIsPermutation ==
  /\ vfs495_descramble \in [0 .. 263 -> 0 .. 263]
  /\ \A j, k \in 0 .. 263 : vfs495_descramble[j] = vfs495_descramble[k] => j = k
  /\ \A x \in 0 .. 263 : \E k \in 0 .. 263 : vfs495_descramble[k] = x
  /\ \A k \in 0 .. 263 : vfs495_descramble[k] < VFS495_IMAGE_WIDTH <=> k < VFS495_IMAGE_WIDTH
<1> USE DEF vfs495_descramble, VFS495_LINE_WIDTH, VFS495_IMAGE_WIDTH
<1>1. vfs495_descramble \in [0 .. 263 -> 0 .. 263]
  OBVIOUS
<1>2. \A j, k \in 0 .. 263 : vfs495_descramble[j] = vfs495_descramble[k] => j = k
  OBVIOUS
<1>3. ASSUME NEW x \in 0 .. 263
      PROVE  \E k \in 0 .. 263 : vfs495_descramble[k] = x
  <2>1. CASE x < 200
    <3>1. PICK k \in 0 .. 263 : k = 199 - x
      BY <2>1
    <3>2. vfs495_descramble[k] = x
      BY <2>1, <3>1
    <3> QED
      BY <3>2
  <2>2. CASE x > 199 /\ x < 221
    <3>1. PICK k \in 0 .. 263 : k = 463 - x
      BY <2>2
    <3>2. vfs495_descramble[k] = x
      BY <2>2, <3>1
    <3> QED
      BY <3>2
  <2>3. CASE x > 220 /\ x < 263
    <3>1. PICK k \in 0 .. 263 : k = 462 - x
      BY <2>3
    <3>2. vfs495_descramble[k] = x
      BY <2>3, <3>1
    <3> QED
      BY <3>2
  <2>4. CASE x = 263
    <3>1. PICK k \in 0 .. 263 : k = 242
      BY <2>4
    <3>2. vfs495_descramble[k] = x
      BY <2>4, <3>1
    <3> QED
      BY <3>2
  <2> HIDE DEF vfs495_descramble
  <2> QED
    BY <2>1, <2>2, <2>3, <2>4
<1>4. \A k \in 0 .. 263 : vfs495_descramble[k] < VFS495_IMAGE_WIDTH <=> k < VFS495_IMAGE_WIDTH
  OBVIOUS
<1> HIDE DEF vfs495_descramble, VFS495_LINE_WIDTH, VFS495_IMAGE_WIDTH
<1> QED
  BY <1>1, <1>2, <1>3, <1>4

-----------------------------------------------------------------------------
USE GeometryAssumption DEF GeometryAssumption, VFS495_LINE_HDR, LineLength

IsSeq(s) == s \in Seq({s[n] : n \in 1 .. Len(s)})

(* A new row comes before the others, which it leaves as they are.         *)
LEMMA Prepended ==
  ASSUME NEW r, NEW s, IsSeq(s)
  PROVE  /\ IsSeq(<<r>> \o s)
         /\ Len(s) \in Nat /\ Len(<<r>> \o s) = Len(s) + 1
         /\ (<<r>> \o s)[1] = r
         /\ \A n \in 2 .. Len(s) + 1 : (<<r>> \o s)[n] = s[n - 1]
<1> DEFINE S == {s[n] : n \in 1 .. Len(s)} \cup {r}
           all == <<r>> \o s
<1>1. s \in Seq(S) /\ <<r>> \in Seq(S) /\ Len(<<r>>) = 1 /\ <<r>>[1] = r
  BY SeqMonotonic DEF IsSeq
<1>2. Len(s) \in Nat
  BY <1>1, LenProperties
<1> HIDE DEF S
<1>3. /\ all \in Seq(S) /\ Len(all) = Len(s) + 1 /\ all[1] = r
      /\ \A n \in 2 .. Len(s) + 1 : all[n] = s[n - 1]
  BY <1>1, <1>2, ConcatProperties
<1>4. IsSeq(all)
  <2> DEFINE T == {all[n] : n \in 1 .. Len(all)}
  <2>1. all \in [1 .. Len(all) -> T] /\ Len(all) \in Nat
    BY <1>2, <1>3, LenProperties
  <2> HIDE DEF T, all
  <2>2. all \in Seq(T)
    BY <2>1, SeqDef
  <2> QED
    BY <2>2 DEF IsSeq, T, all
<1> QED
  BY <1>2, <1>3, <1>4

-----------------------------------------------------------------------------
(* What the loop knows: the rows are lines of the part it has left behind. *)
LoopInv ==
  /\ len \in Nat /\ i \in Nat
  /\ IsSeq(rows)
  /\ \A n \in 1 .. Len(rows) : rows[n].at \in Nat /\ rows[n].at + LineLength <= i
  /\ LinesApart

LEMMA Looping == Spec => []LoopInv
<1>1. Init => LoopInv
  <2> SUFFICES ASSUME Init PROVE LoopInv
    OBVIOUS
  <2>1. PICK cut \in Cuts : len = LineLength * Len(lines) - cut /\ len >= 0
    BY DEF Init
  <2>2. Len(lines) \in Nat /\ cut \in Nat
    BY InputAssumption, LenProperties DEF Init
  <2>3. LineLength * Len(lines) \in Int
    BY <2>2
  <2>4. len \in Nat
    BY <2>1, <2>2, <2>3
  <2>5. rows = <<>> /\ Len(rows) = 0 /\ rows \in Seq({rows[n] : n \in 1 .. Len(rows)})
    BY EmptySeq DEF Init
  <2> QED
    BY <2>4, <2>5 DEF Init, LoopInv, LinesApart, IsSeq
<1>2. LoopInv /\ [Next]_vars => LoopInv'
  <2> SUFFICES ASSUME LoopInv, [Next]_vars PROVE LoopInv'
    OBVIOUS
  <2>1. CASE Keep
    <3> DEFINE r == [at |-> i, image |-> [x \in 0 .. ImageWidth - 1 |-> dec'[x]]]
    <3>0. i' = i + LineLength /\ len' = len /\ i + LineLength <= len
      BY <2>1 DEF Keep, LineEnd, More, LoopInv
    <3>1. rows' = <<r>> \o rows
      BY <2>1 DEF Keep
    <3>2. r.at = i
      OBVIOUS
    <3> HIDE DEF r
    <3>3. /\ IsSeq(rows') /\ Len(rows) \in Nat /\ Len(rows') = Len(rows) + 1
          /\ rows'[1] = r /\ \A n \in 2 .. Len(rows) + 1 : rows'[n] = rows[n - 1]
      BY <3>1, Prepended DEF LoopInv
    <3>4. i' \in Nat /\ len' \in Nat
      BY <3>0 DEF LoopInv
    <3>5. ASSUME NEW n \in 1 .. Len(rows')
          PROVE  /\ rows'[n].at \in Nat /\ rows'[n].at + LineLength <= i'
                 /\ rows'[n].at + LineLength <= len'
                 /\ n > 1 => rows'[n].at + LineLength <= i
      <4>1. CASE n = 1
        BY <4>1, <3>0, <3>2, <3>3 DEF LoopInv
      <4>2. CASE n > 1
        <5>1. n - 1 \in 1 .. Len(rows) /\ rows'[n] = rows[n - 1]
          BY <4>2, <3>3
        <5> QED
          BY <5>1, <4>2, <3>0 DEF LoopInv, LinesApart
      <4> QED
        BY <4>1, <4>2
    <3>6. ASSUME NEW m \in 1 .. Len(rows'), NEW n \in 1 .. Len(rows'), m < n
          PROVE  rows'[n].at + LineLength <= rows'[m].at
      <4>1. CASE m = 1
        BY <4>1, <3>2, <3>3, <3>5, <3>6
      <4>2. CASE m > 1
        <5>1. /\ m - 1 \in 1 .. Len(rows) /\ rows'[m] = rows[m - 1]
              /\ n - 1 \in 1 .. Len(rows) /\ rows'[n] = rows[n - 1]
              /\ m - 1 < n - 1
          BY <4>2, <3>3, <3>6
        <5> QED
          BY <5>1 DEF LoopInv, LinesApart
      <4> QED
        BY <4>1, <4>2, <3>3
    <3> QED
      BY <3>3, <3>4, <3>5, <3>6 DEF LoopInv, LinesApart
  <2>2. CASE Skip
    <3>1. i' = i + 1 /\ UNCHANGED <<len, rows>>
      BY <2>2 DEF Skip
    <3> QED
      BY <3>1 DEF LoopInv, LinesApart, IsSeq
  <2>3. CASE UNCHANGED vars
    BY <2>3 DEF vars, LoopInv, LinesApart, IsSeq
  <2> QED
    BY <2>1, <2>2, <2>3 DEF Next
<1> QED
  BY <1>1, <1>2, PTL DEF Spec

(* No read past the buffer's end and no byte in two rows, for every stream *)
(* of bytes.                                                               *)
THEOREM Framing == Spec => []LinesApart
BY Looping, PTL DEF LoopInv

-----------------------------------------------------------------------------
Permutation ==
  /\ \A j, k \in Columns : Descramble[j] = Descramble[k] => j = k
  /\ \A x \in Columns : \E k \in Columns : Descramble[k] = x

(* With a permutation every pixel lands in its own column.                 *)
LEMMA Scattered ==
  ASSUME Permutation, NEW k \in Columns
  PROVE  Scatter[Descramble[k]] = b(i + VFS495_LINE_HDR + k)
<1>1. Descramble[k] \in Columns
  OBVIOUS
<1>2. {j \in Columns : Descramble[j] = Descramble[k]} = {k}
  BY DEF Permutation
<1>3. (CHOOSE j \in {k} : \A m \in {k} : m <= j) = k
  BY DEF Columns
<1>4. Scatter[Descramble[k]] = Payload[k]
  BY <1>1, <1>2, <1>3 DEF Scatter
<1> QED
  BY <1>4 DEF Payload

(* The bytes on the wire do not change while they are decoded.             *)
LEMMA Constancy ==
  ASSUME lines' = lines, NEW o
  PROVE  b(o)' = b(o)
BY DEF b

(* Every row is its line, whatever the table, if it is a permutation; with *)
(* TableIsPermutation: for the driver's own.                               *)
THEOREM Fidelity ==
  ASSUME Permutation
  PROVE  Spec => []ImageIsLine
<1>1. Init => ImageIsLine
  BY DEF Init, ImageIsLine
<1>2. LoopInv /\ ImageIsLine /\ [Next]_vars => ImageIsLine'
  <2> SUFFICES ASSUME LoopInv, ImageIsLine, [Next]_vars PROVE ImageIsLine'
    OBVIOUS
  <2>1. CASE Keep
    <3> DEFINE image == [x \in 0 .. ImageWidth - 1 |-> dec'[x]]
               r == [at |-> i, image |-> image]
    <3>1. rows' = <<r>> \o rows /\ dec' = Scatter /\ lines' = lines
      BY <2>1 DEF Keep
    <3>2. r.at = i /\ r.image = image
      OBVIOUS
    <3>3. ASSUME NEW k \in Columns, Descramble[k] < ImageWidth
          PROVE  image[Descramble[k]] = b(i + VFS495_LINE_HDR + k)
      BY <3>1, <3>3, Scattered DEF Columns
    <3>4. ASSUME NEW x \in 0 .. ImageWidth - 1
          PROVE  \E k \in Columns : image[x] = b(i + VFS495_LINE_HDR + k)
      <4>1. PICK k \in Columns : Descramble[k] = x
        BY DEF Permutation, Columns
      <4>2. Descramble[k] < ImageWidth
        BY <4>1
      <4> HIDE DEF image
      <4> QED
        BY <4>1, <4>2, <3>3
    <3> HIDE DEF r, image
    <3>5. /\ Len(rows) \in Nat /\ Len(rows') = Len(rows) + 1
          /\ rows'[1] = r /\ \A n \in 2 .. Len(rows) + 1 : rows'[n] = rows[n - 1]
      BY <3>1, Prepended DEF LoopInv
    <3>6. ASSUME NEW n \in 1 .. Len(rows')
          PROVE  /\ \A k \in Columns : Descramble[k] < ImageWidth =>
                      rows'[n].image[Descramble[k]] = b(rows'[n].at + VFS495_LINE_HDR + k)
                 /\ \A x \in 0 .. ImageWidth - 1 : \E k \in Columns :
                      rows'[n].image[x] = b(rows'[n].at + VFS495_LINE_HDR + k)
      <4>1. CASE n = 1
        BY <4>1, <3>2, <3>3, <3>4, <3>5
      <4>2. CASE n > 1
        <5>1. n - 1 \in 1 .. Len(rows) /\ rows'[n] = rows[n - 1]
          BY <4>2, <3>5
        <5> QED
          BY <5>1 DEF ImageIsLine
      <4> QED
        BY <4>1, <4>2, <3>5
    <3> SUFFICES ASSUME NEW n \in 1 .. Len(rows')
                 PROVE  /\ \A k \in Columns : Descramble[k] < ImageWidth =>
                             rows'[n].image[Descramble[k]] = b(rows[n].at + VFS495_LINE_HDR + k)'
                        /\ \A x \in 0 .. ImageWidth - 1 : \E k \in Columns :
                             rows'[n].image[x] = b(rows[n].at + VFS495_LINE_HDR + k)'
      BY DEF ImageIsLine
    <3>7. ASSUME NEW k \in Columns
          PROVE  b(rows[n].at + VFS495_LINE_HDR + k)' = b(rows'[n].at + VFS495_LINE_HDR + k)
      BY <3>1 DEF b, LineLength, VFS495_LINE_HDR
    <3> QED
      BY <3>6, <3>7
  <2>2. CASE Skip
    BY <2>2, Constancy DEF Skip, ImageIsLine
  <2>3. CASE UNCHANGED vars
    BY <2>3, Constancy DEF vars, ImageIsLine
  <2> QED
    BY <2>1, <2>2, <2>3 DEF Next
<1> QED
  BY <1>1, <1>2, Looping, PTL DEF Spec

-----------------------------------------------------------------------------
(* The leading lines.  From here on the length of a line is just a number. *)
LEMMA Long == LineLength \in Nat /\ LineLength > 8
OBVIOUS

HIDE DEF LineLength, VFS495_LINE_HDR

LEMMA Division ==
  ASSUME NEW w \in Nat \ {0}, NEW c \in Nat
  PROVE  /\ \A r \in 0 .. w - 1 : (w * c + r) \div w = c /\ (w * c + r) % w = r
         /\ w * (c + 1) = w * c + w /\ w * c \in Nat
         /\ \A d \in Nat : w * c < w * d => c < d
         /\ w * (c \div w) <= c /\ c \div w \in Nat
<1>1. ASSUME NEW r \in 0 .. w - 1
      PROVE  (w * c + r) \div w = c /\ (w * c + r) % w = r
  OBVIOUS
<1>2. w * (c + 1) = w * c + w /\ w * c \in Nat
  OBVIOUS
<1>3. ASSUME NEW d \in Nat, w * c < w * d
      PROVE  c < d
  BY <1>3
<1>4. w * (c \div w) <= c /\ c \div w \in Nat
  OBVIOUS
<1> QED
  BY <1>1, <1>2, <1>3, <1>4

(* At the beginning of a line the bytes looked at are its header's.        *)
LEMMA HeaderAt ==
  ASSUME NEW c \in Nat, c < Len(lines), lines \in Seq(Line), i = LineLength * c
  PROVE  (Marked /\ b(i + 6) % 16 = 8) <=> Acceptable(lines[c + 1])
<1>0. PICK l : l = lines[c + 1]
  OBVIOUS
<1>1. l \in Line
  <2>1. Len(lines) \in Nat /\ c + 1 \in 1 .. Len(lines)
    BY LenProperties
  <2> QED
    BY <1>0, <2>1, ElementOfSeq
<1>2. ASSUME NEW at \in 0 .. 7
      PROVE  b(LineLength * c + at) = Header(l)[at + 1]
  <2>1. /\ (LineLength * c + at) \div LineLength = c
        /\ (LineLength * c + at) % LineLength = at
    <3>1. LineLength \in Nat \ {0} /\ at \in 0 .. LineLength - 1
      BY Long
    <3> QED
      BY <3>1, Division
  <2> QED
    BY <1>0, <2>1 DEF b, VFS495_LINE_HDR
<1>3. LineLength * c \in Nat
  BY Long, Division
<1>4. /\ b(i) = 1 /\ b(i + 1) = l.mark /\ b(i + 3) = l.seq \div 256
      /\ b(i + 6) = l.scale /\ b(i + 7) = 0
  <2>1. b(i) = Header(l)[1]
    BY <1>2, <1>3
  <2>2. /\ b(i + 1) = Header(l)[2] /\ b(i + 3) = Header(l)[4]
        /\ b(i + 6) = Header(l)[7] /\ b(i + 7) = Header(l)[8]
    BY <1>2
  <2> QED
    BY <2>1, <2>2 DEF Header
<1>5. l.mark \in {1, 254} /\ l.seq \in Word
  BY <1>1 DEF Line
<1>6. l.seq \div 256 = 0 <=> l.seq < 256
  <2>1. \A n \in Word : n \in Nat
    <3>1. Word \subseteq Nat
      BY DEF Word
    <3> QED
      BY <3>1
  <2>2. l.seq \in Nat
    BY <1>5, <2>1
  <2>3. \A n \in Nat : n \div 256 = 0 <=> n < 256
    OBVIOUS
  <2> QED
    BY <2>2, <2>3, Zenon
<1> QED
  BY <1>0, <1>4, <1>5, <1>6 DEF Marked, Acceptable

(* The first c lines are the oldest c rows; the loop is behind the last of *)
(* them, or has met a line that it does not accept.                        *)
Leading(c) ==
  /\ c <= Len(lines) /\ c <= Len(rows)
  /\ \A m \in 1 .. c : Acceptable(lines[m])
  /\ \A n \in 1 .. c : rows[Len(rows) + 1 - n].at = LineLength * (n - 1)
  /\ \/ i = LineLength * c /\ Len(rows) = c
     \/ c < Len(lines) /\ ~Acceptable(lines[c + 1])

LeadInv ==
  /\ lines \in Seq(Line) /\ len <= LineLength * Len(lines)
  /\ \E c \in Nat : Leading(c)

LEMMA LeadInit == Init => LeadInv
<1> SUFFICES ASSUME Init PROVE LeadInv
  OBVIOUS
<1>1. lines \in Seq(Line) /\ Len(lines) \in Nat
  BY InputAssumption, LenProperties DEF Init
<1>2. len <= LineLength * Len(lines)
  <2>1. PICK cut \in Cuts : len = LineLength * Len(lines) - cut
    BY DEF Init
  <2>2. cut \in Nat /\ LineLength * Len(lines) \in Nat
    BY <1>1, Long, Division, InputAssumption
  <2> QED
    BY <2>1, <2>2
<1>3. Leading(0)
  BY <1>1, Long, Division DEF Init, Leading
<1> QED
  BY <1>1, <1>2, <1>3 DEF LeadInv

LEMMA LeadNext ==
  ASSUME LoopInv, LoopInv', LeadInv, [Next]_vars
  PROVE  LeadInv'
<1>1. PICK c \in Nat : Leading(c)
  BY DEF LeadInv
<1>2. lines' = lines /\ len' = len
  BY DEF Next, Keep, Skip, vars
<1>3. Len(lines) \in Nat /\ len \in Nat /\ i \in Nat
  BY LenProperties DEF LeadInv, LoopInv
<1>4. CASE Keep
  <2> DEFINE r == [at |-> i, image |-> [x \in 0 .. ImageWidth - 1 |-> dec'[x]]]
  <2>1. rows' = <<r>> \o rows /\ r.at = i
    BY <1>4 DEF Keep
  <2> HIDE DEF r
  <2>2. /\ Len(rows) \in Nat /\ Len(rows') = Len(rows) + 1
        /\ rows'[1] = r /\ \A n \in 2 .. Len(rows) + 1 : rows'[n] = rows[n - 1]
    BY <2>1, Prepended DEF LoopInv
  <2>3. \A n \in 1 .. c : rows'[Len(rows') + 1 - n].at = LineLength * (n - 1)
    <3> SUFFICES ASSUME NEW n \in 1 .. c
                 PROVE  rows'[Len(rows') + 1 - n] = rows[Len(rows) + 1 - n]
      BY <1>1 DEF Leading
    <3>1. PICK k : k = Len(rows') + 1 - n
      OBVIOUS
    <3>2. k \in 2 .. Len(rows) + 1 /\ k - 1 = Len(rows) + 1 - n
      BY <1>1, <2>2, <3>1 DEF Leading
    <3> QED
      BY <2>2, <3>1, <3>2
  <2>4. CASE i = LineLength * c /\ Len(rows) = c
    <3>1. c < Len(lines)
      <4>1. LineLength * c < LineLength * Len(lines)
        BY <1>3, <1>4, <2>4, Long DEF Keep, More, LeadInv
      <4> QED
        BY <4>1, <1>3, Long, Division
    <3>2. Acceptable(lines[c + 1])
      BY <1>4, <2>4, <3>1, HeaderAt DEF Keep, Decodes, LeadInv
    <3>3. i' = LineLength * (c + 1)
      <4>1. i' = i + LineLength
        BY <1>3, <1>4 DEF Keep, LineEnd, LineLength, VFS495_LINE_HDR
      <4> QED
        BY <4>1, <2>4, Long, Division
    <3>4. rows'[Len(rows') + 1 - (c + 1)].at = LineLength * ((c + 1) - 1)
      <4>1. Len(rows') + 1 - (c + 1) = 1 /\ (c + 1) - 1 = c
        BY <2>2, <2>4
      <4> QED
        BY <2>1, <2>2, <2>4, <4>1
    <3>5. Leading(c + 1)'
      <4>1. c + 1 <= Len(lines) /\ c + 1 <= Len(rows') /\ Len(rows') = c + 1
        BY <1>3, <2>2, <2>4, <3>1
      <4>2. \A m \in 1 .. c + 1 : Acceptable(lines[m])
        BY <1>1, <3>2 DEF Leading
      <4>3. \A n \in 1 .. c + 1 : rows'[Len(rows') + 1 - n].at = LineLength * (n - 1)
        BY <2>3, <3>4
      <4> QED
        BY <1>2, <3>3, <4>1, <4>2, <4>3 DEF Leading, Acceptable
    <3> QED
      BY <1>2, <3>5 DEF LeadInv
  <2>5. CASE c < Len(lines) /\ ~Acceptable(lines[c + 1])
    <3>1. Leading(c)'
      BY <1>1, <1>2, <2>2, <2>3, <2>5 DEF Leading, Acceptable
    <3> QED
      BY <1>2, <3>1 DEF LeadInv
  <2> QED
    BY <1>1, <2>4, <2>5 DEF Leading
<1>5. CASE Skip
  <2>1. rows' = rows /\ More /\ ~(Marked /\ Decodes)
    BY <1>5 DEF Skip
  <2>2. c < Len(lines) /\ ~Acceptable(lines[c + 1])
    <3>1. CASE i = LineLength * c
      <4>1. LineLength * c < LineLength * Len(lines)
        BY <1>3, <2>1, <3>1, Long DEF More, LeadInv
      <4>2. c < Len(lines)
        BY <4>1, <1>3, Long, Division
      <4>3. len - i >= LineLength
        BY <1>3, <2>1, Long DEF More
      <4> QED
        BY <2>1, <3>1, <4>2, <4>3, HeaderAt DEF Decodes, LeadInv
    <3> QED
      BY <1>1, <3>1 DEF Leading
  <2>3. Leading(c)'
    BY <1>1, <1>2, <2>1, <2>2 DEF Leading, Acceptable
  <2> QED
    BY <1>2, <2>3 DEF LeadInv
<1>6. CASE UNCHANGED vars
  BY <1>6 DEF vars, LeadInv, Leading, Acceptable
<1> QED
  BY <1>4, <1>5, <1>6 DEF Next

(* The lines before the first one that the decoder cannot accept are all   *)
(* kept, in order, whatever their pixels look like, for every width and    *)
(* every swipe.                                                            *)
THEOREM Completeness == Spec => []LeadingKept
<1>1. LoopInv /\ LeadInv => LeadingKept
  <2> SUFFICES ASSUME LoopInv, LeadInv, NEW n \in 1 .. Arrived,
                      \A m \in 1 .. n : Acceptable(lines[m])
               PROVE  /\ n <= Len(rows) => rows[Len(rows) + 1 - n].at = LineLength * (n - 1)
                      /\ ~More => n <= Len(rows)
    BY DEF LeadingKept, lines_recorded
  <2>1. PICK c \in Nat : Leading(c)
    BY DEF LeadInv
  <2>2. Len(lines) \in Nat /\ Len(rows) \in Nat /\ len \in Nat
    BY LenProperties DEF LeadInv, LoopInv, IsSeq
  <2>3. Arrived \in Nat /\ LineLength * Arrived <= len
    BY <2>2, Long, Division DEF Arrived
  <2>4. CASE c < Len(lines) /\ ~Acceptable(lines[c + 1])
    <3>1. n <= c
      BY <2>3, <2>4
    <3> QED
      BY <2>1, <2>2, <2>3, <3>1 DEF Leading
  <2>5. CASE i = LineLength * c /\ Len(rows) = c
    <3>1. ASSUME ~More PROVE n <= c
      <4>1. LineLength * (c + 1) > len
        BY <2>2, <2>5, <3>1, Long, Division DEF More
      <4>2. LineLength * Arrived < LineLength * (c + 1)
        BY <2>2, <2>3, <4>1, Long, Division
      <4> QED
        BY <4>2, <2>3, Long, Division
    <3> QED
      BY <2>1, <2>2, <2>3, <2>5, <3>1 DEF Leading
  <2> QED
    BY <2>1, <2>4, <2>5 DEF Leading
<1>2. LoopInv /\ LoopInv' /\ LeadInv /\ [Next]_vars => LeadInv'
  BY LeadNext
<1> QED
  BY <1>1, <1>2, LeadInit, Looping, PTL DEF Spec
=============================================================================
