--------------------------- MODULE HarvestProofs ----------------------------
(***************************************************************************)
(* Proofs about the line harvest, for any number of attempts and of lines  *)
(* in a swipe: the sensor is let go, what is loaded from the file is the   *)
(* beginning of the swipe, wherever gdb was killed, the segment cut out of *)
(* it is the longest there is, and every step of the tool takes it nearer  *)
(* to its end.                                                             *)
(***************************************************************************)
EXTENDS Harvest, TLAPS

Record == [line : Nat, whole : BOOLEAN]

(* gdb lives within the tool's call, HP's binary until the pkill.          *)
Nested ==
  /\ gdb \in {"off", "run", "append", "appending"}
  /\ gdb # "off" => main = "run"
  /\ hp => gdb # "off" \/ main = "pkill"

(* The file has the lines in order, all of them whole but for one that is  *)
(* being written or was when gdb was killed.                               *)
Ordered ==
  /\ lines \in Nat /\ prev \in Nat /\ file \in Seq(Record)
  /\ \A k \in 1 .. Len(file) : file[k].line = k
  /\ \A k \in 1 .. Len(file) : k < Len(file) \/ gdb \in {"run", "append"} => file[k].whole

(* gdb notes the line after the last one in the file, and HP's binary is   *)
(* at that line or at the next.                                            *)
OneBehind ==
  /\ gdb \in {"run", "append"} =>
       \/ prev = 0 /\ file = <<>> /\ gdb = "run"
       \/ prev = Len(file) + 1
  /\ gdb = "run" => lines = prev
  /\ gdb = "append" => lines = prev + 1
  /\ gdb = "appending" => Len(file) = prev /\ prev > 0 /\ lines = prev + 1
  /\ file = <<>> \/ Len(file) < lines

(* The attempt's own counters, and no segment before it is searched for.   *)
Counted ==
  /\ main \in {"harvest", "run", "pkill", "size", "load", "search", "ok", "none"}
  /\ attempt \in 0 .. VFS_ATTEMPTS /\ hp \in BOOLEAN
  /\ lines <= MaxLines /\ prev <= lines /\ img \in Seq(Nat)
  /\ main \in {"run", "pkill", "size", "load"} => energy = <<>>
  /\ energy = <<>> \/ energy \in Energies(Len(img))

(* best_segment().  Rows are collected between two of the other kind.      *)
Searched ==
  /\ Len(energy) \in Nat /\ energy \in [1 .. Len(energy) -> BOOLEAN]
  /\ Len(on) = Len(energy) /\ on \in [1 .. Len(energy) -> BOOLEAN]
  /\ loop \in {"gaps", "runs", "done"}
  /\ i \in 1 .. Len(energy) + 1 /\ j \in i .. Len(energy) + 1

Collected ==
  loop # "done" =>
    /\ \A k \in i .. j - 1 : on[k] = Collects
    /\ i > 1 => on[i - 1] # Collects \/ (i = j /\ Ends)

(* The rows behind the first loop are right, those ahead untouched.        *)
Closed ==
  /\ \A k \in 1 .. Len(energy) : loop # "gaps" \/ k < i => (on[k] <=> OfFinger(k))
  /\ \A k \in 1 .. Len(energy) : loop = "gaps" /\ k >= i => on[k] = energy[k]

(* `best' is a longest run of the rows behind the second loop.             *)
Behind == CASE loop = "gaps" -> 0
            [] loop = "runs" -> i - 1
            [] OTHER -> Len(energy)

AllOn(first, last) == \A k \in first .. last : on[k]

IsBest(b, m) ==
  /\ b \in [from : 0 .. m, to : 0 .. m] /\ b.from <= b.to
  /\ AllOn(b.from + 1, b.to)
  /\ \A first, last \in 1 .. m : AllOn(first, last) => last - first < b.to - b.from

SegInv == Searched /\ Collected /\ Closed /\ IsBest(best, Behind)

Inv == Nested /\ Ordered /\ OneBehind /\ PartialUsable

-----------------------------------------------------------------------------
(* The loader takes whole records only.                                    *)
LEMMA WholeIsPrefix ==
  ASSUME Ordered
  PROVE  Whole \in 0 .. Len(file) /\ \A k \in 1 .. Whole : file[k].whole
<1> DEFINE Stops(n) == /\ \A k \in 1 .. n : file[k].whole
                       /\ n < Len(file) => ~file[n + 1].whole
<1>1. Len(file) \in Nat
  BY DEF Ordered
<1>2. \E n \in 0 .. Len(file) : Stops(n)
  <2>1. CASE \A k \in 1 .. Len(file) : file[k].whole
    <3>1. Stops(Len(file))
      BY <2>1, <1>1
    <3> QED
      BY <3>1, <1>1
  <2>2. CASE ~\A k \in 1 .. Len(file) : file[k].whole
    <3>1. Len(file) > 0 /\ ~file[Len(file)].whole
      BY <2>2, <1>1 DEF Ordered
    <3>2. Stops(Len(file) - 1)
      BY <3>1, <1>1 DEF Ordered
    <3>3. Len(file) - 1 \in 0 .. Len(file)
      BY <3>1, <1>1
    <3> HIDE DEF Stops
    <3> QED
      BY <3>2, <3>3
  <2> QED
    BY <2>1, <2>2
<1>3. Whole = CHOOSE n \in 0 .. Len(file) : Stops(n)
  BY DEF Whole
<1>4. Whole \in 0 .. Len(file) /\ Stops(Whole)
  <2> HIDE DEF Stops
  <2> QED
    BY <1>2, <1>3
<1> QED
  BY <1>4

LEMMA Begins == Init => Inv
  BY DEF Init, Inv, Nested, Ordered, OneBehind, PartialUsable

(* A step that leaves the file, the notes and the image alone.             *)
LEMMA Apart ==
  ASSUME Ordered, OneBehind, PartialUsable, UNCHANGED <<lines, prev, file, img>>,
         gdb' \in {gdb, "off"},
         main' \in {"load", "search", "ok"} => main \in {"load", "search", "ok"}
  PROVE  Ordered' /\ OneBehind' /\ PartialUsable'
<1>1. Ordered'
  BY DEF Ordered
<1>2. OneBehind'
  BY DEF OneBehind
<1>3. PartialUsable'
  BY DEF PartialUsable
<1> QED
  BY <1>1, <1>2, <1>3

LEMMA RowsLoaded ==
  ASSUME Ordered
  PROVE  /\ Whole \in 0 .. Len(file) /\ \A k \in 1 .. Whole : file[k].whole
         /\ Rows \in Seq(Nat) /\ Len(Rows) = Whole /\ \A k \in 1 .. Whole : Rows[k] = k
<1>1. Whole \in 0 .. Len(file) /\ \A k \in 1 .. Whole : file[k].whole
  BY WholeIsPrefix
<1>2. Rows = [k \in 1 .. Whole |-> k]
  BY <1>1 DEF Rows, Ordered
<1> QED
  BY <1>1, <1>2 DEF Ordered

LEMMA ToolSteps == Inv /\ (Tool \/ TimedOut) => Inv'
<1> SUFFICES ASSUME Inv, Tool \/ TimedOut PROVE Inv'
  OBVIOUS
<1> USE DEF Inv, Nested, attempts
<1>1. CASE Launch
  <2>1. Nested'
    BY <1>1 DEF Launch
  <2>2. Ordered' /\ OneBehind'
    BY <1>1 DEF Launch, Ordered, OneBehind
  <2>3. PartialUsable'
    BY <1>1 DEF Launch, PartialUsable
  <2> QED
    BY <2>1, <2>2, <2>3
<1>2. CASE GiveUp
  BY <1>2, Apart DEF GiveUp
<1>3. CASE GdbReturned
  BY <1>3, Apart DEF GdbReturned
<1>4. CASE TimedOut
  BY <1>4, Apart DEF TimedOut
<1>5. CASE Pkill
  BY <1>5, Apart DEF Pkill, Left
<1>6. CASE TooSmall
  BY <1>6, Apart DEF TooSmall
<1>7. CASE Load
  <2>1. main = "size" /\ main' = "load" /\ img' = Rows /\ UNCHANGED <<gdb, hp, lines, prev, file>>
    BY <1>7 DEF Load
  <2>2. Nested'
    BY <2>1
  <2>3. Ordered' /\ OneBehind'
    BY <2>1 DEF Ordered, OneBehind
  <2>4. Whole < lines \/ Rows = <<>>
    BY RowsLoaded DEF Ordered, OneBehind, Rows
  <2>5. PartialUsable'
    BY <2>1, <2>4, RowsLoaded DEF PartialUsable
  <2> QED
    BY <2>2, <2>3, <2>5
<1>8. CASE TooFew
  BY <1>8, Apart DEF TooFew
<1>9. CASE Search
  BY <1>9, Apart DEF Search
<1>10. CASE Segments
  BY <1>10, Apart DEF Segments
<1>11. CASE NoFinger
  BY <1>11, Apart DEF NoFinger
<1>12. CASE Report
  BY <1>12, Apart DEF Report
<1> QED
  BY <1>1, <1>2, <1>3, <1>4, <1>5, <1>6, <1>7, <1>8, <1>9, <1>10, <1>11, <1>12 DEF Tool

LEMMA HarvesterSteps == Inv /\ (Harvester \/ HpTraps) => Inv'
<1> SUFFICES ASSUME Inv, Harvester \/ HpTraps PROVE Inv'
  OBVIOUS
<1> USE DEF Inv
<1>1. CASE UnpackLine
  <2>1. gdb = "run" /\ main = "run" /\ UNCHANGED <<main, hp, file, img>> /\ lines' = lines + 1
    BY <1>1 DEF UnpackLine, Nested
  <2>2. (prev = 0 /\ prev' = lines + 1 /\ gdb' = gdb) \/ (prev # 0 /\ gdb' = "append" /\ prev' = prev)
    BY <1>1 DEF UnpackLine
  <2>3. Nested' /\ PartialUsable'
    BY <2>1, <2>2 DEF Nested, PartialUsable
  <2>4. Ordered'
    BY <2>1, <2>2 DEF Ordered
  <2>5. OneBehind'
    BY <2>1, <2>2 DEF OneBehind, Ordered
  <2> QED
    BY <2>3, <2>4, <2>5
<1>2. CASE AppendPart
  <2> DEFINE r == [line |-> prev, whole |-> FALSE]
  <2>1. /\ gdb = "append" /\ gdb' = "appending" /\ main = "run" /\ file' = Append(file, r)
        /\ UNCHANGED <<main, hp, lines, prev, img>>
    BY <1>2 DEF AppendPart, Nested, Noted
  <2>2. prev = Len(file) + 1 /\ lines = prev + 1 /\ r \in Record
    BY <2>1 DEF OneBehind, Ordered, Record
  <2>3. /\ file' \in Seq(Record) /\ Len(file') = Len(file) + 1 /\ file'[Len(file) + 1] = r
        /\ \A k \in 1 .. Len(file) : file'[k] = file[k]
    BY <2>1, <2>2 DEF Ordered
  <2>4. Nested' /\ PartialUsable'
    BY <2>1 DEF Nested, PartialUsable
  <2>5. Ordered'
    BY <2>1, <2>2, <2>3 DEF Ordered
  <2>6. OneBehind'
    BY <2>1, <2>2, <2>3 DEF OneBehind, Ordered
  <2> QED
    BY <2>4, <2>5, <2>6
<1>3. CASE AppendRest
  <2>1. /\ gdb = "appending" /\ gdb' = "run" /\ main = "run" /\ prev' = lines
        /\ file' = [file EXCEPT ![Len(file)].whole = TRUE]
        /\ UNCHANGED <<main, hp, lines, img>>
    BY <1>3 DEF AppendRest, Nested
  <2>2. Len(file) = prev /\ prev > 0 /\ lines = prev + 1 /\ file \in Seq(Record)
    BY <2>1 DEF OneBehind, Ordered
  <2> DEFINE r == [file[prev] EXCEPT !.whole = TRUE]
  <2>3. file' = [file EXCEPT ![prev] = r] /\ file[prev] \in Record
    BY <2>1, <2>2
  <2>4. r \in Record /\ r.whole /\ r.line = file[prev].line
    BY <2>3 DEF Record
  <2>5. /\ file' \in Seq(Record) /\ Len(file') = prev /\ file'[prev] = r
        /\ \A k \in 1 .. prev : k # prev => file'[k] = file[k]
    <3> HIDE DEF r
    <3> QED
      BY <2>2, <2>3, <2>4
  <2>6. Nested' /\ PartialUsable'
    BY <2>1 DEF Nested, PartialUsable
  <2>7. Ordered'
    BY <2>1, <2>2, <2>4, <2>5 DEF Ordered
  <2>8. OneBehind'
    BY <2>1, <2>2, <2>5 DEF OneBehind
  <2> QED
    BY <2>6, <2>7, <2>8
<1>4. CASE HpExits
  BY <1>4, Apart DEF HpExits, Nested
<1>5. CASE HpTraps
  BY <1>5, Apart DEF HpTraps, Nested
<1> QED
  BY <1>1, <1>2, <1>3, <1>4, <1>5 DEF Harvester

-----------------------------------------------------------------------------
(* best_segment().                                                         *)
LEMMA KeepsSearched == Searched /\ Scan => Searched' /\ energy' = energy
<1> SUFFICES ASSUME Searched, Scan PROVE Searched' /\ energy' = energy
  OBVIOUS
<1>1. CASE Skip
  BY <1>1 DEF Skip, Searched
<1>2. CASE Collect
  BY <1>2 DEF Collect, Searched
<1>3. CASE CloseGap
  <2>1. /\ DOMAIN on' = 1 .. Len(energy) /\ \A k \in 1 .. Len(energy) : on'[k] \in BOOLEAN
        /\ on' = [k \in 1 .. Len(energy) |-> on'[k]]
    BY <1>3 DEF CloseGap, Searched
  <2>2. Len(on') = Len(energy) /\ on' \in [1 .. Len(energy) -> BOOLEAN]
    BY <2>1 DEF Searched
  <2> QED
    BY <1>3, <2>2 DEF CloseGap, Searched
<1>4. CASE TakeRun
  BY <1>4 DEF TakeRun, Searched
<1>5. CASE LoopEnds
  BY <1>5 DEF LoopEnds, Searched
<1> QED
  BY <1>1, <1>2, <1>3, <1>4, <1>5 DEF Scan

LEMMA KeepsCollected == Searched /\ Collected /\ Scan => Collected'
<1> SUFFICES ASSUME Searched, Collected, Scan PROVE Collected'
  OBVIOUS
<1>1. CASE Skip
  BY <1>1 DEF Skip, Searched, Collected, Ends, Collects
<1>2. CASE Collect
  BY <1>2 DEF Collect, Searched, Collected, Ends, Collects
<1>3. CASE CloseGap
  <2>1. /\ loop = "gaps" /\ loop' = loop /\ i' = j /\ j' = j /\ i < j
        /\ j <= Len(on) => on[j]
    BY <1>3 DEF CloseGap, Ends, Collects, Searched
  <2>2. Len(on') = Len(on) /\ (j <= Len(on) => on'[j])
    BY <1>3, <2>1, KeepsSearched DEF CloseGap, Searched, Scan
  <2> QED
    BY <2>1, <2>2 DEF Collected, Collects, Ends, Searched
<1>4. CASE TakeRun
  BY <1>4 DEF TakeRun, Searched, Collected, Ends, Collects
<1>5. CASE LoopEnds
  BY <1>5 DEF LoopEnds, Searched, Collected
<1> QED
  BY <1>1, <1>2, <1>3, <1>4, <1>5 DEF Scan

(* A gap belongs to the finger if it is closed and only then.              *)
LEMMA GapsOfFinger ==
  ASSUME Searched, Collected, Closed, loop = "gaps", i < j, Ends, NEW k \in i .. j - 1
  PROVE  OfFinger(k) <=> Closes
<1>1. \A r \in i .. j - 1 : ~energy[r]
  BY DEF Searched, Collected, Closed, Collects
<1>2. j <= Len(energy) => energy[j]
  BY DEF Searched, Closed, Ends, Collects
<1>3. ASSUME Closes PROVE OfFinger(k)
  <2>1. i > 1 /\ j <= Len(energy) /\ energy[j] /\ j - i <= Gap
    BY <1>2, <1>3 DEF Closes, Searched
  <2>2. i - 1 \in 1 .. Len(energy) /\ OfFinger(i - 1)
    BY <2>1 DEF Searched, Collected, Closed, Collects
  <2>3. CASE energy[i - 1]
    <3>1. i - 1 \in 1 .. k - 1 /\ j \in k + 1 .. Len(energy) /\ j - (i - 1) - 1 <= Gap
      BY <2>1, SegmentAssumption DEF Searched
    <3> QED
      BY <2>1, <2>3, <3>1 DEF OfFinger
  <2>4. CASE ~energy[i - 1]
    <3>1. PICK l \in 1 .. i - 1 - 1, r \in i - 1 + 1 .. Len(energy) :
            energy[l] /\ energy[r] /\ r - l - 1 <= Gap
      BY <2>2, <2>4 DEF OfFinger
    <3>2. r \notin i .. j - 1
      BY <1>1, <3>1
    <3>3. l \in 1 .. k - 1 /\ r \in k + 1 .. Len(energy)
      BY <3>2 DEF Searched
    <3> QED
      BY <3>1, <3>3 DEF OfFinger
  <2> QED
    BY <2>3, <2>4
<1>4. ASSUME OfFinger(k) PROVE Closes
  <2>1. ~energy[k]
    BY <1>1
  <2>2. PICK l \in 1 .. k - 1, r \in k + 1 .. Len(energy) :
          energy[l] /\ energy[r] /\ r - l - 1 <= Gap
    BY <1>4, <2>1 DEF OfFinger
  <2>3. l \notin i .. j - 1 /\ r \notin i .. j - 1
    BY <1>1, <2>2
  <2>4. l < i /\ r >= j /\ i \in Nat /\ j \in Nat /\ l \in Nat /\ r \in Nat /\ l >= 1 /\ r <= Len(energy)
    BY <2>3 DEF Searched
  <2> QED
    BY <2>2, <2>4, SegmentAssumption DEF Closes, Searched
<1> QED
  BY <1>3, <1>4

LEMMA KeepsClosed == Searched /\ Collected /\ Closed /\ Scan => Closed'
<1> SUFFICES ASSUME Searched, Collected, Closed, Scan PROVE Closed'
  OBVIOUS
<1>1. energy' = energy
  BY KeepsSearched
<1>2. \A k : OfFinger(k)' <=> OfFinger(k)
  BY <1>1 DEF OfFinger
<1>3. CASE Skip
  <2>1. loop = "gaps" => on[i] /\ energy[i]
    BY <1>3 DEF Skip, Searched, Closed, Ends, Collects
  <2>2. loop = "gaps" => (on[i] <=> OfFinger(i))
    BY <2>1 DEF OfFinger
  <2> QED
    BY <1>1, <1>2, <1>3, <2>2 DEF Skip, Searched, Closed
<1>4. CASE Collect
  BY <1>1, <1>2, <1>4 DEF Collect, Closed
<1>5. CASE CloseGap
  <2>1. /\ loop = "gaps" /\ loop' = loop /\ i < j /\ Ends /\ i' = j
        /\ \A k \in 1 .. Len(energy) : on'[k] = (on[k] \/ (Closes /\ k \in i .. j - 1))
    BY <1>5 DEF CloseGap, Searched
  <2>2. \A k \in 1 .. Len(energy) : k < j => (on'[k] <=> OfFinger(k))
    <3> SUFFICES ASSUME NEW k \in 1 .. Len(energy), k < j PROVE on'[k] <=> OfFinger(k)
      OBVIOUS
    <3>1. CASE k < i
      BY <2>1, <3>1 DEF Closed, Searched
    <3>2. CASE k >= i
      <4>1. k \in i .. j - 1
        BY <3>2 DEF Searched
      <4>2. ~on[k]
        BY <2>1, <4>1 DEF Collected, Collects, Searched
      <4>3. OfFinger(k) <=> Closes
        BY <2>1, <4>1, GapsOfFinger
      <4> QED
        BY <2>1, <4>1, <4>2, <4>3
    <3> QED
      BY <3>1, <3>2 DEF Searched
  <2>3. \A k \in 1 .. Len(energy) : k >= j => on'[k] = energy[k]
    BY <2>1 DEF Closed, Searched
  <2> QED
    BY <1>1, <1>2, <2>1, <2>2, <2>3 DEF Closed
<1>6. CASE TakeRun
  BY <1>1, <1>2, <1>6 DEF TakeRun, Closed
<1>7. CASE LoopEnds
  <2>1. \A k \in 1 .. Len(energy) : on[k] <=> OfFinger(k)
    BY <1>7 DEF LoopEnds, Closed, Searched
  <2> QED
    BY <1>1, <1>2, <1>7, <2>1 DEF LoopEnds, Closed
<1> QED
  BY <1>3, <1>4, <1>5, <1>6, <1>7 DEF Scan

(* What the second loop has found among the rows before the ones collected *)
(* it has among those and the row that is skipped, or the run it ends.     *)
LEMMA RunExtends ==
  ASSUME Searched, Collected, loop = "runs", IsBest(best, i - 1),
         NEW m \in i .. Len(energy), NEW b \in [from : 0 .. m, to : 0 .. m], b.from <= b.to,
         AllOn(b.from + 1, b.to), best.to - best.from <= b.to - b.from,
         \/ m = i /\ ~on[i]
         \/ m = j - 1 /\ (i > 1 => ~on[i - 1]) /\ j - i <= b.to - b.from
  PROVE  IsBest(b, m)
<1> SUFFICES ASSUME NEW first \in 1 .. m, NEW last \in 1 .. m, AllOn(first, last)
             PROVE  last - first < b.to - b.from
  BY DEF IsBest
<1>1. i \in Nat /\ j \in Nat /\ i >= 1 /\ best.to \in Nat /\ best.from \in Nat /\ b.to \in Nat /\ b.from \in Nat
  BY DEF Searched, IsBest
<1>2. CASE last < i
  <2>1. CASE first < i
    <3>1. first \in 1 .. i - 1 /\ last \in 1 .. i - 1
      BY <1>1, <1>2, <2>1
    <3>2. last - first < best.to - best.from
      BY <3>1 DEF IsBest
    <3> QED
      BY <1>1, <3>2
  <2>2. CASE first >= i
    BY <1>1, <1>2, <2>2
  <2> QED
    BY <1>1, <2>1, <2>2
<1>3. CASE last >= i /\ first < i
  <2>1. i - 1 \in first .. last /\ i \in first .. last /\ i > 1
    BY <1>1, <1>3
  <2>2. on[i - 1] /\ on[i]
    BY <2>1 DEF AllOn
  <2> QED
    BY <2>1, <2>2
<1>4. CASE last >= i /\ first >= i
  <2>1. CASE m = i /\ ~on[i]
    <3>1. i \in first .. last
      BY <1>1, <1>4, <2>1
    <3> QED
      BY <2>1, <3>1 DEF AllOn
  <2>2. CASE m = j - 1 /\ j - i <= b.to - b.from
    BY <1>1, <1>4, <2>2
  <2> QED
    BY <2>1, <2>2
<1> QED
  BY <1>1, <1>2, <1>3, <1>4

LEMMA KeepsBest == SegInv /\ Scan => IsBest(best, Behind)'
<1> SUFFICES ASSUME SegInv, Scan PROVE IsBest(best, Behind)'
  OBVIOUS
<1>1. Searched' /\ energy' = energy
  BY KeepsSearched DEF SegInv
<1>2. CASE loop = "gaps"
  <2>1. Behind = 0 /\ best' = best /\ Behind' = 0
    BY <1>2 DEF Scan, Skip, Collect, CloseGap, TakeRun, LoopEnds, Behind
  <2>2. best \in [from : 0 .. 0, to : 0 .. 0] /\ best.from = 0 /\ best.to = 0
    BY <2>1 DEF SegInv, IsBest
  <2> QED
    BY <2>1, <2>2 DEF IsBest, AllOn
<1>3. CASE loop = "runs"
  <2> USE <1>3 DEF SegInv
  <2>1. IsBest(best, i - 1) /\ Collects
    BY DEF Behind, Collects
  <2>2. CASE Collect \/ LoopEnds
    <3>1. on' = on /\ best' = best /\ Behind' = i - 1
      BY <2>2, <1>1 DEF Collect, LoopEnds, Behind, Searched
    <3> QED
      BY <2>1, <3>1 DEF IsBest, AllOn
  <2>3. CASE Skip
    <3>1. i \in i .. Len(energy) /\ ~on[i] /\ on' = on /\ best' = best /\ Behind' = i
      BY <2>1, <2>3 DEF Skip, Ends, Collects, Behind, Searched
    <3>2. /\ best \in [from : 0 .. i, to : 0 .. i] /\ best.from <= best.to
          /\ AllOn(best.from + 1, best.to) /\ best.to - best.from <= best.to - best.from
      BY <2>1, <3>1 DEF IsBest, Searched
    <3>3. IsBest(best, i)
      BY <2>1, <3>1, <3>2, RunExtends
    <3> QED
      BY <3>1, <3>3 DEF IsBest, AllOn
  <2>4. CASE TakeRun
    <3>1. /\ i < j /\ on' = on /\ Behind' = j - 1 /\ j - 1 \in i .. Len(energy)
          /\ best' = IF j - i > best.to - best.from THEN [from |-> i - 1, to |-> j - 1] ELSE best
      BY <2>4 DEF TakeRun, Behind, Searched
    <3>2. i # j /\ Collects = TRUE
      BY <2>1, <3>1 DEF Searched, Collects
    <3>3. (i > 1 => ~on[i - 1]) /\ \A k \in i .. j - 1 : on[k]
      <4>1. (i > 1 => on[i - 1] # Collects) /\ \A k \in i .. j - 1 : on[k] = Collects
        BY <3>2 DEF Collected
      <4> QED
        BY <3>2, <4>1
    <3>4. CASE j - i > best.to - best.from
      <4> DEFINE b == [from |-> i - 1, to |-> j - 1]
      <4>1. /\ b \in [from : 0 .. j - 1, to : 0 .. j - 1] /\ b.from <= b.to /\ b.to - b.from = j - i
            /\ AllOn(b.from + 1, b.to)
        BY <3>1, <3>3 DEF AllOn, Searched
      <4>2. best.to - best.from <= b.to - b.from /\ j - i <= b.to - b.from
        BY <2>1, <3>4, <4>1 DEF IsBest, Searched
      <4>3. best' = b
        BY <3>1, <3>4
      <4> HIDE DEF b
      <4>4. IsBest(b, j - 1)
        BY <2>1, <3>1, <3>3, <4>1, <4>2, RunExtends
      <4> QED
        BY <3>1, <4>3, <4>4 DEF IsBest, AllOn
    <3>5. CASE j - i <= best.to - best.from
      <4>1. /\ best \in [from : 0 .. j - 1, to : 0 .. j - 1] /\ best.from <= best.to
            /\ AllOn(best.from + 1, best.to) /\ best.to - best.from <= best.to - best.from
        BY <2>1, <3>1 DEF IsBest, Searched
      <4>2. best' = best
        BY <2>1, <3>1, <3>5 DEF IsBest, Searched
      <4>3. IsBest(best, j - 1)
        BY <2>1, <3>1, <3>3, <3>5, <4>1, RunExtends
      <4> QED
        BY <3>1, <4>2, <4>3 DEF IsBest, AllOn
    <3> QED
      BY <2>1, <3>4, <3>5 DEF IsBest, Searched
  <2> QED
    BY <2>2, <2>3, <2>4 DEF Scan, CloseGap
<1> QED
  BY <1>2, <1>3 DEF Scan, Skip, Collect, CloseGap, TakeRun, LoopEnds, SegInv, Searched

LEMMA KeepsSegInv == SegInv /\ (Scan \/ UNCHANGED found) => SegInv'
<1> SUFFICES ASSUME SegInv, Scan \/ UNCHANGED found PROVE SegInv'
  OBVIOUS
<1>1. CASE Scan
  BY <1>1, KeepsSearched, KeepsCollected, KeepsClosed, KeepsBest DEF SegInv
<1>2. CASE UNCHANGED found
  BY <1>2 DEF found, SegInv, Searched, Collected, Closed, IsBest, AllOn, Behind, Collects, Ends, OfFinger
<1> QED
  BY <1>1, <1>2

LEMMA BeginsSegInv ==
  ASSUME NEW n \in Nat, NEW e \in [1 .. n -> BOOLEAN], NEW l \in {"gaps", "done"}, Begin(e, l),
         l = "done" => n = 0
  PROVE  SegInv'
<1>1. Len(e) = n
  OBVIOUS
<1>2. Searched'
  BY <1>1 DEF Begin, Searched
<1>3. Collected'
  BY <1>1 DEF Begin, Collected
<1>4. Closed'
  BY <1>1 DEF Begin, Closed
<1>5. Behind' = 0 /\ best' = Nothing
  BY <1>1 DEF Begin, Behind
<1>6. IsBest(best, Behind)'
  BY <1>5 DEF IsBest, AllOn, Nothing
<1> QED
  BY <1>2, <1>3, <1>4, <1>6 DEF SegInv

-----------------------------------------------------------------------------
(* The inductive invariant.                                                *)
THEOREM Invariance == Spec => []Inv
<1>1. Inv /\ [Next]_vars => Inv'
  <2> SUFFICES ASSUME Inv, [Next]_vars PROVE Inv'
    OBVIOUS
  <2>1. CASE UNCHANGED vars
    BY <2>1, Apart DEF vars, Inv, Nested
  <2> QED
    BY <2>1, ToolSteps, HarvesterSteps DEF Next
<1> QED
  BY <1>1, Begins, PTL DEF Spec

(* What is rebuilt is the beginning of the swipe, line by line and each    *)
(* line to its end, wherever in its append gdb was killed.                 *)
THEOREM Usable == Spec => []PartialUsable
<1>1. Inv => PartialUsable
  BY DEF Inv
<1> QED
  BY <1>1, Invariance, PTL

(* An attempt that is over holds the sensor no more.                       *)
THEOREM Release == Spec => []SensorReleased
<1>1. Inv => SensorReleased
  BY DEF Inv, Nested, SensorReleased
<1> QED
  BY <1>1, Invariance, PTL

-----------------------------------------------------------------------------
(* The attempts' counters and the segment.                                 *)
LEMMA LengthOfEnergies ==
  ASSUME NEW n \in Nat, NEW e \in Energies(n)
  PROVE  Len(e) = n /\ e \in [1 .. n -> BOOLEAN]
BY DEF Energies

LEMMA CountedBegins == Init => Counted /\ SegInv
<1> SUFFICES ASSUME Init PROVE Counted /\ SegInv
  OBVIOUS
<1>1. Counted
  <2>1. attempt \in 0 .. VFS_ATTEMPTS /\ lines <= MaxLines /\ prev <= lines
    BY BoundsAssumption DEF Init
  <2>2. hp \in BOOLEAN /\ img = <<>> /\ energy = <<>>
    BY DEF Init, Idle
  <2>3. img \in Seq(Nat)
    BY <2>2
  <2> QED
    BY <2>1, <2>2, <2>3 DEF Init, Counted
<1>2. Searched /\ Collected /\ Closed
  BY DEF Init, Idle, Searched, Collected, Closed
<1>3. IsBest(best, Behind)
  BY DEF Init, Idle, Nothing, IsBest, AllOn, Behind
<1> QED
  BY <1>1, <1>2, <1>3 DEF SegInv

LEMMA CountedStep == Inv /\ Counted /\ [Next]_vars => Counted'
<1> SUFFICES ASSUME Inv, Counted, [Next]_vars PROVE Counted'
  OBVIOUS
<1> USE DEF Counted
<1>1. CASE Launch
  BY <1>1, BoundsAssumption DEF Launch, Begin, Again, Count
<1>2. CASE GiveUp \/ GdbReturned \/ TimedOut \/ HpTraps \/ HpExits
  BY <1>2 DEF GiveUp, GdbReturned, TimedOut, HpTraps, HpExits, found
<1>3. CASE Pkill \/ TooSmall \/ TooFew \/ NoFinger \/ Report
  BY <1>3 DEF Pkill, Left, TooSmall, TooFew, NoFinger, Report, found
<1>4. CASE Load
  <2>1. img' \in Seq(Nat)
    BY <1>4, RowsLoaded DEF Load, Inv
  <2> QED
    BY <1>4, <2>1 DEF Load, found
<1>5. CASE Search
  BY <1>5 DEF Search, Begin
<1>6. CASE Segments
  <2>1. main = "search" /\ UNCHANGED attempts /\ energy' = energy
    BY <1>6 DEF Segments, Scan, Skip, Collect, CloseGap, TakeRun, LoopEnds
  <2> QED
    BY <2>1 DEF attempts
<1>7. CASE UnpackLine
  <2>1. lines' <= MaxLines /\ prev' <= lines'
    BY <1>7, BoundsAssumption DEF UnpackLine, Inv, Ordered
  <2> QED
    BY <1>7, <2>1 DEF UnpackLine, found
<1>8. CASE AppendPart \/ AppendRest
  BY <1>8 DEF AppendPart, AppendRest, found, Inv, Ordered
<1>9. CASE UNCHANGED vars
  BY <1>9 DEF vars
<1> QED
  BY <1>1, <1>2, <1>3, <1>4, <1>5, <1>6, <1>7, <1>8, <1>9 DEF Next, Tool, Harvester

LEMMA SegInvStep == Counted /\ SegInv /\ [Next]_vars => SegInv'
<1> SUFFICES ASSUME Counted, SegInv, [Next]_vars PROVE SegInv'
  OBVIOUS
<1>1. CASE Launch
  <2>1. <<>> \in [1 .. 0 -> BOOLEAN] /\ Begin(<<>>, "done")
    BY <1>1 DEF Launch
  <2> QED
    BY <2>1, BeginsSegInv
<1>2. CASE Search
  <2>1. PICK e \in Energies(Len(img)) : Begin(e, "gaps")
    BY <1>2 DEF Search
  <2>2. Len(img) \in Nat /\ e \in [1 .. Len(img) -> BOOLEAN]
    BY <2>1, LengthOfEnergies DEF Counted
  <2> QED
    BY <2>1, <2>2, BeginsSegInv
<1>3. CASE Segments
  BY <1>3, KeepsSegInv DEF Segments
<1>4. CASE UNCHANGED found
  BY <1>4, KeepsSegInv
<1>5. Launch \/ Search \/ Segments \/ UNCHANGED found
  BY DEF Next, Tool, Harvester, GiveUp, GdbReturned, TimedOut, Pkill, TooSmall, Load, TooFew,
         NoFinger, Report, UnpackLine, AppendPart, AppendRest, HpExits, HpTraps, vars, found
<1> QED
  BY <1>1, <1>2, <1>3, <1>4, <1>5

(* The inductive invariant of the counters and of both loops.              *)
THEOREM Searching == Spec => [](Counted /\ SegInv)
<1>1. Inv /\ Counted /\ SegInv /\ [Next]_vars => (Counted /\ SegInv)'
  BY CountedStep, SegInvStep
<1> QED
  BY <1>1, CountedBegins, Invariance, PTL DEF Spec

(* The state stays typed, for any number of attempts, lines and rows.      *)
THEOREM Typing == Spec => []TypeOK
<1>1. Inv /\ Counted /\ SegInv => TypeOK
  <2> SUFFICES ASSUME Inv, Counted, SegInv PROVE TypeOK
    OBVIOUS
  <2>1. lines \in 0 .. MaxLines /\ prev \in 0 .. MaxLines
    BY BoundsAssumption DEF Inv, Ordered, Counted
  <2>2. best \in [from : 0 .. Len(energy), to : 0 .. Len(energy)]
    <3>1. Behind \in 0 .. Len(energy)
      BY DEF SegInv, Searched, Behind
    <3> QED
      BY <3>1 DEF SegInv, IsBest, Searched
  <2> QED
    BY <2>1, <2>2 DEF TypeOK, Inv, Nested, Ordered, Record, Counted, SegInv, Searched
<1> QED
  BY <1>1, Invariance, Searching, PTL

(* Whatever rows have energy, the segment is a longest run of rows of the  *)
(* finger with its margins.                                                *)
THEOREM Longest == Spec => []SegmentIsLongest
<1>1. SegInv => SegmentIsLongest
  <2> SUFFICES ASSUME SegInv, loop = "done", ~\A k \in 1 .. Len(energy) : ~energy[k]
               PROVE  \E first \in 1 .. Len(energy) : \E last \in first .. Len(energy) :
                        /\ IsLongestRun(first, last)
                        /\ seg.from = (IF first - 1 > Margin THEN first - 1 - Margin ELSE 0)
                        /\ seg.to = (IF last + Margin < Len(energy) THEN last + Margin ELSE Len(energy))
    BY DEF SegmentIsLongest
  <2>1. IsBest(best, Len(energy)) /\ Len(energy) \in Nat
    BY DEF SegInv, Behind, Searched
  <2>2. \A k \in 1 .. Len(energy) : on[k] <=> OfFinger(k)
    BY DEF SegInv, Closed
  <2>3. \A first, last \in 1 .. Len(energy) : IsRun(first, last) <=> AllOn(first, last)
    BY <2>1, <2>2 DEF IsRun, AllOn
  <2>4. best.from < best.to
    <3>1. PICK k \in 1 .. Len(energy) : energy[k]
      OBVIOUS
    <3>2. on[k]
      BY <2>2, <3>1 DEF OfFinger
    <3>3. AllOn(k, k)
      BY <2>1, <3>2 DEF AllOn
    <3>4. k - k < best.to - best.from
      BY <2>1, <3>3 DEF IsBest
    <3> QED
      BY <2>1, <3>4 DEF IsBest
  <2> DEFINE first == best.from + 1
  <2>5. first \in 1 .. Len(energy) /\ best.to \in first .. Len(energy) /\ best.to \in 1 .. Len(energy)
    BY <2>1, <2>4 DEF IsBest
  <2>6. IsRun(first, best.to)
    BY <2>1, <2>3, <2>5 DEF IsBest
  <2>7. ASSUME NEW k \in 1 .. Len(energy), NEW l \in k .. Len(energy), IsRun(k, l)
        PROVE  l - k <= best.to - first
    <3>1. l \in 1 .. Len(energy) /\ AllOn(k, l)
      BY <2>1, <2>3, <2>7
    <3>2. l - k < best.to - best.from
      BY <2>1, <3>1 DEF IsBest
    <3> QED
      BY <2>1, <3>1, <3>2 DEF IsBest
  <2>8. IsLongestRun(first, best.to)
    BY <2>6, <2>7 DEF IsLongestRun
  <2>9. first - 1 = best.from
    BY <2>1 DEF IsBest
  <2>10. /\ seg.from = (IF first - 1 > Margin THEN first - 1 - Margin ELSE 0)
         /\ seg.to = (IF best.to + Margin < Len(energy) THEN best.to + Margin ELSE Len(energy))
    BY <2>9 DEF seg
  <2> HIDE DEF first
  <2> QED
    BY <2>5, <2>8, <2>10
<1> QED
  BY <1>1, Searching, PTL

-----------------------------------------------------------------------------
(* The rounds best_segment() has before it, at most: a round moves j or    *)
(* moves i up to j, and the second loop begins again at the first row.     *)
Rounds ==
  LET n == Len(energy)
      after == CASE loop = "gaps" -> n + n + 1 + n + n + 1
                 [] loop = "runs" -> n + n + 1
                 [] OTHER -> 0
  IN after + (n + 1 - i) + (n + 1 - j)

(* The search for the segment comes to an end after some rounds, however   *)
(* many rows there are: what the tool's own end (`ToolEnds') rests on.     *)
THEOREM SearchEnds == Spec => [](Rounds \in Nat) /\ [][Segments => Rounds' < Rounds]_vars
<1>1. SegInv => Rounds \in Nat
  BY DEF SegInv, Searched, Rounds
<1>2. SegInv /\ [Next]_vars => [Segments => Rounds' < Rounds]_vars
  <2> SUFFICES ASSUME Searched, Scan PROVE Rounds' < Rounds
    BY DEF SegInv, Segments
  <2>1. energy' = energy
    BY KeepsSearched
  <2>2. CASE Skip
    BY <2>1, <2>2 DEF Skip, Searched, Rounds
  <2>3. CASE Collect
    BY <2>1, <2>3 DEF Collect, Searched, Rounds
  <2>4. CASE CloseGap
    BY <2>1, <2>4 DEF CloseGap, Searched, Rounds
  <2>5. CASE TakeRun
    BY <2>1, <2>5 DEF TakeRun, Searched, Rounds
  <2>6. CASE LoopEnds
    BY <2>1, <2>6 DEF LoopEnds, Searched, Rounds
  <2> QED
    BY <2>2, <2>3, <2>4, <2>5, <2>6 DEF Scan
<1> QED
  BY <1>1, <1>2, Searching, PTL DEF Spec

(* How far the tool is from the end of an attempt.                         *)
Phase(m) ==
  IF m = "run" THEN 6 ELSE IF m = "pkill" THEN 5 ELSE IF m = "size" THEN 4 ELSE
  IF m = "load" THEN 3 ELSE IF m = "search" THEN 2 ELSE IF m = "harvest" THEN 1 ELSE 0

Remaining == VFS_ATTEMPTS - attempt
LexOK == Remaining \in Nat /\ Phase(main) \in Nat /\ Rounds \in Nat

(* In this order, from left to right, something becomes less with every    *)
(* step of the tool, and nothing moves when others do.                     *)
LexShrinks ==
  /\ Tool \/ TimedOut =>
       \/ Remaining' < Remaining
       \/ Remaining' = Remaining /\ Phase(main') < Phase(main)
       \/ Remaining' = Remaining /\ main' = main /\ Rounds' < Rounds
  /\ Harvester \/ HpTraps => UNCHANGED <<Remaining, main, Rounds>>

(* The tool gets nearer to its end with every step, by a lexicographic     *)
(* order on numbers of attempts, phases of an attempt and rounds of the    *)
(* search, whatever gdb and HP's binary do and however long a swipe is.    *)
(* ToolEnds rests on this and on the timeout.                              *)
THEOREM ToolProgresses == Spec => []LexOK /\ [][LexShrinks]_vars
<1> USE DEF Phase
<1>1. TypeOK => Remaining \in Nat /\ attempt \in Nat
  BY BoundsAssumption DEF TypeOK, Remaining
<1>2. SegInv => Rounds \in Nat
  BY DEF SegInv, Searched, Rounds
<1>3. TypeOK /\ SegInv => LexOK
  BY <1>1, <1>2 DEF LexOK
<1>4. ASSUME TypeOK, Tool \/ TimedOut, ~Segments
      PROVE  \/ Remaining' < Remaining
             \/ Remaining' = Remaining /\ Phase(main') < Phase(main)
  <2>1. CASE Launch
    BY <1>1, <1>4, <2>1, BoundsAssumption DEF Launch, Again, Count, Remaining
  <2>2. CASE ~Launch
    <3>1. attempt' = attempt
      BY <1>4, <2>2 DEF Tool, GiveUp, GdbReturned, Pkill, TooSmall, Load, TooFew, Search, NoFinger,
                        Report, TimedOut
    <3>2. Phase(main') < Phase(main)
      BY <1>4, <2>2 DEF Tool, GiveUp, GdbReturned, Pkill, TooSmall, Load, TooFew, Search, NoFinger,
                        Report, TimedOut
    <3> QED
      BY <3>1, <3>2 DEF Remaining
  <2> QED
    BY <2>1, <2>2
<1>5. Segments => attempt' = attempt /\ main' = main
  BY DEF Segments, attempts
<1>6. Harvester \/ HpTraps => UNCHANGED <<attempt, main, found>>
  BY DEF Harvester, UnpackLine, AppendPart, AppendRest, HpExits, HpTraps
<1>7. ASSUME TypeOK, Harvester \/ HpTraps PROVE UNCHANGED <<Remaining, main, Rounds>>
  BY <1>6, <1>7 DEF Remaining, Rounds, found
<1>8. TypeOK /\ [Next]_vars /\ [Segments => Rounds' < Rounds]_vars => [LexShrinks]_vars
  <2> SUFFICES ASSUME TypeOK, Next, ~UNCHANGED vars, Segments => Rounds' < Rounds PROVE LexShrinks
    OBVIOUS
  <2>1. CASE Segments
    BY <1>4, <1>5, <1>7, <2>1 DEF LexShrinks, Remaining
  <2>2. CASE ~Segments
    BY <1>4, <1>7, <2>2 DEF LexShrinks
  <2> QED
    BY <2>1, <2>2
<1> QED
  BY <1>3, <1>8, Typing, Searching, SearchEnds, PTL DEF Spec
=============================================================================
