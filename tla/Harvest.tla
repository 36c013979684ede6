------------------------------ MODULE Harvest -------------------------------
(***************************************************************************)
(* tools/vfs495_capture.py with runtime/harvest_lines.py and the loader of *)
(* tools/reconstruct.py: HP's binary runs under gdb, a breakpoint at the   *)
(* entry of UnpackLineRT appends the scan line before to a file, and the   *)
(* tool rebuilds the fingerprint from that file, again and again until an  *)
(* attempt has seen a finger.                                              *)
(*                                                                         *)
(* A line is its number within the attempt.  Which of the rows have ridge  *)
(* energy is left open.                                                    *)
(***************************************************************************)
EXTENDS Segment

CONSTANTS
  VFS_ATTEMPTS,   \* attempts before the tool gives up (8)
  MinRows,        \* rows below which nothing is rebuilt (200)
  MinLines,       \* rows of finger below which it is no swipe (150)
  MaxLines        \* bound: lines HP's binary unpacks in an attempt

ASSUME BoundsAssumption ==
  /\ VFS_ATTEMPTS \in Nat \ {0} /\ MinRows \in Nat \ {0}
  /\ MinLines \in Nat /\ MaxLines \in Nat

VARIABLES
  main,      \* the tool: "harvest", "run", "pkill", "size", "load", "search" (for
             \* the segment, in best_segment), "ok" or "none"
  attempt,   \* how many attempts have begun
  gdb,       \* "off", "run", "append" or "appending"
  hp,        \* does HP's binary run?
  lines,     \* calls of UnpackLineRT so far in this attempt
  prev,      \* the line whose buffer gdb has noted, 0 for None
  file,      \* lines_raw: records in order, the last of them perhaps cut short
  img        \* the rows loaded from it

attempts == <<main, attempt, gdb, hp, lines, prev, file, img>>
vars == <<main, attempt, gdb, hp, lines, prev, file, img, energy, on, loop, i, j, best>>

Init ==
  /\ main = "harvest" /\ attempt = 0
  /\ gdb = "off" /\ hp = FALSE /\ lines = 0 /\ prev = 0
  /\ file = <<>> /\ img = <<>> /\ Idle

-----------------------------------------------------------------------------
(* What the properties must notice if it went missing.                     *)

FaultyNoted == lines                     \* the line that is only being unpacked
Noted == prev

(* load(): a record that the file ends in the middle of ends the loop.     *)
FaultyWhole == Len(file)                 \* no "if i + n > len(d)"
Whole == CHOOSE n \in 0 .. Len(file) : /\ \A k \in 1 .. n : file[k].whole
                                       /\ n < Len(file) => ~file[n + 1].whole
Rows == [k \in 1 .. Whole |-> file[k].line]

FaultyLeft == hp                         \* no pkill
Left == FALSE

FaultyAgain == attempt <= VFS_ATTEMPTS   \* range(attempts + 1)
Again == attempt < VFS_ATTEMPTS

FaultyCount == attempt                   \* "while img is None"
Count == attempt + 1

-----------------------------------------------------------------------------
(* vfs495_capture.py.                                                      *)

(* harvest_lines(), up to subprocess.run; the file is emptied.             *)
Launch ==
  /\ main = "harvest" /\ Again
  /\ main' = "run" /\ attempt' = Count
  /\ gdb' = "run" /\ hp' = TRUE /\ lines' = 0 /\ prev' = 0
  /\ file' = <<>> /\ img' = <<>> /\ Begin(<<>>, "done")

GiveUp ==
  /\ main = "harvest" /\ ~Again
  /\ main' = "none"
  /\ UNCHANGED <<attempt, gdb, hp, lines, prev, file, img, found>>

GdbReturned ==
  /\ main = "run" /\ gdb = "off"
  /\ main' = "size"
  /\ UNCHANGED <<attempt, gdb, hp, lines, prev, file, img, found>>

(* TimeoutExpired: subprocess.run has killed gdb, wherever it was.         *)
TimedOut ==
  /\ main = "run" /\ gdb # "off"
  /\ main' = "pkill" /\ gdb' = "off"
  /\ UNCHANGED <<attempt, hp, lines, prev, file, img, found>>

Pkill ==
  /\ main = "pkill"
  /\ main' = "size" /\ hp' = Left
  /\ UNCHANGED <<attempt, gdb, lines, prev, file, img, found>>

(* n < 4: nothing, or less than the smallest record.                       *)
TooSmall ==
  /\ main = "size" /\ \A k \in 1 .. Len(file) : ~file[k].whole
  /\ main' = "harvest"
  /\ UNCHANGED <<attempt, gdb, hp, lines, prev, file, img, found>>

Load ==
  /\ main = "size" /\ file # <<>>
  /\ main' = "load" /\ img' = Rows
  /\ UNCHANGED <<attempt, gdb, hp, lines, prev, file, found>>

(* reconstruct() returns None: too few rows, or too few with a finger.     *)
TooFew ==
  /\ main = "load" /\ Len(img) < MinRows
  /\ main' = "harvest"
  /\ UNCHANGED <<attempt, gdb, hp, lines, prev, file, img, found>>

Search ==
  /\ main = "load" /\ Len(img) >= MinRows
  /\ main' = "search"
  /\ \E e \in Energies(Len(img)) : Begin(e, "gaps")
  /\ UNCHANGED <<attempt, gdb, hp, lines, prev, file, img>>

Segments == main = "search" /\ Scan /\ UNCHANGED attempts

Finger == seg.to - seg.from >= MinLines

NoFinger ==
  /\ main = "search" /\ loop = "done" /\ ~Finger
  /\ main' = "harvest"
  /\ UNCHANGED <<attempt, gdb, hp, lines, prev, file, img, found>>

Report ==
  /\ main = "search" /\ loop = "done" /\ Finger
  /\ main' = "ok"
  /\ UNCHANGED <<attempt, gdb, hp, lines, prev, file, img, found>>

-----------------------------------------------------------------------------
(* harvest_lines.py: BP.stop, and its append to the file, which the kernel *)
(* may cut short when gdb is killed.                                       *)

UnpackLine ==
  /\ gdb = "run" /\ hp /\ lines < MaxLines
  /\ lines' = lines + 1
  /\ IF prev = 0 THEN prev' = lines' /\ UNCHANGED gdb
                 ELSE gdb' = "append" /\ UNCHANGED prev
  /\ UNCHANGED <<main, attempt, hp, file, img, found>>

AppendPart ==
  /\ gdb = "append"
  /\ gdb' = "appending"
  /\ file' = Append(file, [line |-> Noted, whole |-> FALSE])
  /\ UNCHANGED <<main, attempt, hp, lines, prev, img, found>>

AppendRest ==
  /\ gdb = "appending"
  /\ gdb' = "run" /\ prev' = lines
  /\ file' = [file EXCEPT ![Len(file)].whole = TRUE]
  /\ UNCHANGED <<main, attempt, hp, lines, img, found>>

(* "run" returns when HP's binary has exited, and gdb quits.               *)
HpExits ==
  /\ gdb = "run" /\ hp
  /\ gdb' = "off" /\ hp' = FALSE
  /\ UNCHANGED <<main, attempt, lines, prev, file, img, found>>

(* Its tracer is gone: the next breakpoint kills HP's binary.              *)
HpTraps ==
  /\ gdb = "off" /\ hp
  /\ hp' = FALSE
  /\ UNCHANGED <<main, attempt, gdb, lines, prev, file, img, found>>

Tool ==
  \/ Launch \/ GiveUp \/ GdbReturned \/ Pkill \/ TooSmall \/ Load \/ TooFew
  \/ Search \/ Segments \/ NoFinger \/ Report
Harvester == UnpackLine \/ AppendPart \/ AppendRest \/ HpExits

Next == Tool \/ TimedOut \/ Harvester \/ HpTraps

Spec == Init /\ [][Next]_vars

(* The tool runs on, and the timeout of subprocess.run fires.              *)
FairSpec == Spec /\ WF_vars(Tool) /\ WF_vars(TimedOut)

-----------------------------------------------------------------------------
TypeOK ==
  /\ main \in {"harvest", "run", "pkill", "size", "load", "search", "ok", "none"}
  /\ attempt \in 0 .. VFS_ATTEMPTS
  /\ gdb \in {"off", "run", "append", "appending"} /\ hp \in BOOLEAN
  /\ lines \in 0 .. MaxLines /\ prev \in 0 .. MaxLines
  /\ file \in Seq([line : Nat, whole : BOOLEAN]) /\ img \in Seq(Nat)
  /\ energy = <<>> \/ energy \in Energies(Len(img))
  /\ on \in [1 .. Len(energy) -> BOOLEAN] /\ loop \in {"gaps", "runs", "done"}
  /\ i \in 1 .. Len(energy) + 1 /\ j \in i .. Len(energy) + 1
  /\ best \in [from : 0 .. Len(energy), to : 0 .. Len(energy)]

(* "partial data still usable" (vfs495_capture.py:46): what is rebuilt is  *)
(* the beginning of the swipe, line by line, each unpacked to its end,     *)
(* also when gdb was killed while it wrote.                                *)
PartialUsable ==
  main \in {"load", "search", "ok"} =>
    /\ \A k \in 1 .. Len(img) : img[k] = k
    /\ Len(img) < lines \/ img = <<>>
    /\ \A k \in 1 .. Len(img) : file[k].whole

(* "Longest finger-present run; bridge short dropouts so one print isn't   *)
(* split" (reconstruct.py:55): the segment is a longest run of rows of the *)
(* finger with its margins, and there is none only if no row has energy.   *)
SegmentIsLongest ==
  loop = "done" =>
    \/ \E first \in 1 .. Len(energy) : \E last \in first .. Len(energy) :
         /\ IsLongestRun(first, last)
         /\ seg.from = (IF first - 1 > Margin THEN first - 1 - Margin ELSE 0)
         /\ seg.to = (IF last + Margin < Len(energy) THEN last + Margin ELSE Len(energy))
    \/ \A k \in 1 .. Len(energy) : ~energy[k]

(* An attempt that is over has let go of the sensor.                       *)
SensorReleased == main \in {"harvest", "ok", "none"} => ~hp /\ gdb = "off"

(* "Exit: 0 on a good capture, 10 on no-finger/too-short"                  *)
(* (vfs495_capture.py:14): the attempts come to an end.                    *)
ToolEnds == <>(main \in {"ok", "none"})
=============================================================================
