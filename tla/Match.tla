-------------------------------- MODULE Match ---------------------------------
(***************************************************************************)
(* vfs495-match (match.py), run again and again, beside the bridge's unit. *)
(*   --capture  stops the bridge, takes swipes, starts the bridge again    *)
(*              and scores the swipes;                                     *)
(*   --enroll   makes a template from given scans and puts it in the place *)
(*              of the user's;                                             *)
(*   otherwise  the given scans are scored.                                *)
(* Scores come from libfprint's virtual_image device inside the process:   *)
(* images go in through one socket, and the scores come back as debug      *)
(* lines that a thread reads from a pipe.                                  *)
(*                                                                         *)
(* A scan is its number, swipe-1.pgm, swipe-2.pgm ...; a template file is  *)
(* absent, cut short or whole.  What --enroll has written reaches the disk *)
(* when the kernel writes it back; a power failure before that leaves the  *)
(* file there, but empty or short.  Names are taken to reach the disk in   *)
(* the order they were made: to lose the last is to lose power earlier.    *)
(***************************************************************************)
EXTENDS Naturals, Sequences, Functions

CONSTANTS
  Swipes,       \* N of --capture N
  Stages,       \* get_nr_enroll_stages(), 5
  ImageCap,     \* images sent before an enrolment from one scan is given up, 8
  EnrollCap,    \* the same for --enroll, 12
  MaxFailures   \* bound: kills, power failures and failed writes

ASSUME BoundsAssumption ==
  /\ Swipes \in Nat \ {0} /\ Stages \in Nat \ {0}
  /\ ImageCap \in Nat \ {0} /\ EnrollCap \in Nat \ {0} /\ MaxFailures \in Nat

VARIABLES
  unit,        \* is vfs495-bridge running?
  holders,     \* who drives the sensor: "bridge", "tool", "orphan"
  disk,        \* swipe-i.pgm: "none", "old" or "new", taken by this session
  path, bak,   \* the user's template and its .bak: "none", "torn" or "whole"
  tool,        \* the process of vfs495-match
  unsynced,    \* those of "path" and "bak" whose contents the disk does not have
  failures,    \* how many there were
  enrolled,    \* history: was there ever a whole template?
  stored,      \* history: one has reached the disk, and none was replaced before it had
  taken        \* history: a power failure took a template's contents

store == <<path, bak, unsynced, enrolled, stored, taken>>
sensor == <<unit, holders, disk>>
vars == <<sensor, store, tool, failures>>

Images == 1 .. Swipes

(* pc, the option given, the scans at work (files), how many swipes were   *)
(* taken, the loop variables a and b of the scoring, images sent and       *)
(* stages completed, the images in the socket, the score lines in the      *)
(* pipe, those read (_lines), the image asked for and what is reported.    *)
NoTool == [pc |-> "none", mode |-> "none", files |-> <<>>, swipe |-> 0, a |-> 0, b |-> 0,
           sent |-> 0, completed |-> 0, socket |-> <<>>, pipe |-> <<>>,
           lines |-> {}, asked |-> 0, shown |-> {}]

Init ==
  /\ unit \in BOOLEAN /\ holders = {}
  /\ disk = [i \in Images |-> "none"]
  /\ \/ path = "none" /\ enrolled = FALSE
     \/ path = "whole" /\ enrolled = TRUE
  /\ bak = "none" /\ unsynced = {} /\ stored = enrolled /\ taken = FALSE
  /\ tool = NoTool /\ failures = 0

-----------------------------------------------------------------------------
(* What the properties must notice if it went missing.                     *)

FaultyStopped == holders                 \* systemctl stop --no-block
Stopped == holders \ {"bridge"}

FaultyTaken(o) == o # "tiny"             \* the exit status is not looked at
Taken(o) == o = "scan"

FaultyInterrupted == "none"              \* an except clause, no finally
Interrupted == "abort"

FaultyWanting(n) == n <= Stages          \* one image more than there are stages
Wanting(n) == n < Stages

FaultyCapped == FALSE                    \* "keeps failing" is not noticed
Cap == IF tool.mode = "enroll" THEN EnrollCap ELSE ImageCap
Capped == tool.sent >= Cap

FaultySkipped == [tool EXCEPT !.pc = "enroll"]    \* the same scan once more
Skipped == [tool EXCEPT !.pc = "next", !.b = Len(tool.files)]

FaultyBackup == bak                      \* the old template is overwritten
Backup == IF path = "none" THEN bak ELSE path

-----------------------------------------------------------------------------
(* The command line.                                                       *)

Begin ==
  /\ tool.pc = "none"
  /\ UNCHANGED <<unit, holders, store, failures>>

BeginCapture ==
  /\ Begin
  /\ tool' = [NoTool EXCEPT !.pc = "stop", !.mode = "capture"]
  /\ disk' = [i \in Images |-> IF disk[i] = "new" THEN "old" ELSE disk[i]]

(* Scans by name, each of them MIN_ROWS rows or more.                      *)
Named == {f \in UNION {[1 .. k -> Images] : k \in Images} :
            IsInjective(f) /\ \A k \in DOMAIN f : disk[f[k]] # "none"}

BeginEnroll ==
  /\ Begin
  /\ \E f \in Named :
       tool' = [NoTool EXCEPT !.pc = "enroll", !.mode = "enroll", !.files = f]
  /\ UNCHANGED disk

(* With a --template or without.                                           *)
BeginScore ==
  /\ Begin
  /\ \E f \in Named : \E b \in {0, Len(f)} :
       tool' = [NoTool EXCEPT !.pc = "next", !.mode = "score", !.files = f, !.b = b]
  /\ UNCHANGED disk

-----------------------------------------------------------------------------
(* capture(): the bridge stops, swipe after swipe is taken, and in the     *)
(* finally clause the bridge is started.                                   *)

StopBridge ==
  /\ tool.pc = "stop"
  /\ unit' = FALSE /\ holders' = Stopped
  /\ tool' = [tool EXCEPT !.pc = "mkdir"]
  /\ UNCHANGED <<disk, store, failures>>

MakeDir ==
  /\ tool.pc = "mkdir"
  /\ tool' = [tool EXCEPT !.pc = "ready"]
  /\ UNCHANGED <<sensor, store, failures>>

(* os.makedirs raises: the try has not been entered yet.                   *)
MakeDirFails ==
  /\ tool.pc = "mkdir"
  /\ tool' = NoTool
  /\ UNCHANGED <<sensor, store, failures>>

Swipe ==
  /\ tool.pc = "ready" /\ tool.swipe < Swipes
  /\ tool' = [tool EXCEPT !.pc = "wait", !.swipe = @ + 1]
  /\ holders' = holders \cup {"tool"}
  /\ UNCHANGED <<unit, disk, store, failures>>

(* capture.py is over: no finger (exit status 10), a tiny scan, which is   *)
(* removed, or a scan.                                                     *)
SwipeOver ==
  /\ tool.pc = "wait"
  /\ holders' = holders \ {"tool"}
  /\ \E o \in {"nothing", "tiny", "scan"} :
       /\ disk' = [disk EXCEPT ![tool.swipe] =
                     IF o = "nothing" THEN @ ELSE IF o = "tiny" THEN "none" ELSE "new"]
       /\ tool' = [tool EXCEPT !.pc = "ready",
                               !.files = IF Taken(o) THEN Append(@, tool.swipe) ELSE @]
  /\ UNCHANGED <<unit, store, failures>>

(* Ctrl-C, which the capture gets, too.                                    *)
CtrlC ==
  /\ tool.pc \in {"ready", "wait"}
  /\ holders' = holders \ {"tool"}
  /\ tool' = IF Interrupted = "none" THEN NoTool ELSE [tool EXCEPT !.pc = Interrupted]
  /\ UNCHANGED <<unit, disk, store, failures>>

(* With no scan to score the program is over, else the scans are scored    *)
(* against the user's template (or its .bak), if there is one, and then    *)
(* one another.                                                            *)
StartBridge ==
  /\ \/ tool.pc = "ready" /\ tool.swipe = Swipes
     \/ tool.pc = "abort"
  /\ unit' = TRUE
  /\ tool' = IF tool.pc = "abort" \/ tool.files = <<>> THEN NoTool
             ELSE [tool EXCEPT !.pc = "next",
                               !.b = IF "whole" \in {path, bak} THEN 0 ELSE Len(tool.files)]
  /\ UNCHANGED <<holders, disk, store, failures>>

-----------------------------------------------------------------------------
(* The matcher: send_image(), the device, and the thread that reads what   *)
(* the device says.                                                        *)

Send(image) == Append(tool.socket, image)

(* verify(): what was read before is forgotten, the image is sent.         *)
Verify ==
  /\ tool.pc = "verify"
  /\ tool' = [tool EXCEPT !.pc = "verifying", !.lines = {}, !.asked = tool.files[tool.b],
                          !.socket = Send(tool.files[tool.b])]
  /\ UNCHANGED <<sensor, store, failures>>

(* The device takes an image and scores it, or cannot use it (GLib.Error). *)
Verified ==
  /\ tool.pc = "verifying" /\ tool.socket # <<>>
  /\ \/ tool' = [tool EXCEPT !.pc = "settle", !.socket = Tail(@),
                             !.pipe = Append(@, Head(tool.socket))]
     \/ tool' = [tool EXCEPT !.pc = "next", !.socket = Tail(@), !.shown = {}]
  /\ UNCHANGED <<sensor, store, failures>>

ReadLine ==
  /\ tool.pipe # <<>>
  /\ tool' = [tool EXCEPT !.pipe = Tail(@), !.lines = @ \cup {Head(tool.pipe)}]
  /\ UNCHANGED <<sensor, store, failures>>

(* The 50 ms are taken to be enough for the thread to empty the pipe.      *)
Settled == tool.pipe = <<>>

ReadScores ==
  /\ tool.pc = "settle" /\ Settled
  /\ tool' = [tool EXCEPT !.pc = "next", !.shown = tool.lines]
  /\ UNCHANGED <<sensor, store, failures>>

(* enroll_from_image() and enroll_from_images(): the first image is sent.  *)
Enroll ==
  /\ tool.pc = "enroll"
  /\ LET first == IF tool.mode = "enroll" THEN tool.files[1] ELSE tool.files[tool.a]
     IN tool' = [tool EXCEPT !.pc = "enrolling", !.sent = 1, !.completed = 0,
                             !.shown = {}, !.asked = first, !.socket = Send(first)]
  /\ UNCHANGED <<sensor, store, failures>>

(* The image after this one: the same, or the given ones in turn.          *)
NextImage == IF tool.mode = "enroll"
               THEN tool.files[(tool.sent % Len(tool.files)) + 1] ELSE tool.files[tool.a]

(* The device takes an image, which completes a stage or does not, and     *)
(* calls progress(): the next image, as long as a stage is left.           *)
Progress ==
  /\ tool.pc = "enrolling" /\ tool.socket # <<>> /\ ~Capped
  /\ \E n \in {tool.completed, tool.completed + 1} :
       LET after == IF Wanting(n)
                      THEN [tool EXCEPT !.sent = @ + 1, !.socket = Append(Tail(@), NextImage)]
                      ELSE [tool EXCEPT !.socket = Tail(@)]
           enrolling == IF n < Stages THEN "enrolling"
                        ELSE IF tool.mode = "enroll" THEN "replace" ELSE "next"
       IN tool' = [after EXCEPT !.completed = n, !.pc = enrolling]
  /\ UNCHANGED <<sensor, store, failures>>

(* Too many images: progress() cancels, also when this was the image that  *)
(* completes the last stage.  --enroll ends here, the scoring goes on.     *)
Cancelled ==
  /\ tool.pc = "enrolling" /\ tool.socket # <<>> /\ Capped
  /\ tool' = IF tool.mode = "enroll" THEN NoTool ELSE [Skipped EXCEPT !.socket = Tail(@)]
  /\ UNCHANGED <<sensor, store, failures>>

-----------------------------------------------------------------------------
(* The loops of main() and of install_template(): every scan against the   *)
(* template, and in turn each scan enrolled and the others verified.       *)

NextScan ==
  /\ tool.pc = "next" /\ tool.b < Len(tool.files)
  /\ tool' = [tool EXCEPT !.b = @ + 1, !.shown = {},
                          !.pc = IF tool.b + 1 = tool.a THEN "next" ELSE "verify"]
  /\ UNCHANGED <<sensor, store, failures>>

NextEnrolment ==
  /\ tool.pc = "next" /\ tool.b = Len(tool.files)
  /\ tool.mode # "enroll" /\ Len(tool.files) >= 2 /\ tool.a < Len(tool.files)
  /\ tool' = [tool EXCEPT !.pc = "enroll", !.a = @ + 1, !.b = 0]
  /\ UNCHANGED <<sensor, store, failures>>

(* The device is closed; after --enroll fprintd is restarted.              *)
Close ==
  /\ tool.pc = "next" /\ tool.b = Len(tool.files)
  /\ tool.mode = "enroll" \/ Len(tool.files) < 2 \/ tool.a = Len(tool.files)
  /\ tool' = NoTool
  /\ UNCHANGED <<sensor, store, failures>>

-----------------------------------------------------------------------------
(* install_template(): the old template is moved away, a new file is       *)
(* opened, written and closed, and nothing waits for the disk.             *)

Replace ==
  /\ tool.pc = "replace"
  /\ path' = "none" /\ bak' = Backup
  /\ unsynced' = IF path = "none" THEN unsynced
                 ELSE IF "path" \in unsynced THEN {"bak"} ELSE {}
  /\ stored' = (stored /\ "path" \notin unsynced)
  /\ tool' = [tool EXCEPT !.pc = "open"]
  /\ UNCHANGED <<sensor, enrolled, taken, failures>>

OpenNew ==
  /\ tool.pc = "open"
  /\ path' = "torn"
  /\ tool' = [tool EXCEPT !.pc = "write"]
  /\ UNCHANGED <<sensor, bak, unsynced, enrolled, stored, taken, failures>>

WriteNew ==
  /\ tool.pc = "write"
  /\ path' = "whole" /\ unsynced' = unsynced \cup {"path"} /\ enrolled' = TRUE
  /\ tool' = [tool EXCEPT !.pc = "next", !.b = 0]
  /\ UNCHANGED <<sensor, bak, stored, taken, failures>>

WriteFails ==
  /\ tool.pc \in {"open", "write"} /\ failures < MaxFailures
  /\ failures' = failures + 1
  /\ tool' = NoTool
  /\ UNCHANGED <<sensor, store>>

-----------------------------------------------------------------------------
(* The surroundings.                                                       *)

BridgeCaptures ==
  /\ unit /\ "bridge" \notin holders
  /\ holders' = holders \cup {"bridge"}
  /\ UNCHANGED <<unit, disk, store, tool, failures>>

BridgeReleases ==
  /\ "bridge" \in holders
  /\ holders' = holders \ {"bridge"}
  /\ UNCHANGED <<unit, disk, store, tool, failures>>

(* kill_capture of the bridge: pkill by name hits every capture there is.  *)
BridgeCancels ==
  /\ "bridge" \in holders
  /\ holders' = {}
  /\ UNCHANGED <<unit, disk, store, tool, failures>>

(* A signal Python does not catch: no finally clause, and the capture goes *)
(* on alone.                                                               *)
Killed ==
  /\ tool.pc # "none" /\ failures < MaxFailures
  /\ failures' = failures + 1
  /\ tool' = NoTool
  /\ holders' = IF "tool" \in holders THEN (holders \ {"tool"}) \cup {"orphan"} ELSE holders
  /\ UNCHANGED <<unit, disk, store>>

OrphanEnds ==
  /\ "orphan" \in holders
  /\ holders' = holders \ {"orphan"}
  /\ UNCHANGED <<unit, disk, store, tool, failures>>

(* The kernel writes a template, or its backup, back.                      *)
Writeback ==
  \E f \in unsynced :
    /\ unsynced' = unsynced \ {f} /\ stored' = TRUE
    /\ UNCHANGED <<sensor, path, bak, enrolled, taken, tool, failures>>

(* /run, where the swipes are, is empty after a boot, and the unit starts. *)
(* The contents the disk does not have may be lost.                        *)
PowerFails ==
  /\ failures < MaxFailures
  /\ failures' = failures + 1
  /\ tool' = NoTool /\ holders' = {} /\ unit' = TRUE
  /\ disk' = [i \in Images |-> "none"]
  /\ \E lost \in SUBSET unsynced :
       /\ path' = IF "path" \in lost THEN "torn" ELSE path
       /\ bak' = IF "bak" \in lost THEN "torn" ELSE bak
       /\ unsynced' = {} /\ taken' = (taken \/ lost # {})
  /\ UNCHANGED <<enrolled, stored>>

-----------------------------------------------------------------------------
Capturing == StopBridge \/ MakeDir \/ MakeDirFails \/ Swipe \/ SwipeOver \/ StartBridge
Matching == Verify \/ Verified \/ ReadLine \/ ReadScores \/ Enroll \/ Progress \/ Cancelled
Scoring == NextScan \/ NextEnrolment \/ Close
Installing == Replace \/ OpenNew \/ WriteNew

Next ==
  \/ BeginCapture \/ BeginEnroll \/ BeginScore
  \/ Capturing \/ CtrlC \/ Matching \/ Scoring \/ Installing
  \/ WriteFails \/ Killed \/ OrphanEnds \/ Writeback \/ PowerFails
  \/ BridgeCaptures \/ BridgeReleases \/ BridgeCancels

Spec == Init /\ [][Next]_vars

(* The program runs on once it has begun, the device answers an image, the *)
(* reader thread reads and capture.py ends.                                *)
FairSpec == Spec /\ WF_vars(Capturing \/ Matching \/ Scoring \/ Installing)

-----------------------------------------------------------------------------
Tool == [pc : {"none", "stop", "mkdir", "ready", "wait", "abort", "next", "verify", "verifying",
               "settle", "enroll", "enrolling", "replace", "open", "write"},
         mode : {"none", "capture", "enroll", "score"}, files : Seq(Images),
         swipe : 0 .. Swipes, a : 0 .. Swipes, b : 0 .. Swipes, sent : Nat,
         completed : 0 .. Stages, socket : Seq(Images), pipe : Seq(Images),
         lines : SUBSET Images, asked : {0} \cup Images, shown : SUBSET Images]

(* Every variable keeps its type, and no more images are sent than the caps of *)
(* progress() allow.                                                       *)
TypeOK ==
  /\ unit \in BOOLEAN /\ holders \subseteq {"bridge", "tool", "orphan"}
  /\ disk \in [Images -> {"none", "old", "new"}]
  /\ path \in {"none", "torn", "whole"} /\ bak \in {"none", "torn", "whole"}
  /\ tool \in Tool /\ tool.sent <= Cap
  /\ unsynced \subseteq {"path", "bak"} /\ failures \in 0 .. MaxFailures
  /\ enrolled \in BOOLEAN /\ stored \in BOOLEAN /\ taken \in BOOLEAN

(* While vfs495-match takes a swipe the bridge is off the sensor, whatever *)
(* the bridge was doing when it was stopped and however the session before *)
(* this one ended.                                                         *)
SensorIsOurs == tool.pc = "wait" => ~unit /\ "bridge" \notin holders

(* capture()'s finally clause: however the swipes end, by themselves or by *)
(* Ctrl-C, the bridge runs again, unless the program is killed.            *)
BridgeComesBack ==
  \A f \in 0 .. MaxFailures :
    tool.pc \in {"ready", "wait"} /\ failures = f ~> unit \/ failures # f

(* --capture scores the swipes it has taken itself: a swipe that was       *)
(* missed never brings in the file of that name which an earlier session   *)
(* has left in the same directory.                                         *)
ScoredAreNew ==
  tool.mode = "capture" => \A k \in DOMAIN tool.files : disk[tool.files[k]] = "new"

(* "Returns (matched, best_score)" (match.py:137): the score shown for an  *)
(* image is that image's.  No image is left over from the operation before *)
(* in the one socket, and no score line in the one pipe.                   *)
ScoreIsOwn == tool.shown \subseteq {tool.asked}

(* Once a finger is enrolled, one failure does not cost the user both the  *)
(* template and its backup, at whatever step of a replacement it comes and *)
(* whatever is enrolled after it.  The exception is a power failure that   *)
(* takes contents while no template has reached the disk: soon after the   *)
(* first enrolment, or after two in a row, the second of which has moved a *)
(* template that was not on the disk yet over the one that was.            *)
TemplateSurvives ==
  enrolled /\ failures <= 1 /\ tool.pc = "none" /\ (stored \/ ~taken)
    => "whole" \in {path, bak}

(* A run of the program ends, also when every image fails to enrol.        *)
RunEnds == tool.pc # "none" ~> tool.pc = "none"
=============================================================================
