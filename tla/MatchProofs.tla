----------------------------- MODULE MatchProofs ------------------------------
(***************************************************************************)
(* Theorems about vfs495-match, for any number of swipes, stages and       *)
(* sessions: the bridge is off the sensor while it takes a swipe, a        *)
(* template survives one failure, what is scored and shown is this         *)
(* session's and this image's, and every statement takes a run nearer to   *)
(* its end.                                                                *)
(***************************************************************************)
EXTENDS Match, TLAPS

(* What a step needs to know of the process's memory: it has a pc.         *)
HasPC == "pc" \in DOMAIN tool /\ tool = [x \in DOMAIN tool |-> tool[x]]

(* The bridge holds the sensor only while the unit runs, and the unit is   *)
(* down from the stop of the bridge to the finally clause.                 *)
BridgeIsDown == {"mkdir", "ready", "wait", "abort"}
SensorInv ==
  /\ "bridge" \in holders => unit
  /\ tool.pc \in BridgeIsDown => ~unit

(* The template is whole as long as nothing has failed, or else it is in   *)
(* the backup while a new one is written; and until something fails one of *)
(* the two is whole on the disk, once one has been and none was replaced   *)
(* before it was.  After one failure one of the two is whole, unless a new *)
(* one is being written.                                                   *)
Writing == {"open", "write"}
OnDisk == \/ path = "whole" /\ "path" \notin unsynced
          \/ bak = "whole" /\ "bak" \notin unsynced
DiskInv ==
  /\ unsynced \subseteq {"path", "bak"}
  /\ "path" \in unsynced => path = "whole"
  /\ "bak" \in unsynced => bak = "whole"
  /\ stored \/ unsynced # {} => enrolled
  /\ tool.pc \in Writing => path # "whole"
StoreInv ==
  /\ failures \in Nat
  /\ taken => failures # 0
  /\ enrolled /\ failures = 0 /\ tool.pc \notin Writing => path = "whole"
  /\ enrolled /\ failures = 0 /\ tool.pc \in Writing => bak = "whole"
  /\ stored /\ failures = 0 => OnDisk
  /\ enrolled /\ failures <= 1 /\ tool.pc \notin Writing /\ (stored \/ ~taken)
       => "whole" \in {path, bak}

-----------------------------------------------------------------------------
(* What a step does to pc, as far as the two invariants care.  Most steps  *)
(* leave the store alone and neither begin nor end the writing of a        *)
(* template; the rest is listed.                                           *)
Calm == /\ UNCHANGED <<store, failures>>
        /\ (tool'.pc \in Writing <=> tool.pc \in Writing)
Apart == /\ UNCHANGED <<unit, holders>>
         /\ tool'.pc \in BridgeIsDown => tool.pc \in BridgeIsDown

LEMMA CapturingSteps ==
  ASSUME HasPC, Capturing
  PROVE  HasPC' /\ Calm
<1> USE DEF HasPC, NoTool, Calm, Writing
<1>1. CASE StopBridge
  BY <1>1 DEF StopBridge
<1>2. CASE MakeDir
  BY <1>2 DEF MakeDir
<1>3. CASE MakeDirFails
  BY <1>3 DEF MakeDirFails
<1>4. CASE Swipe
  BY <1>4 DEF Swipe
<1>5. CASE SwipeOver
  <2>1. PICK o : tool' = [tool EXCEPT !.pc = "ready",
                            !.files = IF Taken(o) THEN Append(@, tool.swipe) ELSE @]
    BY <1>5 DEF SwipeOver
  <2>2. tool.pc = "wait" /\ UNCHANGED <<unit, store, failures>>
    BY <1>5 DEF SwipeOver
  <2> QED
    BY <2>1, <2>2
<1>6. CASE StartBridge
  BY <1>6 DEF StartBridge
<1> QED
  BY <1>1, <1>2, <1>3, <1>4, <1>5, <1>6 DEF Capturing

LEMMA MatchingSteps ==
  ASSUME HasPC, Matching
  PROVE  HasPC' /\ Calm /\ Apart
<1> USE DEF HasPC, NoTool, Calm, Apart, Writing, BridgeIsDown, sensor
<1>1. CASE Verify
  BY <1>1 DEF Verify
<1>2. CASE Verified
  BY <1>2 DEF Verified
<1>3. CASE ReadLine
  BY <1>3 DEF ReadLine
<1>4. CASE ReadScores
  BY <1>4 DEF ReadScores
<1>5. CASE Enroll
  BY <1>5 DEF Enroll
<1>6. CASE Progress
  <2>1. tool.pc = "enrolling" /\ UNCHANGED <<sensor, store, failures>>
    BY <1>6 DEF Progress
  <2>2. PICK n : LET after == IF Wanting(n)
                       THEN [tool EXCEPT !.sent = @ + 1, !.socket = Append(Tail(@), NextImage)]
                       ELSE [tool EXCEPT !.socket = Tail(@)]
                     enrolling == IF n < Stages THEN "enrolling"
                                  ELSE IF tool.mode = "enroll" THEN "replace" ELSE "next"
                 IN tool' = [after EXCEPT !.completed = n, !.pc = enrolling]
    BY <1>6 DEF Progress
  <2>3. HasPC' /\ tool'.pc \in {"enrolling", "replace", "next"}
    <3>1. CASE Wanting(n)
      BY <2>2, <3>1
    <3>2. CASE ~Wanting(n)
      BY <2>2, <3>2
    <3> QED
      BY <3>1, <3>2
  <2> QED
    BY <2>1, <2>3
<1>7. CASE Cancelled
  BY <1>7 DEF Cancelled, Skipped
<1> QED
  BY <1>1, <1>2, <1>3, <1>4, <1>5, <1>6, <1>7 DEF Matching

LEMMA ScoringSteps ==
  ASSUME HasPC, BeginCapture \/ BeginEnroll \/ BeginScore \/ Scoring
  PROVE  HasPC' /\ Calm /\ Apart
<1> USE DEF HasPC, NoTool, Calm, Apart, Writing, BridgeIsDown, sensor
<1>1. CASE BeginCapture
  BY <1>1 DEF BeginCapture, Begin
<1>2. CASE BeginEnroll
  BY <1>2 DEF BeginEnroll, Begin
<1>3. CASE BeginScore
  BY <1>3 DEF BeginScore, Begin
<1>4. CASE NextScan
  BY <1>4 DEF NextScan
<1>5. CASE NextEnrolment
  BY <1>5 DEF NextEnrolment
<1>6. CASE Close
  BY <1>6 DEF Close
<1> QED
  BY <1>1, <1>2, <1>3, <1>4, <1>5, <1>6 DEF Scoring

LEMMA InstallingSteps ==
  ASSUME HasPC, Installing \/ WriteFails
  PROVE  HasPC' /\ Apart
<1> USE DEF HasPC, NoTool, Apart, BridgeIsDown, sensor
<1>1. CASE Replace
  BY <1>1 DEF Replace
<1>2. CASE OpenNew
  BY <1>2 DEF OpenNew
<1>3. CASE WriteNew
  BY <1>3 DEF WriteNew
<1>4. CASE WriteFails
  BY <1>4 DEF WriteFails
<1> QED
  BY <1>1, <1>2, <1>3, <1>4 DEF Installing

LEMMA BridgeSteps ==
  ASSUME OrphanEnds \/ BridgeCaptures \/ BridgeReleases \/ BridgeCancels
  PROVE  UNCHANGED <<unit, tool, store, failures>>
BY DEF OrphanEnds, BridgeCaptures, BridgeReleases, BridgeCancels

(* What the kernel writes back becomes stored, and nothing else changes.   *)
LEMMA WritebackSteps ==
  ASSUME Writeback
  PROVE  /\ UNCHANGED <<sensor, path, bak, enrolled, taken, tool, failures>>
         /\ stored' = TRUE /\ unsynced' \subseteq unsynced
         /\ \E f \in unsynced : f \notin unsynced'
BY DEF Writeback

-----------------------------------------------------------------------------
(* The process has its pc throughout.                                      *)
LEMMA Shape == Spec => []HasPC
<1>1. Init => HasPC
  BY DEF Init, HasPC, NoTool
<1>2. HasPC /\ [Next]_vars => HasPC'
  <2> SUFFICES ASSUME HasPC, [Next]_vars PROVE HasPC'
    OBVIOUS
  <2>1. CASE Capturing
    BY <2>1, CapturingSteps
  <2>2. CASE Matching
    BY <2>2, MatchingSteps
  <2>3. CASE BeginCapture \/ BeginEnroll \/ BeginScore \/ Scoring
    BY <2>3, ScoringSteps
  <2>4. CASE Installing \/ WriteFails
    BY <2>4, InstallingSteps
  <2>5. CASE CtrlC
    BY <2>5 DEF CtrlC, HasPC, NoTool
  <2>6. CASE Killed \/ PowerFails
    BY <2>6 DEF Killed, PowerFails, HasPC, NoTool
  <2>7. CASE OrphanEnds \/ BridgeCaptures \/ BridgeReleases \/ BridgeCancels
    BY <2>7, BridgeSteps DEF HasPC
  <2>8. CASE Writeback
    BY <2>8, WritebackSteps DEF HasPC
  <2>9. CASE UNCHANGED vars
    BY <2>9 DEF vars, HasPC
  <2> QED
    BY <2>1, <2>2, <2>3, <2>4, <2>5, <2>6, <2>7, <2>8, <2>9 DEF Next
<1> QED
  BY <1>1, <1>2, PTL DEF Spec

-----------------------------------------------------------------------------
(* The sensor is vfs495-match's own while it takes a swipe, for any number *)
(* of sessions, kills and power failures.                                  *)
THEOREM Exclusion == Spec => []SensorIsOurs
<1>1. Init => SensorInv
  BY DEF Init, SensorInv, BridgeIsDown, NoTool
<1>2. HasPC /\ SensorInv /\ [Next]_vars => SensorInv'
  <2> SUFFICES ASSUME HasPC, SensorInv, [Next]_vars PROVE SensorInv'
    OBVIOUS
  <2> USE DEF HasPC, SensorInv, BridgeIsDown, NoTool, Apart
  <2>1. CASE StopBridge
    BY <2>1 DEF StopBridge, Stopped
  <2>2. CASE MakeDir \/ MakeDirFails
    BY <2>2 DEF MakeDir, MakeDirFails, sensor
  <2>3. CASE Swipe
    BY <2>3 DEF Swipe
  <2>4. CASE SwipeOver
    <3>1. PICK o : tool' = [tool EXCEPT !.pc = "ready",
                              !.files = IF Taken(o) THEN Append(@, tool.swipe) ELSE @]
      BY <2>4 DEF SwipeOver
    <3>2. tool.pc = "wait" /\ holders' = holders \ {"tool"} /\ UNCHANGED unit
      BY <2>4 DEF SwipeOver
    <3> QED
      BY <3>1, <3>2
  <2>5. CASE CtrlC
    BY <2>5 DEF CtrlC
  <2>6. CASE StartBridge
    BY <2>6 DEF StartBridge
  <2>7. CASE Matching
    BY <2>7, MatchingSteps
  <2>8. CASE BeginCapture \/ BeginEnroll \/ BeginScore \/ Scoring
    BY <2>8, ScoringSteps
  <2>9. CASE Installing \/ WriteFails
    BY <2>9, InstallingSteps
  <2>10. CASE Killed \/ PowerFails
    BY <2>10 DEF Killed, PowerFails
  <2>11. CASE OrphanEnds \/ BridgeCaptures \/ BridgeReleases \/ BridgeCancels
    BY <2>11 DEF OrphanEnds, BridgeCaptures, BridgeReleases, BridgeCancels
  <2>12. CASE Writeback
    BY <2>12, WritebackSteps DEF sensor
  <2>13. CASE UNCHANGED vars
    BY <2>13 DEF vars, sensor
  <2> QED
    BY <2>1, <2>2, <2>3, <2>4, <2>5, <2>6, <2>7, <2>8, <2>9, <2>10, <2>11, <2>12, <2>13
       DEF Next, Capturing
<1>3. SensorInv => SensorIsOurs
  BY DEF SensorInv, BridgeIsDown, SensorIsOurs
<1> QED
  BY <1>1, <1>2, <1>3, Shape, PTL DEF Spec

-----------------------------------------------------------------------------
(* A finger that was enrolled survives one failure at whatever step, for   *)
(* any number of enrolments before and after it; a power failure, if a     *)
(* template had reached the disk and none was replaced before it had.      *)
THEOREM Survival == Spec => []TemplateSurvives
<1>1. Init => DiskInv /\ StoreInv
  BY DEF Init, DiskInv, StoreInv, OnDisk, Writing, NoTool
<1>2. HasPC /\ DiskInv /\ StoreInv /\ [Next]_vars => DiskInv' /\ StoreInv'
  <2> SUFFICES ASSUME HasPC, DiskInv, StoreInv, [Next]_vars PROVE DiskInv' /\ StoreInv'
    OBVIOUS
  <2>1. CASE Calm
    BY <2>1 DEF Calm, DiskInv, StoreInv, OnDisk, store
  <2>2. CASE Replace
    <3>1. /\ tool'.pc = "open" /\ path' = "none" /\ tool.pc \notin Writing
          /\ bak' = IF path = "none" THEN bak ELSE path
          /\ unsynced' = IF path = "none" THEN unsynced
                         ELSE IF "path" \in unsynced THEN {"bak"} ELSE {}
          /\ stored' = (stored /\ "path" \notin unsynced)
          /\ UNCHANGED <<enrolled, taken, failures>>
      BY <2>2 DEF Replace, Backup, HasPC, Writing
    <3>2. DiskInv'
      BY <3>1 DEF DiskInv, Writing
    <3>3. StoreInv'
      BY <3>1 DEF DiskInv, StoreInv, OnDisk, Writing
    <3> QED
      BY <3>2, <3>3
  <2>3. CASE OpenNew
    BY <2>3 DEF OpenNew, HasPC, DiskInv, StoreInv, OnDisk, Writing
  <2>4. CASE WriteNew
    BY <2>4 DEF WriteNew, HasPC, DiskInv, StoreInv, OnDisk, Writing
  <2>5. CASE WriteFails \/ Killed
    <3>1. failures' = failures + 1 /\ tool'.pc = "none" /\ UNCHANGED store
      BY <2>5 DEF WriteFails, Killed, NoTool
    <3>2. DiskInv'
      BY <3>1 DEF store, DiskInv, Writing
    <3>3. failures' # 0 /\ failures' \in Nat /\ (failures' <= 1 => failures = 0)
      BY <3>1 DEF StoreInv
    <3>4. enrolled /\ failures = 0 => "whole" \in {path, bak}
      BY DEF StoreInv
    <3> QED
      BY <3>1, <3>2, <3>3, <3>4 DEF store, StoreInv
  <2>6. CASE Writeback
    <3>1. \E f \in {"path", "bak"} : f \in unsynced /\ f \notin unsynced'
      BY <2>6, WritebackSteps DEF DiskInv
    <3>2. /\ UNCHANGED <<path, bak, enrolled, taken, tool, failures>>
          /\ unsynced' \subseteq unsynced
      BY <2>6, WritebackSteps
    <3>3. DiskInv'
      BY <3>1, <3>2 DEF DiskInv
    <3>4. OnDisk' /\ "whole" \in {path, bak}
      BY <3>1, <3>2 DEF DiskInv, OnDisk
    <3> QED
      BY <3>2, <3>3, <3>4 DEF StoreInv
  <2>7. CASE PowerFails
    <3>1. PICK lost \in SUBSET unsynced :
            /\ path' = IF "path" \in lost THEN "torn" ELSE path
            /\ bak' = IF "bak" \in lost THEN "torn" ELSE bak
            /\ unsynced' = {} /\ taken' = (taken \/ lost # {})
      BY <2>7 DEF PowerFails
    <3>2. failures' = failures + 1 /\ tool'.pc = "none" /\ UNCHANGED <<enrolled, stored>>
      BY <2>7 DEF PowerFails, NoTool
    <3>3. DiskInv'
      BY <3>1, <3>2 DEF DiskInv, Writing
    <3>4. failures' # 0 /\ failures' \in Nat /\ (failures' <= 1 => failures = 0)
      BY <3>2 DEF StoreInv
    <3>5. stored /\ failures = 0 => "whole" \in {path', bak'}
      BY <3>1 DEF StoreInv, OnDisk
    <3>6. ~taken' => lost = {}
      BY <3>1
    <3>7. enrolled /\ failures = 0 /\ ~taken' => "whole" \in {path', bak'}
      BY <3>1, <3>6 DEF StoreInv
    <3> QED
      BY <3>2, <3>3, <3>4, <3>5, <3>7 DEF StoreInv
  <2>8. CASE CtrlC
    BY <2>8, <2>1 DEF CtrlC, HasPC, NoTool, Interrupted, Writing, Calm
  <2>9. CASE OrphanEnds \/ BridgeCaptures \/ BridgeReleases \/ BridgeCancels
    BY <2>9, <2>1, BridgeSteps DEF Calm
  <2>10. CASE UNCHANGED vars
    BY <2>10, <2>1 DEF vars, Calm
  <2>11. CASE Capturing \/ Matching
    BY <2>11, <2>1, CapturingSteps, MatchingSteps
  <2>12. CASE BeginCapture \/ BeginEnroll \/ BeginScore \/ Scoring
    BY <2>12, <2>1, ScoringSteps
  <2> QED
    BY <2>2, <2>3, <2>4, <2>5, <2>6, <2>7, <2>8, <2>9, <2>10, <2>11, <2>12
       DEF Next, Installing
<1>3. StoreInv => TemplateSurvives
  BY DEF StoreInv, Writing, TemplateSurvives
<1> QED
  BY <1>1, <1>2, <1>3, Shape, PTL DEF Spec

-----------------------------------------------------------------------------
(* What the scores rest on: where the loops stand, which scans are at      *)
(* work, and what is in the socket and in the pipe.                        *)
Taking == {"stop", "mkdir", "ready", "wait", "abort"}

Places ==
  /\ Len(tool.files) <= Swipes
  /\ tool.pc \in Taking => tool.mode = "capture" /\ Len(tool.files) <= tool.swipe
  /\ tool.pc = "wait" => Len(tool.files) < tool.swipe
  /\ tool.pc \in {"enroll", "enrolling"} =>
       IF tool.mode = "enroll" THEN tool.files # <<>> ELSE tool.a \in 1 .. Len(tool.files)
  /\ tool.pc = "verify" => tool.b \in 1 .. Len(tool.files)
  /\ tool.pc = "enrolling" => tool.completed < Stages

OneImage ==
  /\ tool.pc = "verifying" => tool.socket = <<tool.asked>> /\ tool.lines = {}
  /\ tool.pc = "enrolling" => tool.socket # <<>> /\ tool.socket = <<tool.socket[1]>>
  /\ tool.pc \notin {"verifying", "enrolling"} => tool.socket = <<>>
  /\ tool.pc # "settle" => tool.pipe = <<>>
  /\ tool.pc = "settle" => tool.pipe \in {<<>>, <<tool.asked>>} /\ tool.lines \subseteq {tool.asked}
  /\ tool.pc = "verify" => tool.shown = {}
  /\ ScoreIsOwn

Taken1 == tool.mode = "capture" => \A k \in 1 .. Len(tool.files) :
  /\ disk[tool.files[k]] = "new" /\ tool.files[k] <= tool.swipe
  /\ tool.pc = "wait" => tool.files[k] < tool.swipe

Inside == tool \in Tool /\ tool.sent <= Cap /\ Places /\ OneImage
Outside ==
  /\ unit \in BOOLEAN /\ holders \subseteq {"bridge", "tool", "orphan"}
  /\ disk \in [Images -> {"none", "old", "new"}]
  /\ path \in {"none", "torn", "whole"} /\ bak \in {"none", "torn", "whole"}
  /\ unsynced \subseteq {"path", "bak"} /\ failures \in 0 .. MaxFailures
  /\ enrolled \in BOOLEAN /\ stored \in BOOLEAN /\ taken \in BOOLEAN

(* No process, nothing to say of it.                                       *)
LEMMA NoToolInside ==
  ASSUME tool' = NoTool
  PROVE  Inside' /\ Taken1'
<1>1. tool' \in Tool
  BY BoundsAssumption DEF NoTool, Tool, Images
<1>2. (tool.sent <= Cap)'
  BY BoundsAssumption DEF NoTool, Cap
<1>3. Places' /\ OneImage' /\ Taken1'
  BY BoundsAssumption DEF NoTool, Places, OneImage, Taken1, Taking, ScoreIsOwn
<1> QED
  BY <1>1, <1>2, <1>3 DEF Inside

LEMMA CapturingInside ==
  ASSUME Inside, Capturing \/ CtrlC
  PROVE  Inside'
<1> USE BoundsAssumption DEF Inside, Taking
<1>1. CASE StopBridge
  BY <1>1 DEF StopBridge, Tool, Places, OneImage, ScoreIsOwn, Cap
<1>2. CASE MakeDir
  BY <1>2 DEF MakeDir, Tool, Places, OneImage, ScoreIsOwn, Cap
<1>3. CASE Swipe
  <2>1. tool' = [tool EXCEPT !.pc = "wait", !.swipe = @ + 1] /\ tool.pc = "ready" /\ tool.swipe < Swipes
    BY <1>3 DEF Swipe
  <2>2. tool.swipe + 1 \in 0 .. Swipes
    BY <2>1 DEF Tool
  <2>3. tool' \in Tool /\ (tool.sent <= Cap)'
    BY <2>1, <2>2 DEF Tool, Cap
  <2>4. Places'
    <3>1. /\ tool'.pc = "wait" /\ tool'.swipe = tool.swipe + 1
          /\ UNCHANGED <<tool.mode, tool.files>>
      BY <2>1 DEF Tool
    <3>2. /\ Len(tool.files) \in Nat /\ Len(tool.files) <= Swipes /\ tool.swipe \in Nat
          /\ tool.mode = "capture" /\ Len(tool.files) <= tool.swipe
      BY <2>1 DEF Places, Tool
    <3> QED
      BY <3>1, <3>2 DEF Places
  <2>5. OneImage'
    BY <2>1 DEF OneImage, Tool, ScoreIsOwn
  <2> QED
    BY <2>3, <2>4, <2>5
<1>4. CASE MakeDirFails
  BY <1>4, NoToolInside DEF MakeDirFails
<1>5. CASE SwipeOver
  <2>1. PICK o : tool' = [tool EXCEPT !.pc = "ready",
                            !.files = IF Taken(o) THEN Append(@, tool.swipe) ELSE @]
    BY <1>5 DEF SwipeOver
  <2>2. tool.pc = "wait" /\ tool.swipe \in Images /\ Len(tool.files) < tool.swipe
    BY <1>5 DEF SwipeOver, Places, Tool, Images
  <2> DEFINE f == IF Taken(o) THEN Append(tool.files, tool.swipe) ELSE tool.files
  <2>3. tool' = [tool EXCEPT !.pc = "ready", !.files = f] /\ f \in Seq(Images) /\ Len(f) <= tool.swipe
    <3>1. tool.files \in Seq(Images) /\ tool.swipe \in Nat
      BY DEF Tool
    <3>2. Len(f) <= tool.swipe /\ f \in Seq(Images)
      <4>1. CASE Taken(o)
        BY <2>2, <3>1, <4>1
      <4>2. CASE ~Taken(o)
        BY <2>2, <3>1, <4>2 DEF Images
      <4> QED
        BY <4>1, <4>2
    <3>3. tool' = [tool EXCEPT !.pc = "ready", !.files = f]
      BY <2>1
    <3> QED
      BY <3>2, <3>3
  <2> HIDE DEF f
  <2>4. tool' \in Tool /\ (tool.sent <= Cap)'
    BY <2>2, <2>3 DEF Tool, Cap
  <2>5. Places'
    BY <2>2, <2>3 DEF Places, Tool, Images
  <2>6. OneImage'
    BY <2>2, <2>3 DEF OneImage, Tool, ScoreIsOwn
  <2> QED
    BY <2>4, <2>5, <2>6
<1>6. CASE StartBridge
  <2>1. CASE tool' = NoTool
    BY <2>1, NoToolInside
  <2>2. CASE tool' # NoTool
    <3> DEFINE b == IF "whole" \in {path, bak} THEN 0 ELSE Len(tool.files)
    <3>1. tool' = [tool EXCEPT !.pc = "next", !.b = b]
      BY <1>6, <2>2 DEF StartBridge
    <3>2. tool.pc \in {"ready", "abort"} /\ b \in 0 .. Swipes
      BY <1>6 DEF StartBridge, Places, Tool
    <3> HIDE DEF b
    <3> QED
      BY <3>1, <3>2 DEF Tool, Places, OneImage, ScoreIsOwn, Cap
  <2> QED
    BY <2>1, <2>2
<1>7. CASE CtrlC
  BY <1>7 DEF CtrlC, Interrupted, Tool, Places, OneImage, ScoreIsOwn, Cap
<1> QED
  BY <1>1, <1>2, <1>3, <1>4, <1>5, <1>6, <1>7 DEF Capturing

LEMMA One ==
  ASSUME NEW i
  PROVE  /\ Tail(<<i>>) = <<>> /\ Append(<<>>, i) = <<i>> /\ <<i>>[1] = i /\ <<i>> # <<>>
         /\ i \in Images => <<i>> \in Seq(Images)
         /\ <<>> \in Seq(Images)
<1>1. Tail(<<i>>) = <<>> /\ <<i>>[1] = i /\ <<i>> # <<>>
  OBVIOUS
<1>2. Append(<<>>, i) = <<i>>
  OBVIOUS
<1>3. i \in Images => <<i>> \in Seq(Images)
  OBVIOUS
<1>4. <<>> \in Seq(Images)
  OBVIOUS
<1> QED
  BY <1>1, <1>2, <1>3, <1>4

LEMMA Zero == 0 \in 0 .. Swipes /\ 0 \in 0 .. Stages /\ 0 \in Nat /\ 1 \in Nat
BY BoundsAssumption

LEMMA VerifyInside ==
  ASSUME Inside, Verify \/ Verified \/ ReadLine \/ ReadScores
  PROVE  Inside'
<1> USE BoundsAssumption DEF Inside, Taking
<1>1. CASE Verify
  <2> DEFINE i == tool.files[tool.b]
  <2>1. tool.pc = "verify" /\ tool.socket = <<>> /\ tool.shown = {} /\ i \in Images
    BY <1>1 DEF Verify, OneImage, Places, Tool
  <2>2. tool' = [tool EXCEPT !.pc = "verifying", !.lines = {}, !.asked = i, !.socket = <<i>>]
    BY <1>1, <2>1 DEF Verify, Send
  <2> HIDE DEF i
  <2>3. tool' \in Tool /\ (tool.sent <= Cap)'
    <3>1. tool' \in Tool
      BY <2>1, <2>2, One DEF Tool
    <3>2. (tool.sent <= Cap)'
      BY <2>1, <2>2 DEF Tool, Cap
    <3> QED
      BY <3>1, <3>2
  <2>4. Places'
    BY <2>2 DEF Places, Tool
  <2>5. OneImage'
    BY <2>1, <2>2 DEF OneImage, Tool, ScoreIsOwn
  <2> QED
    BY <2>3, <2>4, <2>5
<1>2. CASE Verified
  <2>1. tool.pc = "verifying" /\ tool.socket = <<tool.asked>> /\ tool.pipe = <<>> /\ tool.lines = {}
        /\ tool.asked \in Images
    BY <1>2 DEF Verified, OneImage, Tool
  <2>2. <<tool.asked>> \in Seq(Images) /\ <<>> \in Seq(Images)
    BY <2>1, One
  <2>3. CASE tool' = [tool EXCEPT !.pc = "settle", !.socket = <<>>, !.pipe = <<tool.asked>>]
    <3>1. tool' \in Tool
      BY <2>2, <2>3, Zero DEF Tool
    <3>2. (tool.sent <= Cap)' /\ Places'
      BY <2>3 DEF Tool, Cap, Places
    <3>3. OneImage'
      BY <2>1, <2>3 DEF OneImage, Tool, ScoreIsOwn
    <3> QED
      BY <3>1, <3>2, <3>3
  <2>4. CASE tool' = [tool EXCEPT !.pc = "next", !.socket = <<>>, !.shown = {}]
    <3>1. tool' \in Tool
      BY <2>2, <2>4 DEF Tool
    <3>2. (tool.sent <= Cap)' /\ Places'
      BY <2>4 DEF Tool, Cap, Places
    <3>3. OneImage'
      BY <2>1, <2>4 DEF OneImage, Tool, ScoreIsOwn
    <3> QED
      BY <3>1, <3>2, <3>3
  <2>5. Tail(tool.socket) = <<>> /\ Append(tool.pipe, Head(tool.socket)) = <<tool.asked>>
    BY <2>1, One
  <2> QED
    BY <1>2, <2>3, <2>4, <2>5 DEF Verified
<1>3. CASE ReadLine
  <2>1. tool.pc = "settle" /\ tool.pipe = <<tool.asked>> /\ tool.asked \in Images
    BY <1>3 DEF ReadLine, OneImage, Tool
  <2>2. tool' = [tool EXCEPT !.pipe = <<>>, !.lines = @ \cup {tool.asked}]
    BY <1>3, <2>1 DEF ReadLine
  <2>3. tool' \in Tool /\ (tool.sent <= Cap)'
    <3>1. tool' \in Tool
      BY <2>1, <2>2, One DEF Tool
    <3>2. (tool.sent <= Cap)'
      BY <2>1, <2>2 DEF Tool, Cap
    <3> QED
      BY <3>1, <3>2
  <2>4. Places'
    BY <2>2 DEF Places, Tool
  <2>5. OneImage'
    BY <2>1, <2>2 DEF OneImage, Tool, ScoreIsOwn
  <2> QED
    BY <2>3, <2>4, <2>5
<1>4. CASE ReadScores
  <2>1. tool.pc = "settle" /\ tool.pipe = <<>> /\ tool.lines \subseteq {tool.asked}
        /\ tool' = [tool EXCEPT !.pc = "next", !.shown = tool.lines]
    BY <1>4 DEF ReadScores, Settled, OneImage
  <2>2. tool' \in Tool /\ (tool.sent <= Cap)'
    <3>1. tool' \in Tool
      BY <2>1, One DEF Tool
    <3>2. (tool.sent <= Cap)'
      BY <2>1 DEF Tool, Cap
    <3> QED
      BY <3>1, <3>2
  <2>3. Places'
    BY <2>1 DEF Places, Tool
  <2>4. OneImage'
    BY <2>1 DEF OneImage, Tool, ScoreIsOwn
  <2> QED
    BY <2>2, <2>3, <2>4
<1> QED
  BY <1>1, <1>2, <1>3, <1>4

LEMMA EnrollInside ==
  ASSUME Inside, Enroll \/ Progress \/ Cancelled
  PROVE  Inside'
<1> USE BoundsAssumption DEF Inside, Taking
<1>1. CASE Enroll
  <2> DEFINE i == IF tool.mode = "enroll" THEN tool.files[1] ELSE tool.files[tool.a]
  <2>1. tool.pc = "enroll" /\ tool.socket = <<>> /\ tool.files \in Seq(Images)
    BY <1>1 DEF Enroll, OneImage, Tool
  <2>2. i \in Images /\ <<i>> \in Seq(Images)
    <3>1. i \in Images
      BY <2>1 DEF Places
    <3> QED
      BY <3>1, One
  <2>3. tool' = [tool EXCEPT !.pc = "enrolling", !.sent = 1, !.completed = 0,
                             !.shown = {}, !.asked = i, !.socket = <<i>>]
    BY <1>1, <2>1 DEF Enroll, Send
  <2> HIDE DEF i
  <2>4. tool' \in Tool /\ (tool.sent <= Cap)'
    <3>1. tool' \in Tool
      BY <2>2, <2>3, Zero DEF Tool
    <3>2. (tool.sent <= Cap)'
      BY <2>2, <2>3 DEF Tool, Cap
    <3> QED
      BY <3>1, <3>2
  <2>5. Places'
    BY <2>1, <2>3 DEF Places, Tool
  <2>6. OneImage'
    BY <2>1, <2>2, <2>3 DEF OneImage, Tool, ScoreIsOwn
  <2> QED
    BY <2>4, <2>5, <2>6
<1>2. CASE Progress
  <2>1. PICK n \in {tool.completed, tool.completed + 1} :
          LET after == IF Wanting(n)
                         THEN [tool EXCEPT !.sent = @ + 1, !.socket = Append(Tail(@), NextImage)]
                         ELSE [tool EXCEPT !.socket = Tail(@)]
              enrolling == IF n < Stages THEN "enrolling"
                           ELSE IF tool.mode = "enroll" THEN "replace" ELSE "next"
          IN tool' = [after EXCEPT !.completed = n, !.pc = enrolling]
    BY <1>2 DEF Progress
  <2>2. /\ tool.pc = "enrolling" /\ tool.completed < Stages /\ tool.sent < Cap /\ n \in 0 .. Stages
        /\ Cap \in Nat
    <3>1. tool.pc = "enrolling" /\ ~Capped
      BY <1>2 DEF Progress
    <3>2. tool.completed \in 0 .. Stages /\ tool.sent \in Nat
      BY DEF Tool
    <3>3. tool.completed < Stages
      BY <3>1 DEF Places
    <3>4. Cap \in Nat
      BY DEF Cap
    <3> QED
      BY <3>1, <3>2, <3>3, <3>4 DEF Capped
  <2>3. Tail(tool.socket) = <<>>
    BY <2>2, One DEF OneImage
  <2>4. CASE n < Stages
    <3>1. tool' = [tool EXCEPT !.sent = tool.sent + 1, !.socket = <<NextImage>>, !.completed = n,
                               !.pc = "enrolling"]
      BY <2>1, <2>3, <2>4, One DEF Wanting
    <3>2. NextImage \in Images
      <4>1. tool.files \in Seq(Images) /\ tool.sent \in Nat
        BY DEF Tool
      <4>2. CASE tool.mode = "enroll"
        <5>1. Len(tool.files) \in Nat \ {0}
          BY <2>2, <4>1, <4>2 DEF Places
        <5>2. tool.sent % Len(tool.files) \in 0 .. Len(tool.files) - 1
          BY <4>1, <5>1
        <5> QED
          BY <4>1, <4>2, <5>1, <5>2 DEF NextImage
      <4>3. CASE tool.mode # "enroll"
        BY <2>2, <4>1, <4>3 DEF NextImage, Places
      <4> QED
        BY <4>2, <4>3
    <3>3. tool' \in Tool /\ (tool.sent <= Cap)'
      <4>1. tool' \in Tool
        <5>1. <<NextImage>> \in Seq(Images)
          BY <3>2, One
        <5>2. tool.sent + 1 \in Nat
          BY DEF Tool
        <5> QED
          BY <2>2, <3>1, <5>1, <5>2 DEF Tool
      <4>2. (tool.sent <= Cap)'
        BY <2>2, <3>1, <3>2 DEF Tool, Cap
      <4> QED
        BY <4>1, <4>2
    <3>4. Places'
      BY <2>2, <2>4, <3>1 DEF Places, Tool
    <3>5. OneImage'
      BY <2>2, <3>1 DEF OneImage, Tool, ScoreIsOwn
    <3> QED
      BY <3>3, <3>4, <3>5
  <2>5. CASE ~(n < Stages)
    <3>1. PICK p \in {"replace", "next"} :
            tool' = [tool EXCEPT !.socket = <<>>, !.completed = n, !.pc = p]
      BY <2>1, <2>3, <2>5 DEF Wanting
    <3>2. tool' \in Tool /\ (tool.sent <= Cap)'
      <4>1. tool' \in Tool
        BY <2>2, <3>1, One DEF Tool
      <4>2. (tool.sent <= Cap)'
        BY <2>2, <3>1 DEF Tool, Cap
      <4> QED
        BY <4>1, <4>2
    <3>3. Places'
      BY <2>2, <3>1 DEF Places, Tool
    <3>4. OneImage'
      BY <2>2, <3>1 DEF OneImage, Tool, ScoreIsOwn
    <3> QED
      BY <3>2, <3>3, <3>4
  <2> QED
    BY <2>4, <2>5
<1>3. CASE Cancelled
  <2>1. CASE tool' = NoTool
    BY <2>1, NoToolInside
  <2>2. CASE tool' # NoTool
    <3>1. tool.pc = "enrolling" /\ Tail(tool.socket) = <<>>
      BY <1>3, One DEF Cancelled, OneImage
    <3>2. tool' = [tool EXCEPT !.pc = "next", !.b = Len(tool.files), !.socket = <<>>]
      BY <1>3, <2>2, <3>1 DEF Cancelled, Skipped
    <3>3. Len(tool.files) \in 0 .. Swipes
      BY DEF Places, Tool
    <3> QED
      BY <3>1, <3>2, <3>3 DEF Tool, Cap, Places, OneImage, ScoreIsOwn
  <2> QED
    BY <2>1, <2>2
<1> QED
  BY <1>1, <1>2, <1>3

LEMMA ScoringInside ==
  ASSUME Inside, Scoring \/ Installing \/ WriteFails
  PROVE  Inside'
<1> USE BoundsAssumption DEF Inside, Taking
<1>1. CASE NextScan
  <2>1. PICK p \in {"next", "verify"} : tool' = [tool EXCEPT !.b = tool.b + 1, !.shown = {}, !.pc = p]
    BY <1>1 DEF NextScan
  <2>2. tool.pc = "next" /\ tool.b + 1 \in 1 .. Len(tool.files) /\ tool.b + 1 \in 0 .. Swipes
    BY <1>1 DEF NextScan, Tool, Places
  <2>3. tool' \in Tool /\ (tool.sent <= Cap)'
    <3>1. tool' \in Tool
      BY <2>1, <2>2, One DEF Tool
    <3>2. (tool.sent <= Cap)'
      BY <2>1, <2>2 DEF Tool, Cap
    <3> QED
      BY <3>1, <3>2
  <2>4. Places'
    BY <2>1, <2>2 DEF Places, Tool
  <2>5. OneImage'
    BY <2>1, <2>2 DEF OneImage, Tool, ScoreIsOwn
  <2> QED
    BY <2>3, <2>4, <2>5
<1>2. CASE NextEnrolment
  <2>1. tool' = [tool EXCEPT !.pc = "enroll", !.a = tool.a + 1, !.b = 0]
    BY <1>2 DEF NextEnrolment
  <2>2. /\ tool.pc = "next" /\ tool.mode # "enroll"
        /\ tool.a + 1 \in 1 .. Len(tool.files) /\ tool.a + 1 \in 0 .. Swipes
    <3>1. tool.pc = "next" /\ tool.mode # "enroll" /\ tool.a < Len(tool.files)
      BY <1>2 DEF NextEnrolment
    <3>2. tool.a \in Nat /\ Len(tool.files) \in Nat /\ Len(tool.files) <= Swipes
      BY <3>1 DEF Tool, Places
    <3> QED
      BY <3>1, <3>2
  <2>3. tool' \in Tool /\ (tool.sent <= Cap)'
    <3>1. tool' \in Tool
      BY <2>1, <2>2, Zero DEF Tool
    <3>2. (tool.sent <= Cap)'
      BY <2>1, <2>2 DEF Tool, Cap
    <3> QED
      BY <3>1, <3>2
  <2>4. Places'
    BY <2>1, <2>2 DEF Places, Tool
  <2>5. OneImage'
    BY <2>1, <2>2 DEF OneImage, Tool, ScoreIsOwn
  <2> QED
    BY <2>3, <2>4, <2>5
<1>3. CASE Close \/ WriteFails
  BY <1>3, NoToolInside DEF Close, WriteFails
<1>4. CASE Installing
  <2>1. /\ tool.pc \in {"replace", "open", "write"}
        /\ \/ tool' = [tool EXCEPT !.pc = "open"]
           \/ tool' = [tool EXCEPT !.pc = "write"]
           \/ tool' = [tool EXCEPT !.pc = "next", !.b = 0]
    BY <1>4 DEF Installing, Replace, OpenNew, WriteNew
  <2>2. tool' \in Tool
    <3>1. CASE tool' = [tool EXCEPT !.pc = "next", !.b = 0]
      BY <3>1, Zero DEF Tool
    <3>2. CASE tool' = [tool EXCEPT !.pc = "open"]
      BY <3>2 DEF Tool
    <3>3. CASE tool' = [tool EXCEPT !.pc = "write"]
      BY <3>3 DEF Tool
    <3> QED
      BY <2>1, <3>1, <3>2, <3>3
  <2>3. /\ tool'.pc \in {"open", "write", "next"} /\ tool'.mode = tool.mode
        /\ tool'.files = tool.files /\ tool'.swipe = tool.swipe /\ tool'.a = tool.a
        /\ tool'.sent = tool.sent /\ tool'.socket = tool.socket /\ tool'.pipe = tool.pipe
        /\ tool'.lines = tool.lines /\ tool'.asked = tool.asked /\ tool'.shown = tool.shown
    <3>1. CASE tool' = [tool EXCEPT !.pc = "next", !.b = 0]
      BY <3>1, SMTT(30) DEF Tool
    <3>2. CASE tool' = [tool EXCEPT !.pc = "open"]
      BY <3>2, SMTT(30) DEF Tool
    <3>3. CASE tool' = [tool EXCEPT !.pc = "write"]
      BY <3>3, SMTT(30) DEF Tool
    <3> QED
      BY <2>1, <3>1, <3>2, <3>3
  <2>4. (tool.sent <= Cap)'
    BY <2>3 DEF Cap
  <2>5. Places'
    BY <2>1, <2>3 DEF Places
  <2>6. OneImage'
    BY <2>1, <2>3 DEF OneImage, ScoreIsOwn
  <2> QED
    BY <2>2, <2>4, <2>5, <2>6
<1> QED
  BY <1>1, <1>2, <1>3, <1>4 DEF Scoring

LEMMA NamedScans ==
  ASSUME NEW f \in Named
  PROVE  f \in Seq(Images) /\ Len(f) \in Images /\ f # <<>>
<1>1. PICK k \in Images : f \in [1 .. k -> Images]
  BY DEF Named
<1>2. k \in Nat \ {0}
  BY <1>1 DEF Images
<1> QED
  BY <1>1, <1>2

LEMMA BeginsInside ==
  ASSUME Inside, BeginCapture \/ BeginEnroll \/ BeginScore
  PROVE  Inside' /\ Taken1'
<1>1. CASE BeginCapture
  <2>1. tool' = [NoTool EXCEPT !.pc = "stop", !.mode = "capture"]
    BY <1>1 DEF BeginCapture
  <2>2. tool' \in Tool
    BY <2>1, Zero, One DEF Tool, NoTool, Images
  <2>3. (tool.sent <= Cap)'
    BY <2>1, BoundsAssumption DEF NoTool, Cap
  <2>4. Places' /\ OneImage' /\ Taken1'
    BY <2>1, BoundsAssumption DEF NoTool, Places, OneImage, Taken1, Taking, ScoreIsOwn
  <2> QED
    BY <2>2, <2>3, <2>4 DEF Inside
<1>2. CASE BeginEnroll
  <2>1. PICK f \in Named : tool' = [NoTool EXCEPT !.pc = "enroll", !.mode = "enroll", !.files = f]
    BY <1>2 DEF BeginEnroll
  <2>2. f \in Seq(Images) /\ Len(f) \in Images /\ f # <<>>
    BY NamedScans
  <2>3. tool' \in Tool
    BY <2>1, <2>2, Zero, One DEF Tool, NoTool
  <2>4. (tool.sent <= Cap)'
    BY <2>1, BoundsAssumption DEF NoTool, Cap
  <2>5. Places' /\ OneImage' /\ Taken1'
    BY <2>1, <2>2, BoundsAssumption
       DEF NoTool, Places, OneImage, Taken1, Taking, ScoreIsOwn, Images
  <2> QED
    BY <2>3, <2>4, <2>5 DEF Inside
<1>3. CASE BeginScore
  <2>1. PICK f \in Named : \E b \in {0, Len(f)} :
          tool' = [NoTool EXCEPT !.pc = "next", !.mode = "score", !.files = f, !.b = b]
    BY <1>3 DEF BeginScore
  <2>2. f \in Seq(Images) /\ Len(f) \in Images /\ f # <<>>
    BY NamedScans
  <2>3. PICK b \in 0 .. Swipes :
          tool' = [NoTool EXCEPT !.pc = "next", !.mode = "score", !.files = f, !.b = b]
    <3>1. {0, Len(f)} \subseteq 0 .. Swipes
      BY <2>2, Zero DEF Images
    <3> QED
      BY <2>1, <3>1
  <2>4. tool' \in Tool
    BY <2>2, <2>3, Zero, One DEF Tool, NoTool
  <2>5. (tool.sent <= Cap)'
    BY <2>3, BoundsAssumption DEF NoTool, Cap
  <2>6. Places' /\ OneImage' /\ Taken1'
    BY <2>2, <2>3, BoundsAssumption
       DEF NoTool, Places, OneImage, Taken1, Taking, ScoreIsOwn, Images
  <2> QED
    BY <2>4, <2>5, <2>6 DEF Inside
<1> QED
  BY <1>1, <1>2, <1>3

(* The scans of a capture come from its own swipes.                        *)
LEMMA TakenStays ==
  ASSUME Inside, Inside', Outside, Taken1, [Next]_vars
  PROVE  Taken1'
<1>1. CASE BeginCapture \/ BeginEnroll \/ BeginScore
  BY <1>1, BeginsInside
<1>2. CASE SwipeOver
  <2>1. PICK o \in {"nothing", "tiny", "scan"} :
          /\ disk' = [disk EXCEPT ![tool.swipe] =
                        IF o = "nothing" THEN @ ELSE IF o = "tiny" THEN "none" ELSE "new"]
          /\ tool' = [tool EXCEPT !.pc = "ready",
                                  !.files = IF Taken(o) THEN Append(@, tool.swipe) ELSE @]
    BY <1>2 DEF SwipeOver
  <2>2. /\ tool.pc = "wait" /\ tool.mode = "capture" /\ tool.swipe \in Images
        /\ tool.files \in Seq(Images) /\ Len(tool.files) < tool.swipe
    <3>1. tool.pc = "wait" /\ tool \in Tool /\ Places
      BY <1>2 DEF SwipeOver, Inside
    <3>2. tool.swipe \in 0 .. Swipes /\ tool.files \in Seq(Images)
      BY <3>1 DEF Tool
    <3> QED
      BY <3>1, <3>2 DEF Places, Taking, Images
  <2>3. \A k \in 1 .. Len(tool.files) : disk'[tool.files[k]] = "new" /\ tool.files[k] < tool.swipe
    BY <2>1, <2>2 DEF Taken1, Outside, Images
  <2>4. CASE o = "scan"
    <3>1. tool'.pc = "ready" /\ tool'.swipe = tool.swipe /\ tool'.files = Append(tool.files, tool.swipe)
      BY <2>1, <2>4 DEF Taken, Inside, Tool
    <3>2. disk'[tool.swipe] = "new"
      BY <2>1, <2>2, <2>4 DEF Outside
    <3> QED
      BY <2>2, <2>3, <3>1, <3>2 DEF Taken1, Images
  <2>5. CASE o # "scan"
    <3>1. tool'.pc = "ready" /\ tool'.swipe = tool.swipe /\ tool'.files = tool.files
      BY <2>1, <2>5 DEF Taken, Inside, Tool
    <3> QED
      BY <2>2, <2>3, <3>1 DEF Taken1, Images
  <2> QED
    BY <2>4, <2>5
<1>3. CASE Swipe
  <2>1. /\ UNCHANGED disk /\ tool'.files = tool.files /\ tool'.mode = tool.mode
        /\ tool'.swipe = tool.swipe + 1 /\ tool.swipe \in Nat /\ tool.files \in Seq(Images)
    BY <1>3 DEF Swipe, Inside, Tool
  <2>2. \A k \in 1 .. Len(tool.files) : tool.files[k] \in Nat
    <3>1. \A k \in 1 .. Len(tool.files) : tool.files[k] \in Images
      BY <2>1
    <3> QED
      BY <3>1 DEF Images
  <2> QED
    BY <2>1, <2>2 DEF Taken1
<1>4. CASE tool' = NoTool
  BY <1>4, NoToolInside
<1> DEFINE Later == /\ UNCHANGED disk /\ tool'.files = tool.files /\ tool'.mode = tool.mode
                    /\ tool'.swipe = tool.swipe /\ tool'.pc # "wait"
<1>5. CASE Later
  BY <1>5 DEF Taken1
<1>6. CASE UNCHANGED <<disk, tool>>
  BY <1>6 DEF Taken1
<1> USE DEF sensor, Inside, Tool
<1>7. CASE StopBridge \/ MakeDir \/ MakeDirFails \/ StartBridge \/ CtrlC
  <2>1. Later \/ tool' = NoTool
    <3>1. CASE StopBridge
      BY <3>1 DEF StopBridge
    <3>2. CASE MakeDir \/ MakeDirFails
      BY <3>2 DEF MakeDir, MakeDirFails
    <3>3. CASE StartBridge
      BY <3>3 DEF StartBridge
    <3>4. CASE CtrlC
      BY <3>4 DEF CtrlC, Interrupted
    <3> QED
      BY <1>7, <3>1, <3>2, <3>3, <3>4
  <2> QED
    BY <2>1, <1>4, <1>5
<1>8. CASE Verify \/ Verified \/ ReadScores \/ Enroll \/ Cancelled
  <2>1. Later \/ tool' = NoTool
    <3>1. CASE Verify
      BY <3>1 DEF Verify
    <3>2. CASE Verified
      BY <3>2 DEF Verified
    <3>3. CASE ReadScores
      BY <3>3 DEF ReadScores
    <3>4. CASE Enroll
      BY <3>4 DEF Enroll
    <3>5. CASE Cancelled
      BY <3>5 DEF Cancelled, Skipped
    <3> QED
      BY <1>8, <3>1, <3>2, <3>3, <3>4, <3>5
  <2> QED
    BY <2>1, <1>4, <1>5
<1>9. CASE ReadLine
  <2>1. tool.pc = "settle"
    BY <1>9 DEF ReadLine, OneImage
  <2>2. Later
    BY <1>9, <2>1 DEF ReadLine
  <2> QED
    BY <2>2, <1>5
<1>10. CASE Progress
  <2>1. PICK n : LET after == IF Wanting(n)
                       THEN [tool EXCEPT !.sent = @ + 1, !.socket = Append(Tail(@), NextImage)]
                       ELSE [tool EXCEPT !.socket = Tail(@)]
                     enrolling == IF n < Stages THEN "enrolling"
                                  ELSE IF tool.mode = "enroll" THEN "replace" ELSE "next"
                 IN tool' = [after EXCEPT !.completed = n, !.pc = enrolling]
    BY <1>10 DEF Progress
  <2>2. Later
    <3>1. CASE Wanting(n)
      BY <1>10, <2>1, <3>1 DEF Progress
    <3>2. CASE ~Wanting(n)
      BY <1>10, <2>1, <3>2 DEF Progress
    <3> QED
      BY <3>1, <3>2
  <2> QED
    BY <2>2, <1>5
<1>11. CASE Scoring \/ Installing \/ WriteFails
  <2>1. Later \/ tool' = NoTool
    <3>1. CASE NextScan
      BY <3>1 DEF NextScan
    <3>2. CASE NextEnrolment
      BY <3>2 DEF NextEnrolment
    <3>3. CASE Close \/ WriteFails
      BY <3>3 DEF Close, WriteFails
    <3>4. CASE Replace
      BY <3>4 DEF Replace
    <3>5. CASE OpenNew
      BY <3>5 DEF OpenNew
    <3>6. CASE WriteNew
      BY <3>6 DEF WriteNew
    <3> QED
      BY <1>11, <3>1, <3>2, <3>3, <3>4, <3>5, <3>6 DEF Scoring, Installing
  <2> QED
    BY <2>1, <1>4, <1>5
<1>12. CASE Killed \/ PowerFails
  BY <1>12, <1>4 DEF Killed, PowerFails
<1>13. CASE OrphanEnds \/ BridgeCaptures \/ BridgeReleases \/ BridgeCancels \/ UNCHANGED vars
  BY <1>13, <1>6 DEF OrphanEnds, BridgeCaptures, BridgeReleases, BridgeCancels, vars
<1>14. CASE Writeback
  BY <1>14, <1>6, WritebackSteps DEF sensor
<1> QED
  BY <1>1, <1>2, <1>3, <1>7, <1>8, <1>9, <1>10, <1>11, <1>12, <1>13, <1>14
     DEF Next, Capturing, Matching

-----------------------------------------------------------------------------
LEMMA OutsideStays ==
  ASSUME Inside, Outside, [Next]_vars
  PROVE  Outside'
<1> USE DEF Outside, sensor, store
<1>1. CASE BeginCapture \/ BeginEnroll \/ BeginScore
  BY <1>1 DEF BeginCapture, BeginEnroll, BeginScore, Begin
<1>2. CASE StopBridge \/ MakeDir \/ MakeDirFails \/ Swipe \/ StartBridge \/ CtrlC
  BY <1>2 DEF StopBridge, MakeDir, MakeDirFails, Swipe, StartBridge, CtrlC, Stopped
<1>3. CASE SwipeOver
  <2>1. PICK o \in {"nothing", "tiny", "scan"} :
          disk' = [disk EXCEPT ![tool.swipe] =
                     IF o = "nothing" THEN @ ELSE IF o = "tiny" THEN "none" ELSE "new"]
    BY <1>3 DEF SwipeOver
  <2>2. disk' \in [Images -> {"none", "old", "new"}]
    BY <2>1
  <2> QED
    BY <1>3, <2>2 DEF SwipeOver
<1>4. CASE Matching \/ Scoring
  <2>1. UNCHANGED <<sensor, store, failures>>
    BY <1>4 DEF Matching, Verify, Verified, ReadLine, ReadScores, Enroll, Progress, Cancelled,
                Scoring, NextScan, NextEnrolment, Close
  <2> QED
    BY <2>1
<1>5. CASE Installing
  <2>1. UNCHANGED <<sensor, failures>> /\ path' \in {"none", "torn", "whole"}
        /\ bak' \in {path, bak} /\ enrolled' \in {enrolled, TRUE}
        /\ unsynced' \subseteq {"path", "bak"} /\ stored' \in {stored, FALSE} /\ UNCHANGED taken
    BY <1>5 DEF Installing, Replace, OpenNew, WriteNew, Backup
  <2> QED
    BY <2>1
<1>6. CASE WriteFails \/ Killed \/ PowerFails
  <2>1. failures' = failures + 1 /\ failures < MaxFailures
    BY <1>6 DEF WriteFails, Killed, PowerFails
  <2>2. failures' \in 0 .. MaxFailures
    BY <2>1, BoundsAssumption
  <2>3. /\ unit' \in BOOLEAN /\ holders' \subseteq {"bridge", "tool", "orphan"}
        /\ disk' \in [Images -> {"none", "old", "new"}]
    BY <1>6 DEF WriteFails, Killed, PowerFails
  <2>4. /\ path' \in {path, "torn"} /\ bak' \in {bak, "torn"}
        /\ unsynced' \subseteq {"path", "bak"} /\ UNCHANGED <<enrolled, stored>>
        /\ taken' \in BOOLEAN
    BY <1>6 DEF WriteFails, Killed, PowerFails
  <2> QED
    BY <2>2, <2>3, <2>4
<1>7. CASE Writeback
  BY <1>7, WritebackSteps
<1>8. CASE OrphanEnds \/ BridgeCaptures \/ BridgeReleases \/ BridgeCancels \/ UNCHANGED vars
  BY <1>8 DEF OrphanEnds, BridgeCaptures, BridgeReleases, BridgeCancels, vars
<1> QED
  BY <1>1, <1>2, <1>3, <1>4, <1>5, <1>6, <1>7, <1>8 DEF Next, Capturing

LEMMA InsideStays ==
  ASSUME Inside, [Next]_vars
  PROVE  Inside'
<1>1. CASE Capturing \/ CtrlC
  BY <1>1, CapturingInside
<1>2. CASE Matching
  BY <1>2, VerifyInside, EnrollInside DEF Matching
<1>3. CASE Scoring \/ Installing \/ WriteFails
  BY <1>3, ScoringInside
<1>4. CASE BeginCapture \/ BeginEnroll \/ BeginScore
  BY <1>4, BeginsInside
<1>5. CASE Killed \/ PowerFails
  BY <1>5, NoToolInside DEF Killed, PowerFails
<1>6. CASE \/ OrphanEnds \/ BridgeCaptures \/ BridgeReleases \/ BridgeCancels
           \/ Writeback \/ UNCHANGED vars
  <2>1. UNCHANGED tool
    BY <1>6, WritebackSteps DEF OrphanEnds, BridgeCaptures, BridgeReleases, BridgeCancels, vars
  <2> QED
    BY <2>1 DEF Inside, Places, OneImage, ScoreIsOwn, Cap
<1> QED
  BY <1>1, <1>2, <1>3, <1>4, <1>5, <1>6 DEF Next

MatchInv == Inside /\ Outside /\ Taken1

THEOREM Invariance == Spec => []MatchInv
<1>1. Init => MatchInv
  <2> SUFFICES ASSUME Init PROVE MatchInv
    OBVIOUS
  <2>1. tool = NoTool
    BY DEF Init
  <2>2. tool \in Tool
    BY <2>1, Zero, One DEF NoTool, Tool
  <2>3. tool.sent <= Cap /\ Places /\ OneImage /\ Taken1
    BY <2>1, BoundsAssumption DEF NoTool, Cap, Places, OneImage, Taken1, Taking, ScoreIsOwn
  <2>4. disk \in [Images -> {"none", "old", "new"}] /\ failures \in 0 .. MaxFailures
    BY BoundsAssumption DEF Init
  <2>5. /\ enrolled \in BOOLEAN /\ stored \in BOOLEAN /\ taken \in BOOLEAN
        /\ path \in {"none", "torn", "whole"} /\ unsynced = {}
    BY DEF Init
  <2>6. Outside
    BY <2>4, <2>5 DEF Init, Outside
  <2> QED
    BY <2>2, <2>3, <2>6 DEF MatchInv, Inside
<1>2. MatchInv /\ [Next]_vars => MatchInv'
  BY InsideStays, OutsideStays, TakenStays DEF MatchInv
<1> QED
  BY <1>1, <1>2, PTL DEF Spec

(* Types, and the caps on the images sent.                                 *)
THEOREM Typing == Spec => []TypeOK
<1>1. MatchInv => TypeOK
  BY DEF MatchInv, Inside, Outside, TypeOK
<1> QED
  BY <1>1, Invariance, PTL

(* A score is shown for the image it belongs to, for any number of scans,  *)
(* stages and failed enrolments.                                           *)
THEOREM Pairing == Spec => []ScoreIsOwn
<1>1. MatchInv => ScoreIsOwn
  BY DEF MatchInv, Inside, OneImage
<1> QED
  BY <1>1, Invariance, PTL

(* --capture scores swipes of this session only, for any number of them.   *)
THEOREM Novelty == Spec => []ScoredAreNew
<1>1. MatchInv => ScoredAreNew
  BY DEF MatchInv, Inside, Tool, Taken1, ScoredAreNew
<1> QED
  BY <1>1, Invariance, PTL

-----------------------------------------------------------------------------
(* What is left of a run, in four numbers, from left to right: the parts   *)
(* of the program (capture, a template made and installed, the scoring),   *)
(* the swipes to take or scans to enrol, the scans to verify, and the      *)
(* statements of one of these, with the images it may still send.          *)
Making == {"enroll", "enrolling", "replace", "open", "write"}
Line == [none |-> 0, stop |-> 3, mkdir |-> 2, wait |-> 1, ready |-> 0, abort |-> 0,
         verify |-> 4, verifying |-> 3, settle |-> 1, next |-> 0,
         enroll |-> 4, enrolling |-> 3, replace |-> 2, open |-> 1, write |-> 0]

Part == IF tool.pc = "none" THEN 0 ELSE IF tool.pc \in Taking THEN 3
        ELSE IF tool.mode = "enroll" /\ tool.pc \in Making THEN 2 ELSE 1
Scans == IF tool.pc \in Taking THEN Swipes - tool.swipe ELSE Len(tool.files) - tool.a
Others == IF tool.pc \in Taking \cup {"none"} THEN 0
          ELSE IF tool.pc \in Making THEN Len(tool.files) + 1 ELSE Len(tool.files) - tool.b
Unsent == IF tool.pc = "enroll" THEN Cap ELSE IF tool.pc = "enrolling" THEN Cap - tool.sent ELSE 0
Rest == Line[tool.pc] + Unsent + Len(tool.pipe)

LeftOK == Part \in Nat /\ Scans \in Nat /\ Others \in Nat /\ Rest \in Nat

Less ==
  \/ Part' < Part
  \/ Part' = Part /\ Scans' < Scans
  \/ Part' = Part /\ Scans' = Scans /\ Others' < Others
  \/ Part' = Part /\ Scans' = Scans /\ Others' = Others /\ Rest' < Rest
Same == UNCHANGED <<Part, Scans, Others, Rest>>

Works == Capturing \/ Matching \/ Scoring \/ Installing
LeftShrinks ==
  /\ Works => Less
  /\ tool.pc # "none" => Less \/ Same

LEMMA Lines ==
  /\ Line["none"] = 0 /\ Line["stop"] = 3 /\ Line["mkdir"] = 2 /\ Line["wait"] = 1
  /\ Line["ready"] = 0 /\ Line["abort"] = 0 /\ Line["verify"] = 4 /\ Line["verifying"] = 3
  /\ Line["settle"] = 1 /\ Line["next"] = 0 /\ Line["enroll"] = 4 /\ Line["enrolling"] = 3
  /\ Line["replace"] = 2 /\ Line["open"] = 1 /\ Line["write"] = 0
BY DEF Line

LEMMA LinesNat ==
  ASSUME tool \in Tool
  PROVE  Line[tool.pc] \in Nat
<1>1. tool.pc \in {"none", "stop", "mkdir", "ready", "wait", "abort", "next", "verify", "verifying",
                  "settle", "enroll", "enrolling", "replace", "open", "write"}
  BY DEF Tool
<1> QED
  BY <1>1, Lines

(* The loops stand within the scans.                                       *)
InLoops == tool.a <= Len(tool.files) /\ tool.b <= Len(tool.files)

LEMMA LoopsStay == Inside /\ InLoops /\ [Next]_vars => InLoops'
<1> SUFFICES ASSUME Inside, InLoops, [Next]_vars PROVE InLoops'
  OBVIOUS
<1>0. /\ tool \in Tool /\ Len(tool.files) \in Nat /\ tool.a \in Nat /\ tool.b \in Nat
  BY DEF Inside, Tool
<1>1. CASE UNCHANGED <<tool.files, tool.a, tool.b>>
  BY <1>1 DEF InLoops
<1>2. CASE tool' = NoTool
  BY <1>2 DEF InLoops, NoTool
<1>3. ASSUME NEW b \in {0, Len(tool.files)}, tool' = [tool EXCEPT !.pc = "next", !.b = b]
       PROVE  InLoops'
  <2>1. tool'.files = tool.files /\ tool'.a = tool.a /\ tool'.b = b
    BY <1>0, <1>3 DEF Tool
  <2> QED
    BY <1>0, <2>1 DEF InLoops
<1>4. CASE BeginCapture
  BY <1>4 DEF BeginCapture, NoTool, InLoops
<1>5. CASE BeginEnroll \/ BeginScore
  <2>1. PICK f \in Named : tool'.files = f /\ tool'.a = 0 /\ tool'.b \in {0, Len(f)}
    BY <1>5 DEF BeginEnroll, BeginScore, NoTool
  <2>2. Len(f) \in Nat
    BY NamedScans DEF Images
  <2> QED
    BY <2>1, <2>2 DEF InLoops
<1>6. CASE Capturing \/ CtrlC
  <2>1. CASE StopBridge \/ MakeDir \/ Swipe
    BY <1>0, <1>1, <2>1 DEF StopBridge, MakeDir, Swipe, Tool
  <2>2. CASE SwipeOver
    <3>1. PICK o : tool' = [tool EXCEPT !.pc = "ready",
                            !.files = IF Taken(o) THEN Append(@, tool.swipe) ELSE @]
      BY <2>2 DEF SwipeOver
    <3>2. tool'.a = tool.a /\ tool'.b = tool.b
      BY <1>0, <3>1 DEF Tool
    <3>3. Len(tool'.files) \in {Len(tool.files), Len(tool.files) + 1}
      <4>1. CASE Taken(o)
        <5>1. tool'.files = Append(tool.files, tool.swipe)
          BY <1>0, <3>1, <4>1 DEF Tool
        <5>2. tool.files \in Seq(Images)
          BY <1>0 DEF Tool
        <5> QED
          BY <5>1, <5>2
      <4>2. CASE ~Taken(o)
        BY <1>0, <3>1, <4>2 DEF Tool
      <4> QED
        BY <4>1, <4>2
    <3> QED
      BY <1>0, <3>2, <3>3 DEF InLoops
  <2>3. CASE MakeDirFails
    BY <1>2, <2>3 DEF MakeDirFails
  <2>4. CASE StartBridge
    <3>1. \/ tool' = NoTool
          \/ \E b \in {0, Len(tool.files)} : tool' = [tool EXCEPT !.pc = "next", !.b = b]
      BY <2>4 DEF StartBridge
    <3> QED
      BY <1>2, <1>3, <3>1
  <2>5. CASE CtrlC
    BY <1>0, <1>1, <2>5 DEF CtrlC, Interrupted, Tool
  <2> QED
    BY <1>6, <2>1, <2>2, <2>3, <2>4, <2>5 DEF Capturing
<1>7. CASE Verify \/ Verified \/ ReadLine \/ ReadScores \/ Enroll
  BY <1>0, <1>1, <1>7 DEF Verify, Verified, ReadLine, ReadScores, Enroll, Tool
<1>8. CASE Progress
  BY <1>0, <1>1, <1>8 DEF Progress, Tool
<1>9. CASE Cancelled
  <2>1. tool' = NoTool \/ tool' = [Skipped EXCEPT !.socket = Tail(@)]
    BY <1>9 DEF Cancelled
  <2>2. tool' # NoTool
          => tool'.files = tool.files /\ tool'.a = tool.a /\ tool'.b = Len(tool.files)
    BY <1>0, <2>1 DEF Skipped, Tool
  <2> QED
    BY <1>0, <1>2, <2>2 DEF InLoops
<1>10. CASE NextScan \/ NextEnrolment
  <2>1. tool'.files = tool.files
    BY <1>0, <1>10 DEF NextScan, NextEnrolment, Tool
  <2>2. \/ tool'.a = tool.a /\ tool'.b = tool.b + 1 /\ tool.b < Len(tool.files)
        \/ tool'.a = tool.a + 1 /\ tool'.b = 0 /\ tool.a < Len(tool.files)
    BY <1>0, <1>10 DEF NextScan, NextEnrolment, Tool
  <2> QED
    BY <1>0, <2>1, <2>2 DEF InLoops
<1>11. CASE Close \/ WriteFails \/ Killed \/ PowerFails
  BY <1>2, <1>11 DEF Close, WriteFails, Killed, PowerFails
<1>12. CASE Installing
  <2>1. CASE WriteNew
    BY <1>3, <2>1 DEF WriteNew
  <2>2. CASE Replace \/ OpenNew
    BY <1>0, <1>1, <2>2 DEF Replace, OpenNew, Tool
  <2> QED
    BY <1>12, <2>1, <2>2 DEF Installing
<1>13. CASE \/ OrphanEnds \/ BridgeCaptures \/ BridgeReleases \/ BridgeCancels
            \/ Writeback \/ UNCHANGED vars
  BY <1>1, <1>13, WritebackSteps DEF OrphanEnds, BridgeCaptures, BridgeReleases, BridgeCancels, vars
<1> QED
  BY <1>4, <1>5, <1>6, <1>7, <1>8, <1>9, <1>10, <1>11, <1>12, <1>13 DEF Next, Matching, Scoring

(* The parts and their loops, where none moves but the statement.          *)
LEMMA Forward ==
  ASSUME Inside, UNCHANGED <<tool.mode, tool.files, tool.a, tool.b>>,
         \/ {tool.pc, tool'.pc} \subseteq Making
         \/ {tool.pc, tool'.pc} \cap (Making \cup Taking \cup {"none"}) = {}
         \/ tool.pc = tool'.pc /\ tool.pc \notin Taking
         \/ {tool.pc, tool'.pc} \subseteq Taking /\ tool'.swipe = tool.swipe
  PROVE  Part' = Part /\ Scans' = Scans /\ Others' = Others
BY DEF Part, Scans, Others, Making, Taking

LEMMA PartsOK == Inside /\ InLoops => LeftOK
<1> SUFFICES ASSUME Inside, InLoops PROVE LeftOK
  OBVIOUS
<1> USE BoundsAssumption
<1>1. Part \in Nat
  BY DEF Part
<1>2. Len(tool.files) \in Nat /\ tool.a \in Nat /\ tool.b \in Nat /\ Len(tool.pipe) \in Nat
      /\ tool.swipe \in 0 .. Swipes /\ tool.sent \in Nat /\ tool.sent <= Cap
  BY DEF Inside, Tool
<1>3. Scans \in Nat
  BY <1>2 DEF InLoops, Scans
<1>4. Others \in Nat
  BY <1>2 DEF InLoops, Others
<1>5. Cap \in Nat
  BY DEF Cap
<1>6. Unsent \in Nat
  BY <1>2, <1>5 DEF Unsent
<1>7. Line[tool.pc] \in Nat
  BY LinesNat DEF Inside
<1> QED
  BY <1>1, <1>2, <1>3, <1>4, <1>6, <1>7 DEF LeftOK, Rest

(* A run that is over has nothing left.                                    *)
LEMMA OverIsLess == ASSUME tool' = NoTool, Inside, tool.pc # "none" PROVE Less
<1>1. Part' = 0
  BY DEF Part, NoTool
<1>2. Part \in {1, 2, 3}
  BY DEF Part
<1> QED
  BY <1>1, <1>2 DEF Less

LEMMA CapturingShrinks == ASSUME Inside, Capturing PROVE Less
<1> USE BoundsAssumption
<1>0. tool \in Tool /\ Len(tool.pipe) \in Nat /\ tool.swipe \in 0 .. Swipes
  BY DEF Inside, Tool
<1>1. CASE StopBridge \/ MakeDir \/ SwipeOver
  <2>1. /\ \/ tool.pc = "stop" /\ tool'.pc = "mkdir"
           \/ tool.pc = "mkdir" /\ tool'.pc = "ready"
           \/ tool.pc = "wait" /\ tool'.pc = "ready"
        /\ tool'.swipe = tool.swipe /\ tool'.pipe = tool.pipe
    BY <1>0, <1>1 DEF StopBridge, MakeDir, SwipeOver, Tool
  <2>2. Part' = Part /\ Scans' = Scans /\ Others' = Others
    BY <2>1 DEF Part, Scans, Others, Taking
  <2>3. Unsent = 0 /\ Unsent' = 0
    BY <2>1 DEF Unsent
  <2>4. Rest' < Rest
    BY <1>0, <2>1, <2>3, Lines DEF Rest
  <2> QED
    BY <2>2, <2>4 DEF Less
<1>2. CASE Swipe
  <2>1. tool.pc = "ready" /\ tool'.pc = "wait" /\ tool'.swipe = tool.swipe + 1
    BY <1>0, <1>2 DEF Swipe, Tool
  <2>2. Part' = Part /\ Scans' < Scans
    BY <1>0, <2>1 DEF Part, Scans, Taking
  <2> QED
    BY <2>2 DEF Less
<1>3. CASE MakeDirFails
  BY <1>3, OverIsLess DEF MakeDirFails
<1>4. CASE StartBridge
  <2>1. tool.pc \in {"ready", "abort"}
    BY <1>4 DEF StartBridge
  <2>2. CASE tool' = NoTool
    BY <2>1, <2>2, OverIsLess
  <2>3. CASE tool' # NoTool
    <3>1. tool'.pc = "next"
      BY <1>0, <1>4, <2>3 DEF StartBridge, Tool
    <3>2. Part = 3 /\ Part' = 1
      BY <2>1, <3>1 DEF Part, Taking, Making
    <3> QED
      BY <3>2 DEF Less
  <2> QED
    BY <2>2, <2>3
<1> QED
  BY <1>1, <1>2, <1>3, <1>4 DEF Capturing

(* The statements and images of a part, added up.                          *)
LEMMA RestFalls ==
  ASSUME Len(tool.pipe) \in Nat, Len(tool'.pipe) = Len(tool.pipe),
         Line[tool.pc] \in Nat, Line[tool'.pc] \in Nat, Unsent \in Nat, Unsent' \in Nat,
         Line[tool'.pc] + Unsent' < Line[tool.pc] + Unsent
  PROVE  Rest' < Rest
<1> DEFINE n == Len(tool.pipe)
           l == Line[tool.pc]
           m == Line[tool'.pc]
           u == Unsent
           v == Unsent'
<1>1. Rest = l + u + n /\ Rest' = m + v + n
  BY DEF Rest
<1>2. n \in Nat /\ l \in Nat /\ m \in Nat /\ u \in Nat /\ v \in Nat /\ m + v < l + u
  OBVIOUS
<1> HIDE DEF n, l, m, u, v
<1> QED
  BY <1>1, <1>2

LEMMA MatchingShrinks == ASSUME Inside, InLoops, Matching PROVE Less
<1> USE BoundsAssumption
<1>0. /\ tool \in Tool /\ tool.pipe \in Seq(Images) /\ Len(tool.pipe) \in Nat
      /\ Len(tool.files) \in Nat /\ tool.a \in Nat /\ tool.b \in Nat
      /\ tool.b <= Len(tool.files)
      /\ tool.sent \in Nat /\ tool.sent <= Cap /\ Cap \in Nat
  BY DEF Inside, InLoops, Tool, Cap
<1>n. Len(tool.pipe) \in Nat /\ tool.sent \in Nat /\ Cap \in Nat
  BY <1>0
<1>1. CASE Verify \/ Verified \/ ReadScores
  <2>1. /\ UNCHANGED <<tool.mode, tool.files, tool.a, tool.b>>
        /\ \/ tool.pc = "verify" /\ tool'.pc = "verifying" /\ tool'.pipe = tool.pipe
           \/ /\ tool.pc = "verifying" /\ tool'.pc = "settle"
              /\ tool'.pipe = Append(tool.pipe, Head(tool.socket))
           \/ tool.pc = "verifying" /\ tool'.pc = "next" /\ tool'.pipe = tool.pipe
           \/ tool.pc = "settle" /\ tool'.pc = "next" /\ tool'.pipe = tool.pipe
    <3>1. CASE Verify
      BY <1>0, <3>1 DEF Verify, Tool
    <3>2. CASE Verified
      BY <1>0, <3>2 DEF Verified, Tool
    <3>3. CASE ReadScores
      BY <1>0, <3>3 DEF ReadScores, Tool
    <3> QED
      BY <1>1, <3>1, <3>2, <3>3
  <2>2. Part' = Part /\ Scans' = Scans /\ Others' = Others
    BY <2>1, Forward DEF Making, Taking
  <2>3. Unsent = 0 /\ Unsent' = 0
    BY <2>1 DEF Unsent
  <2>4. Len(Append(tool.pipe, Head(tool.socket))) = Len(tool.pipe) + 1
    BY <1>0
  <2>5. \/ /\ \/ Line[tool'.pc] = Line[tool.pc] - 1
              \/ Line[tool'.pc] = 0 /\ Line[tool.pc] > 0
           /\ tool'.pipe = tool.pipe
        \/ /\ Line[tool.pc] = 3 /\ Line[tool'.pc] = 1
           /\ Len(tool'.pipe) = Len(tool.pipe) + 1
    <3>1. CASE tool.pc = "verifying" /\ tool'.pc = "settle"
      <4>1. Len(tool'.pipe) = Len(tool.pipe) + 1
        BY <2>1, <2>4, <3>1
      <4> QED
        BY <3>1, <4>1, Lines
    <3>2. CASE ~(tool.pc = "verifying" /\ tool'.pc = "settle")
      BY <2>1, <3>2, Lines
    <3> QED
      BY <3>1, <3>2
  <2>6. Line[tool.pc] \in Nat
    BY <2>1, Lines
  <2>7. Rest' < Rest
    <3>1. CASE tool'.pipe = tool.pipe
      <4>1. Line[tool'.pc] < Line[tool.pc] /\ Line[tool'.pc] \in Nat
        BY <2>1, <2>5, <2>6, <3>1, Lines
      <4>2. Len(tool'.pipe) = Len(tool.pipe)
        BY <3>1
      <4> QED
        BY <1>0, <2>3, <2>6, <4>1, <4>2 DEF Rest
    <3>2. CASE Line[tool.pc] = 3 /\ Line[tool'.pc] = 1 /\ Len(tool'.pipe) = Len(tool.pipe) + 1
      BY <1>0, <2>3, <3>2 DEF Rest
    <3> QED
      BY <2>5, <3>1, <3>2
  <2> QED
    BY <2>2, <2>7 DEF Less
<1>2. CASE ReadLine
  <2>1. /\ UNCHANGED <<tool.pc, tool.mode, tool.files, tool.a, tool.b, tool.swipe, tool.sent>>
        /\ tool'.pipe = Tail(tool.pipe) /\ tool.pipe # <<>>
    BY <1>0, <1>2 DEF ReadLine, Tool
  <2>2. Part' = Part /\ Scans' = Scans /\ Others' = Others
    BY <2>1 DEF Part, Scans, Others
  <2>3. Unsent' = Unsent /\ Line[tool'.pc] = Line[tool.pc]
    BY <2>1 DEF Unsent, Cap
  <2>4. Len(tool'.pipe) = Len(tool.pipe) - 1
    BY <1>0, <2>1
  <2>5. Unsent \in Nat
    BY <1>0 DEF Unsent
  <2>6. Line[tool.pc] \in Nat
    BY <1>0, LinesNat
  <2>7. Rest' < Rest
    BY <1>0, <2>3, <2>4, <2>5, <2>6 DEF Rest
  <2> QED
    BY <2>2, <2>7 DEF Less
<1>3. CASE Enroll
  <2>1. /\ UNCHANGED <<tool.mode, tool.files, tool.a, tool.b, tool.pipe>>
        /\ tool.pc = "enroll" /\ tool'.pc = "enrolling" /\ tool'.sent = 1
    BY <1>0, <1>3 DEF Enroll, Tool
  <2>2. Part' = Part /\ Scans' = Scans /\ Others' = Others
    BY <2>1, Forward DEF Making
  <2>3. Unsent = Cap /\ Unsent' = Cap - 1
    BY <2>1 DEF Unsent, Cap
  <2>4. Line[tool.pc] = 4 /\ Line[tool'.pc] = 3 /\ Len(tool'.pipe) = Len(tool.pipe)
    BY <2>1, Lines
  <2>5. Unsent \in Nat /\ Unsent' \in Nat /\ Unsent' < Unsent
    BY <1>n, <2>3, BoundsAssumption DEF Cap
  <2>6. Rest' < Rest
    <3>1. Line[tool.pc] \in Nat /\ Line[tool'.pc] \in Nat
      BY <2>4
    <3>2. Line[tool'.pc] + Unsent' < Line[tool.pc] + Unsent
      <4>1. Line[tool.pc] = 4 /\ Line[tool'.pc] = 3
        BY <2>4
      <4>2. \A x, y \in Nat : x < y => 3 + x < 4 + y
        OBVIOUS
      <4>3. 3 + Unsent' < 4 + Unsent
        BY ONLY <2>5, <4>2
      <4> QED
        BY ONLY <4>1, <4>3
    <3> QED
      BY <1>n, <2>4, <2>5, <3>1, <3>2, RestFalls
  <2> QED
    BY <2>2, <2>6 DEF Less
<1>4. CASE Progress
  <2>1. /\ UNCHANGED <<tool.mode, tool.files, tool.a, tool.b, tool.pipe>>
        /\ tool.pc = "enrolling" /\ tool.sent < Cap
        /\ \/ tool'.pc = "enrolling" /\ tool'.sent = tool.sent + 1
           \/ tool'.pc = "replace"
           \/ tool'.pc = "next" /\ tool.mode # "enroll"
    <3>1. UNCHANGED <<tool.mode, tool.files, tool.a, tool.b, tool.pipe>>
      BY <1>0, <1>4 DEF Progress, Tool
    <3>2. tool.pc = "enrolling" /\ tool.sent < Cap
      BY <1>0, <1>4 DEF Progress, Capped
    <3>3. PICK n \in {tool.completed, tool.completed + 1} :
            LET after == IF Wanting(n)
                           THEN [tool EXCEPT !.sent = @ + 1, !.socket = Append(Tail(@), NextImage)]
                           ELSE [tool EXCEPT !.socket = Tail(@)]
                enrolling == IF n < Stages THEN "enrolling"
                             ELSE IF tool.mode = "enroll" THEN "replace" ELSE "next"
            IN tool' = [after EXCEPT !.completed = n, !.pc = enrolling]
      BY <1>4 DEF Progress
    <3>4. \/ tool'.pc = "enrolling" /\ tool'.sent = tool.sent + 1
          \/ tool'.pc = "replace"
          \/ tool'.pc = "next" /\ tool.mode # "enroll"
      <4>1. CASE n < Stages
        BY <1>0, <3>3, <4>1 DEF Wanting, Tool
      <4>2. CASE ~(n < Stages)
        BY <1>0, <3>3, <4>2 DEF Wanting, Tool
      <4> QED
        BY <4>1, <4>2
    <3> QED
      BY <3>1, <3>2, <3>4
  <2>2. Unsent = Cap - tool.sent
    BY <2>1 DEF Unsent
  <2>3. CASE tool'.pc \in {"enrolling", "replace"}
    <3>1. Part' = Part /\ Scans' = Scans /\ Others' = Others
      BY <2>1, <2>3, Forward DEF Making
    <3>2. \/ tool'.pc = "enrolling" /\ Unsent' = Cap - (tool.sent + 1)
          \/ tool'.pc = "replace" /\ Unsent' = 0
      BY <2>1, <2>3 DEF Unsent, Cap
    <3>3. \/ Line[tool'.pc] = 3 /\ Unsent' = Cap - (tool.sent + 1)
          \/ Line[tool'.pc] = 2 /\ Unsent' = 0
      BY <3>2, Lines
    <3>4. Line[tool.pc] = 3 /\ Len(tool'.pipe) = Len(tool.pipe)
      BY <2>1, Lines
    <3>5. Line[tool'.pc] \in Nat /\ Line[tool.pc] \in Nat /\ Unsent \in Nat /\ Unsent' \in Nat
      BY <1>n, <2>1, <2>2, <3>3, <3>4
    <3>6. Line[tool'.pc] + Unsent' < Line[tool.pc] + Unsent
      <4>1. CASE Line[tool'.pc] = 3 /\ Unsent' = Cap - (tool.sent + 1)
        <5>1. Unsent' < Unsent
          BY <1>n, <2>1, <2>2, <4>1
        <5> QED
          BY <3>4, <3>5, <4>1, <5>1
      <4>2. CASE Line[tool'.pc] = 2 /\ Unsent' = 0
        BY <3>4, <3>5, <4>2
      <4> QED
        BY <3>3, <4>1, <4>2
    <3>7. Rest' < Rest
      BY <1>n, <3>4, <3>5, <3>6, RestFalls
    <3> QED
      BY <3>1, <3>7 DEF Less
  <2>4. CASE tool'.pc = "next" /\ tool.mode # "enroll"
    <3>1. Part' = Part /\ Scans' = Scans
      BY <2>1, <2>4 DEF Part, Scans, Taking
    <3>2. Others' = Len(tool.files) - tool.b /\ Others = Len(tool.files) + 1
      BY <2>1, <2>4 DEF Others, Making, Taking
    <3> QED
      BY <1>0, <3>1, <3>2 DEF Less
  <2> QED
    BY <2>1, <2>3, <2>4
<1>5. CASE Cancelled
  <2>1. tool.pc = "enrolling"
    BY <1>5 DEF Cancelled
  <2>2. CASE tool.mode = "enroll"
    BY <1>5, <2>1, <2>2, OverIsLess DEF Cancelled
  <2>3. CASE tool.mode # "enroll"
    <3>1. tool' = [Skipped EXCEPT !.socket = Tail(@)]
      BY <1>5, <2>3 DEF Cancelled
    <3>2. /\ UNCHANGED <<tool.mode, tool.files, tool.a>>
          /\ tool'.pc = "next" /\ tool'.b = Len(tool.files)
      BY <1>0, <3>1 DEF Skipped, Tool
    <3>3. Part' = Part /\ Scans' = Scans
      BY <2>1, <2>3, <3>2 DEF Part, Scans, Taking
    <3>4. Others' = 0 /\ Others = Len(tool.files) + 1
      BY <1>0, <2>1, <3>2 DEF Others, Making, Taking
    <3> QED
      BY <1>0, <3>3, <3>4 DEF Less
  <2> QED
    BY <2>2, <2>3
<1> QED
  BY <1>1, <1>2, <1>3, <1>4, <1>5 DEF Matching

LEMMA ScoringShrinks == ASSUME Inside, InLoops, Scoring PROVE Less
<1>0. /\ tool \in Tool /\ Len(tool.files) \in Nat /\ tool.a \in Nat /\ tool.b \in Nat
      /\ tool.a <= Len(tool.files) /\ tool.b <= Len(tool.files)
  BY DEF Inside, InLoops, Tool
<1>1. CASE NextScan
  <2>1. /\ UNCHANGED <<tool.mode, tool.files, tool.a>>
        /\ tool.pc = "next" /\ tool'.pc \in {"next", "verify"}
        /\ tool'.b = tool.b + 1 /\ tool.b < Len(tool.files)
    BY <1>0, <1>1 DEF NextScan, Tool
  <2>2. Part' = Part /\ Scans' = Scans
    BY <2>1 DEF Part, Scans, Making, Taking
  <2>3. Others = Len(tool.files) - tool.b /\ Others' = Len(tool.files) - (tool.b + 1)
    BY <2>1 DEF Others, Making, Taking
  <2> QED
    BY <1>0, <2>2, <2>3 DEF Less
<1>2. CASE NextEnrolment
  <2>1. /\ UNCHANGED <<tool.mode, tool.files>> /\ tool.mode # "enroll"
        /\ tool.pc = "next" /\ tool'.pc = "enroll" /\ tool'.a = tool.a + 1
    BY <1>0, <1>2 DEF NextEnrolment, Tool
  <2>2. Part' = Part
    BY <2>1 DEF Part, Making, Taking
  <2>3. Scans = Len(tool.files) - tool.a /\ Scans' = Len(tool.files) - (tool.a + 1)
    BY <2>1 DEF Scans, Taking
  <2> QED
    BY <1>0, <2>2, <2>3 DEF Less
<1>3. CASE Close
  BY <1>3, OverIsLess DEF Close
<1> QED
  BY <1>1, <1>2, <1>3 DEF Scoring

LEMMA InstallingShrinks == ASSUME Inside, Installing PROVE Less
<1>0. tool \in Tool /\ Len(tool.files) \in Nat /\ Len(tool.pipe) \in Nat
  BY DEF Inside, Tool
<1>1. CASE Replace \/ OpenNew
  <2>1. /\ UNCHANGED <<tool.mode, tool.files, tool.a, tool.b, tool.pipe>>
        /\ \/ tool.pc = "replace" /\ tool'.pc = "open"
           \/ tool.pc = "open" /\ tool'.pc = "write"
    BY <1>0, <1>1 DEF Replace, OpenNew, Tool
  <2>2. Part' = Part /\ Scans' = Scans /\ Others' = Others
    BY <2>1, Forward DEF Making
  <2>3. Unsent = 0 /\ Unsent' = 0
    BY <2>1 DEF Unsent
  <2>4. Rest' < Rest
    BY <1>0, <2>1, <2>3, Lines, RestFalls
  <2> QED
    BY <2>2, <2>4 DEF Less
<1>2. CASE WriteNew
  <2>1. /\ UNCHANGED <<tool.mode, tool.files, tool.a>>
        /\ tool.pc = "write" /\ tool'.pc = "next" /\ tool'.b = 0
    BY <1>0, <1>2 DEF WriteNew, Tool
  <2>2. CASE tool.mode = "enroll"
    <3>1. Part = 2 /\ Part' = 1
      BY <2>1, <2>2 DEF Part, Making, Taking
    <3> QED
      BY <3>1 DEF Less
  <2>3. CASE tool.mode # "enroll"
    <3>1. Part' = Part /\ Scans' = Scans
      BY <2>1, <2>3 DEF Part, Scans, Making, Taking
    <3>2. Others = Len(tool.files) + 1 /\ Others' = Len(tool.files) - 0
      BY <2>1, <2>3 DEF Others, Making, Taking
    <3> QED
      BY <1>0, <3>1, <3>2 DEF Less
  <2> QED
    BY <2>2, <2>3
<1> QED
  BY <1>1, <1>2 DEF Installing

(* Ctrl-C takes nothing back either, and what the bridge does is nothing   *)
(* to a run.                                                               *)
LEMMA OthersShrink ==
  ASSUME Inside, tool.pc # "none", [Next]_vars, ~Works
  PROVE  Less \/ Same
<1>0. tool \in Tool /\ Len(tool.pipe) \in Nat
  BY DEF Inside, Tool
<1>1. CASE UNCHANGED tool
  BY <1>1 DEF Same, Part, Scans, Others, Unsent, Cap, Rest
<1>2. CASE WriteFails \/ Killed \/ PowerFails
  BY <1>2, OverIsLess DEF WriteFails, Killed, PowerFails
<1>3. CASE CtrlC
  <2>1. /\ UNCHANGED <<tool.mode, tool.files, tool.a, tool.b, tool.pipe, tool.swipe>>
        /\ tool.pc \in {"ready", "wait"} /\ tool'.pc = "abort"
    BY <1>0, <1>3 DEF CtrlC, Interrupted, Tool
  <2>2. Part' = Part /\ Scans' = Scans /\ Others' = Others
    BY <2>1, Forward DEF Taking
  <2>3. Unsent = 0 /\ Unsent' = 0
    BY <2>1 DEF Unsent
  <2>4. CASE tool.pc = "ready"
    BY <2>1, <2>2, <2>3, <2>4, Lines DEF Rest, Same
  <2>5. CASE tool.pc = "wait"
    <3>1. Rest' < Rest
      BY <1>0, <2>1, <2>3, <2>5, Lines, RestFalls
    <3> QED
      BY <2>2, <3>1 DEF Less
  <2> QED
    BY <2>1, <2>4, <2>5
<1>4. ~BeginCapture /\ ~BeginEnroll /\ ~BeginScore
  BY DEF BeginCapture, BeginEnroll, BeginScore, Begin
<1>5. CASE \/ OrphanEnds \/ BridgeCaptures \/ BridgeReleases \/ BridgeCancels
           \/ Writeback \/ UNCHANGED vars
  BY <1>1, <1>5, WritebackSteps DEF OrphanEnds, BridgeCaptures, BridgeReleases, BridgeCancels, vars
<1> QED
  BY <1>2, <1>3, <1>4, <1>5 DEF Next, Works

(* A run of vfs495-match, however many scans it is given and however many  *)
(* images fail to enrol, goes down four natural numbers, in that order of  *)
(* weight: each statement of it (Capturing, Matching, Scoring, Installing) *)
(* takes one of them down, and Ctrl-C, a failure and the bridge take none  *)
(* up.  It is what RunEnds rests on besides the fairness.                  *)
THEOREM RunProgresses == Spec => []LeftOK /\ [][LeftShrinks]_vars
<1>1. Init => InLoops
  BY DEF Init, InLoops, NoTool
<1>2. MatchInv /\ InLoops /\ [Next]_vars => InLoops'
  BY LoopsStay DEF MatchInv
<1>3. Spec => []InLoops
  BY <1>1, <1>2, Invariance, PTL DEF Spec
<1>4. MatchInv /\ InLoops => LeftOK
  BY PartsOK DEF MatchInv
<1>5. MatchInv /\ InLoops /\ [Next]_vars => [LeftShrinks]_vars
  <2> SUFFICES ASSUME MatchInv, InLoops, [Next]_vars PROVE LeftShrinks
    OBVIOUS
  <2>1. Inside
    BY DEF MatchInv
  <2>2. Works => Less
    BY <2>1, CapturingShrinks, MatchingShrinks, ScoringShrinks, InstallingShrinks DEF Works
  <2>3. tool.pc # "none" => Less \/ Same
    BY <2>1, <2>2, OthersShrink
  <2> QED
    BY <2>2, <2>3 DEF LeftShrinks
<1> QED
  BY <1>3, <1>4, <1>5, Invariance, PTL DEF Spec
=============================================================================
