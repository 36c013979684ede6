--------------------------- MODULE CaptureProofs ----------------------------
(***************************************************************************)
(* Proofs about Capture and the loop around it, for any number of attempts *)
(* and breakpoint hits: what is released, removed and reported, and how    *)
(* far an attempt is from its end.                                         *)
(***************************************************************************)
EXTENDS ToolBridge, TLAPS

(* Where the script has the temporary file, and the image it read.         *)
Filed ==
  /\ script \in {"launch", "run", "pkill", "read"} => asm # "absent"
  /\ script \in {"judge", "write"} => got # "absent"
  /\ script = "write" => got # "empty" /\ ~Refuses

(* gdb and HP's binary live within the script's call, and the breakpoint's *)
(* handler within gdb.                                                     *)
Nested ==
  /\ gdb \in {"load", "run"} => script = "run"
  /\ hp = "run" => gdb = "run" \/ script = "pkill"
  /\ stop # "idle" => gdb = "run" /\ hp = "run"

(* Wherever there is an image there was a hit.                             *)
Harvested ==
  asm \in {"torn", "whole"} \/ got \in {"torn", "whole"} \/ stop # "idle" => hits > 0

(* There is no file before the script makes one, and the packaged script's *)
(* is gone once it has been read.                                          *)
Cleared ==
  /\ script = "start" => asm = "absent"
  /\ packaged /\ script \in {"judge", "write", "exited"} => asm = "absent"

Inv ==
  /\ TypeOK /\ Filed /\ Nested /\ Harvested /\ Cleared
  /\ ReportedIsNew /\ ToolReportsWhole

-----------------------------------------------------------------------------
(* What every step of an attempt keeps.                                    *)
LEMMA Kept == Inv /\ Next => Inv'
<1> SUFFICES ASSUME Inv, Next PROVE Inv'
  OBVIOUS
<1> USE CaptureAssumption
    DEF Inv, Filed, Nested, Harvested, Cleared, ReportedIsNew, ToolReportsWhole,
        ReportedIsWhole, TypeOK, Contents, None, Refuses, setting, procs, files, Exit
<1>1. CASE Refuse
  BY <1>1 DEF Refuse
<1>2. CASE MakeTemp
  BY <1>2 DEF MakeTemp, Fresh
<1>3. CASE Launch
  BY <1>3 DEF Launch
<1>4. CASE GdbReturned
  BY <1>4 DEF GdbReturned
<1>5. CASE TimedOut
  BY <1>5 DEF TimedOut
<1>6. CASE Pkill
  BY <1>6 DEF Pkill, AfterKill
<1>7. CASE Read
  BY <1>7 DEF Read, Removed
<1>8. CASE NoFinger
  BY <1>8 DEF NoFinger
<1>9. CASE Refused
  BY <1>9 DEF Refused
<1>10. CASE OpenOut
  BY <1>10 DEF OpenOut
<1>11. CASE WriteOut
  BY <1>11 DEF WriteOut
<1>12. CASE GdbRun
  BY <1>12 DEF GdbRun
<1>13. CASE HitNothing
  BY <1>13 DEF HitNothing, Hit
<1>14. CASE HitOpen
  BY <1>14 DEF HitOpen, Hit
<1>15. CASE HitPart
  BY <1>15 DEF HitPart
<1>16. CASE HitDone
  BY <1>16 DEF HitDone
<1>17. CASE HpExits
  BY <1>17 DEF HpExits
<1>18. CASE GdbQuits
  BY <1>18 DEF GdbQuits
<1>19. CASE Killed
  BY <1>19 DEF Killed
<1> QED
  BY <1>1, <1>2, <1>3, <1>4, <1>5, <1>6, <1>7, <1>8, <1>9, <1>10, <1>11, <1>12,
     <1>13, <1>14, <1>15, <1>16, <1>17, <1>18, <1>19 DEF Next, Script, Gdb

-----------------------------------------------------------------------------
(* Between two captures nothing of the script runs, and what is about to   *)
(* be sent is what the last one reported.                                  *)
LoopInv ==
  /\ LoopTypeOK /\ Inv
  /\ loop \notin {"once", "capture"} => script \in {"start", "exited"}
  /\ loop = "send" => image = "whole" /\ (fixed_file \/ rc = 0)

LEMMA Started == LoopInit => LoopInv
  BY CaptureAssumption, LoopAssumption
  DEF LoopInit, Init, LoopInv, LoopTypeOK, TypeOK, Inv, Filed, Nested, Harvested, Cleared,
      ReportedIsNew, ToolReportsWhole, ReportedIsWhole, Contents, None, Refuses

LEMMA Still == Inv /\ UNCHANGED vars => Inv'
  BY DEF Inv, TypeOK, Filed, Nested, Harvested, Cleared, Refuses, ReportedIsNew,
         ToolReportsWhole, ReportedIsWhole, vars, setting

(* The loop's own steps leave the script alone, but for the one that       *)
(* starts it anew.                                                         *)
LEMMA Renewed == LoopInv /\ Attempt => Inv'
  BY CaptureAssumption
  DEF LoopInv, Attempt, Inv, TypeOK, Filed, Nested, Harvested, Cleared, Refuses,
      ReportedIsNew, ToolReportsWhole, ReportedIsWhole, Contents, None, setting

LEMMA LoopKept == LoopInv /\ [LoopNext]_allVars => LoopInv'
<1> SUFFICES ASSUME LoopInv, [LoopNext]_allVars PROVE LoopInv'
  OBVIOUS
<1>1. Inv'
  <2>1. CASE UNCHANGED vars
    BY <2>1, Still DEF LoopInv
  <2>2. CASE Attempt
    BY <2>2, Renewed
  <2>3. CASE Capturing
    BY <2>3, Kept DEF LoopInv, Capturing
  <2> QED
    BY <2>1, <2>2, <2>3 DEF LoopNext, Loop, allVars, Enough, ReadFile, CaptureFails,
       ReadOut, Send, SendFails, Sleep, Libfprint
<1> USE <1>1, LoopAssumption
    DEF LoopInv, LoopTypeOK, Inv, options, loopVars, vars, setting, Contents
<1>2. CASE Enough
  BY <1>2 DEF Enough
<1>3. CASE ReadFile
  BY <1>3 DEF ReadFile
<1>4. CASE Attempt
  BY <1>4 DEF Attempt
<1>5. CASE CaptureFails
  BY <1>5 DEF CaptureFails, TypeOK
<1>6. CASE ReadOut
  BY <1>6 DEF ReadOut, Failed, TypeOK, ToolReportsWhole, ReportedIsWhole
<1>7. CASE Send
  BY <1>7 DEF Send
<1>8. CASE SendFails
  BY <1>8 DEF SendFails, AfterRefusal
<1>9. CASE Sleep
  BY <1>9 DEF Sleep
<1>10. CASE Capturing
  <2>1. UNCHANGED packaged
    BY <1>10 DEF Capturing, Next, Script, Gdb, Refuse, MakeTemp, Launch, GdbReturned,
       TimedOut, Pkill, Read, NoFinger, Refused, OpenOut, WriteOut, GdbRun, HitNothing,
       HitOpen, HitPart, HitDone, HpExits, GdbQuits, Killed
  <2> QED
    BY <1>10, <2>1 DEF Capturing
<1>11. CASE Libfprint
  BY <1>11 DEF Libfprint
<1>12. CASE UNCHANGED allVars
  BY <1>12 DEF allVars
<1> QED
  BY <1>2, <1>3, <1>4, <1>5, <1>6, <1>7, <1>8, <1>9, <1>10, <1>11, <1>12 DEF LoopNext, Loop

(* The inductive invariant.                                                *)
THEOREM Invariance == LoopSpec => []LoopInv
  BY Started, LoopKept, PTL DEF LoopSpec

-----------------------------------------------------------------------------
(* The script, gdb, HP's binary and the loop keep their types.             *)
THEOREM Typing == LoopSpec => []LoopTypeOK
<1>1. LoopInv => LoopTypeOK
  BY DEF LoopInv
<1> QED
  BY <1>1, Invariance, PTL

(* However the script ends, gdb and HP's binary have let go of the sensor. *)
THEOREM Release == LoopSpec => []SensorReleased
<1>1. LoopInv => SensorReleased
  BY DEF LoopInv, Inv, TypeOK, Nested, SensorReleased
<1> QED
  BY <1>1, Invariance, PTL

(* An image that is reported comes from a breakpoint of that attempt.      *)
THEOREM Novelty == LoopSpec => []ReportedIsNew
<1>1. LoopInv => ReportedIsNew
  BY DEF LoopInv, Inv
<1> QED
  BY <1>1, Invariance, PTL

(* The packaged script leaves no fingerprint behind when it ends by itself. *)
THEOREM Removal == LoopSpec => []TempRemoved
<1>1. LoopInv => TempRemoved
  BY DEF LoopInv, Inv, Cleared, TempRemoved
<1> QED
  BY <1>1, Invariance, PTL

(* The script in tools/ reports whole images only.                         *)
THEOREM Wholeness == LoopSpec => []ToolReportsWhole
<1>1. LoopInv => ToolReportsWhole
  BY DEF LoopInv, Inv
<1> QED
  BY <1>1, Invariance, PTL

(* libfprint is sent whole images, each of the attempt just over.          *)
THEOREM Freshness == LoopSpec => []SentIsNew
<1>1. LoopInv => SentIsNew
  BY DEF LoopInv, Inv, ReportedIsNew, SentIsNew
<1> QED
  BY <1>1, Invariance, PTL

-----------------------------------------------------------------------------
(* The lines that are left of an attempt.                                  *)
Lines == IF script = "start" THEN 7 ELSE IF script = "launch" THEN 6 ELSE
         IF script = "run" THEN 5 ELSE IF script = "pkill" THEN 4 ELSE
         IF script = "read" THEN 3 ELSE IF script = "judge" THEN 2 ELSE
         IF script = "write" THEN 1 ELSE 0

(* While the script waits for gdb there is one to kill, or to reap.        *)
GdbThere == script = "run" => StillRuns \/ gdb = "dead"

LinesFall ==
  /\ ScriptRuns => Lines' < Lines
  /\ ~Attempt => Lines' <= Lines

(* An attempt is over after seven lines of the script, its timeout one of  *)
(* them: each leaves fewer, neither gdb nor HP's binary nor the bridge     *)
(* leaves more, however often the breakpoint is hit, and the script is     *)
(* never stuck in its wait for gdb.  AttemptEnds rests on this and on the  *)
(* script being run.                                                       *)
THEOREM AttemptBounded == LoopSpec => []GdbThere /\ [][LinesFall]_allVars
<1> USE DEF GdbThere, StillRuns, procs, vars
<1>1. LoopInit => GdbThere
  BY DEF LoopInit, Init
<1>2. Script => Lines' < Lines /\ (GdbThere => GdbThere')
  BY DEF Lines, Script, Refuse, MakeTemp, Launch, GdbReturned, TimedOut, Pkill, Read, NoFinger,
         Refused, OpenOut, WriteOut, Exit
<1>3. Gdb \/ HpExits \/ UNCHANGED vars => script' = script /\ (GdbThere => GdbThere')
  BY DEF Gdb, GdbRun, HitNothing, HitOpen, HitPart, HitDone, GdbQuits, HpExits, Hit
<1>4. Killed => script' = "killed"
  BY DEF Killed
<1>5. Lines \in 0 .. 7 /\ (script' = script => Lines' = Lines) /\ (script' = "killed" => Lines' = 0)
  BY DEF Lines
<1>6. Next \/ UNCHANGED vars => Lines' <= Lines /\ (GdbThere => GdbThere')
  <2>1. Lines' \in 0 .. 7
    BY DEF Lines
  <2> QED
    BY <1>2, <1>3, <1>4, <1>5, <2>1 DEF Next
<1>7. [LoopNext]_allVars => Attempt \/ Next \/ UNCHANGED vars
  BY DEF LoopNext, Loop, Capturing, Libfprint, Enough, ReadFile, CaptureFails, ReadOut, Send,
         SendFails, Sleep, allVars
<1>8. Attempt => script' = "start"
  BY DEF Attempt
<1>9. GdbThere /\ [LoopNext]_allVars => GdbThere'
  BY <1>6, <1>7, <1>8
<1>10. [LoopNext]_allVars => [LinesFall]_allVars
  BY <1>2, <1>6, <1>7 DEF LinesFall, ScriptRuns
<1> QED
  BY <1>1, <1>9, <1>10, PTL DEF LoopSpec

(* What is left of the tool bridge's loop with --file.                     *)
Turns == IF loop = "sleep" THEN 3 ELSE IF loop = "while" THEN 2 ELSE
         IF loop = "send" THEN 1 ELSE 0

TurnsFall ==
  fixed_file => /\ ~listening /\ Loop => Turns' < Turns
                /\ ~Loop => Turns' = Turns

(* With --file the loop makes no capture, and as long as nobody listens    *)
(* each step of it is one nearer to its end, three at most.  FileLoopEnds  *)
(* rests on this and on the loop being run.                                *)
THEOREM FileLoopBounded ==
  LoopSpec => [](fixed_file => loop # "capture") /\ [][TurnsFall]_allVars
<1> DEFINE NoCapture == fixed_file => loop # "capture"
<1>1. LoopInit => NoCapture
  BY DEF LoopInit
<1>2. NoCapture /\ [LoopNext]_allVars => NoCapture'
  BY DEF LoopNext, Loop, Capturing, Libfprint, Enough, ReadFile, Attempt, CaptureFails, ReadOut, Send,
         SendFails, AfterRefusal, Sleep, allVars, loopVars, options
<1>3. NoCapture /\ [LoopNext]_allVars => [TurnsFall]_allVars
  <2> SUFFICES ASSUME NoCapture, LoopNext, fixed_file
               PROVE  (~listening /\ Loop => Turns' < Turns) /\ (~Loop => Turns' = Turns)
    BY DEF TurnsFall
  <2>1. ~Loop => loop' = loop
    BY DEF LoopNext, Capturing, Libfprint, loopVars
  <2>2. ~listening /\ Loop => Turns' < Turns
    BY DEF Turns, Loop, Enough, ReadFile, Attempt, CaptureFails, ReadOut, Send, SendFails,
           AfterRefusal, Sleep
  <2> QED
    BY <2>1, <2>2 DEF Turns
<1> QED
  BY <1>1, <1>2, <1>3, PTL DEF LoopSpec
=============================================================================
