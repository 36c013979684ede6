----------------------------- MODULE ToolBridge -----------------------------
(***************************************************************************)
(* Who runs the capture script.  The packaged one is started once, by the  *)
(* daemon or by hand, and Capture says it all.  The one in tools/ is run   *)
(* by tools/vfs495_bridge.py, again and again, which sends what it finds   *)
(* in one and the same OUT.pgm to libfprint's socket; with --file it sends *)
(* an image that exists instead.                                           *)
(***************************************************************************)
EXTENDS Capture

CONSTANTS
  MaxAttempts,  \* bound: captures
  MaxSent       \* bound: images sent

ASSUME LoopAssumption == MaxAttempts \in Nat /\ MaxSent \in Nat

VARIABLES
  loop,       \* "once" (no loop), "while", "capture", "send", "sleep" or "ended"
  count,      \* --count, None when it is not given
  fixed_file, \* is there a --file?
  listening,  \* does libfprint listen on the socket?
  image,      \* w, h, data
  sent,
  attempts    \* captures so far

options == <<count, fixed_file>>
loopVars == <<loop, image, sent, attempts>>
allVars == <<vars, loop, count, fixed_file, listening, image, sent, attempts>>

LoopInit ==
  /\ Init
  /\ loop = IF packaged THEN "once" ELSE "while"
  /\ count \in {1, 2, None} /\ fixed_file \in BOOLEAN
  /\ listening \in BOOLEAN
  /\ image = "absent" /\ sent = 0 /\ attempts = 0

-----------------------------------------------------------------------------
FaultyFailed == FALSE     \* no look at the exit status
Failed == rc # 0

FaultyAfterRefusal == "sleep"    \* no break
AfterRefusal == IF fixed_file THEN "ended" ELSE "sleep"

More == count = None \/ sent < count

Enough ==
  /\ loop = "while" /\ ~More
  /\ loop' = "ended"
  /\ UNCHANGED <<vars, options, listening, image, sent, attempts>>

ReadFile ==
  /\ loop = "while" /\ More /\ fixed_file
  /\ image' = "whole" /\ loop' = "send"
  /\ UNCHANGED <<vars, options, listening, sent, attempts>>

(* A new script: its own temporary file, processes and exit status.  What  *)
(* an earlier one left in OUT.pgm is old, and HP's binary, if it still     *)
(* ran, would run on.                                                      *)
Attempt ==
  /\ loop = "while" /\ More /\ ~fixed_file /\ attempts < MaxAttempts
  /\ loop' = "capture" /\ attempts' = attempts + 1
  /\ script' = "start" /\ gdb' = "none" /\ stop' = "idle"
  /\ hp' = (IF hp = "run" THEN "run" ELSE "none")
  /\ asm' = "absent" /\ got' = "absent" /\ out' = "old" /\ rc' = None /\ hits' = 0
  /\ UNCHANGED <<setting, options, listening, image, sent>>

(* The script's own steps, once it is started.                             *)
Capturing == loop \in {"once", "capture"} /\ Next /\ UNCHANGED <<loopVars, options, listening>>

CaptureFails ==
  /\ loop = "capture" /\ rc # None /\ Failed
  /\ loop' = "while"
  /\ UNCHANGED <<vars, options, listening, image, sent, attempts>>

ReadOut ==
  /\ loop = "capture" /\ rc # None /\ ~Failed
  /\ image' = out /\ loop' = "send"
  /\ UNCHANGED <<vars, options, listening, sent, attempts>>

Send ==
  /\ loop = "send" /\ listening /\ sent < MaxSent
  /\ sent' = sent + 1 /\ loop' = "sleep"
  /\ UNCHANGED <<vars, options, listening, image, attempts>>

(* Nobody listens (ConnectionRefusedError, FileNotFoundError), or nobody   *)
(* does any more (BrokenPipeError): the image is lost.                     *)
SendFails ==
  /\ loop = "send" /\ ~listening
  /\ loop' = AfterRefusal
  /\ UNCHANGED <<vars, options, listening, image, sent, attempts>>

Sleep ==
  /\ loop = "sleep"
  /\ loop' = "while"
  /\ UNCHANGED <<vars, options, listening, image, sent, attempts>>

(* A program that uses libfprint comes and goes.                           *)
Libfprint ==
  /\ ~packaged /\ listening' = ~listening
  /\ UNCHANGED <<vars, loopVars, options>>

Loop ==
  \/ Enough \/ ReadFile \/ Attempt \/ CaptureFails \/ ReadOut
  \/ Send \/ SendFails \/ Sleep

LoopNext == Loop \/ Capturing \/ Libfprint

(* Both scripts run on, and nothing is asked of anybody else.              *)
ScriptRuns == Script /\ Capturing

LoopSpec ==
  LoopInit /\ [][LoopNext]_allVars /\ WF_allVars(Loop) /\ WF_allVars(ScriptRuns)

-----------------------------------------------------------------------------
LoopTypeOK ==
  /\ TypeOK
  /\ loop \in {"once", "while", "capture", "send", "sleep", "ended"}
  /\ (loop = "once" <=> packaged)
  /\ count \in {1, 2, None} /\ fixed_file \in BOOLEAN /\ listening \in BOOLEAN
  /\ image \in Contents \cup {"old"}
  /\ sent \in 0 .. MaxSent /\ attempts \in 0 .. MaxAttempts

(* What libfprint is sent is whole, and the swipe of the attempt just      *)
(* over, never what an earlier one left in OUT.pgm.                        *)
SentIsNew ==
  loop = "send" => image = "whole" /\ (~fixed_file => rc = 0 /\ hits > 0)

(* "default: loop until the socket closes" (vfs495_bridge.py:12): it does  *)
(* so with --file, where it tries no capture that would never be taken.    *)
FileLoopEnds ==
  fixed_file /\ loop # "once" => (<>[](~listening) => <>(loop = "ended"))
=============================================================================
