------------------------------- MODULE Capture ------------------------------
(***************************************************************************)
(* One capture attempt: capture.py runs gdb, gdb runs HP's binary with     *)
(* harvest_assembled.py on a breakpoint, and the image travels from the    *)
(* binary's memory through a temporary file to OUT.pgm.  Three processes,  *)
(* any of which may be killed between two of its steps: gdb and HP's       *)
(* binary at capture.py's own timeout, all of them by the bridge.          *)
(* When `packaged' is FALSE it is tools/vfs495_capture_asm.py, which       *)
(* removes the file in another place and refuses an image that is not      *)
(* whole.                                                                  *)
(*                                                                         *)
(* A file is "absent", "empty", "torn" (cut short by a kill) or "whole".   *)
(***************************************************************************)
EXTENDS Naturals

CONSTANT MaxHits   \* bound: times the breakpoint is hit

ASSUME CaptureAssumption == MaxHits \in Nat

VARIABLES
  packaged,   \* the packaged script, or the one in tools/
  installed,  \* is HP's binary there?
  script,     \* the next line of the script
  gdb,        \* "none", "load" (reading its script), "run" or "dead"
  hp,         \* HP's binary, which holds the sensor: "none", "run" or "dead"
  stop,       \* BP.stop: "idle", or writing: "open" or "part"
  asm,        \* the temporary file
  got,        \* the script's local d
  out,        \* OUT.pgm: "old" until the script opens it
  rc,         \* exit status, None while it runs
  hits        \* breakpoint hits so far

setting == <<packaged, installed>>
procs == <<gdb, hp, stop, hits>>
files == <<asm, out>>
vars == <<setting, script, gdb, hp, stop, asm, got, out, rc, hits>>

None == 99    \* no exit status yet
Contents == {"absent", "empty", "torn", "whole"}

Init ==
  /\ packaged \in BOOLEAN /\ installed \in BOOLEAN
  /\ script = "start" /\ gdb = "none" /\ hp = "none" /\ stop = "idle"
  /\ asm = "absent" /\ got = "absent" /\ out = "old"
  /\ rc = None /\ hits = 0

-----------------------------------------------------------------------------
(* What the properties must notice if it went missing.                     *)

FaultyFresh == "whole"          \* a fixed path, with what was left there
Fresh == "empty"

FaultyStillRuns == FALSE        \* no timeout
StillRuns == gdb \in {"load", "run"}

FaultyAfterKill == hp           \* no pkill
AfterKill == IF hp = "run" THEN "dead" ELSE hp

FaultyRemoved == asm            \* no unlink
Removed == "absent"

FaultyRefuses == FALSE          \* no reshape
Refuses == got = "torn" /\ ~packaged

FaultyExit(status) == script' = script /\ rc' = status     \* no return
Exit(status) == script' = "exited" /\ rc' = status

-----------------------------------------------------------------------------
(* capture.py                                                              *)

Refuse ==
  /\ script = "start" /\ packaged /\ ~installed
  /\ Exit(1)
  /\ UNCHANGED <<setting, procs, files, got>>

MakeTemp ==
  /\ script = "start" /\ (packaged => installed)
  /\ script' = "launch"
  /\ asm' = Fresh
  /\ UNCHANGED <<setting, procs, out, got, rc>>

Launch ==
  /\ script = "launch"
  /\ script' = "run" /\ gdb' = "load"
  /\ UNCHANGED <<setting, hp, stop, hits, files, got, rc>>

GdbReturned ==
  /\ script = "run" /\ gdb = "dead"
  /\ script' = "read"
  /\ UNCHANGED <<setting, procs, files, got, rc>>

(* subprocess.run has killed gdb, and with it the breakpoint handler, when *)
(* it raises TimeoutExpired; HP's binary goes with the pkill after that.   *)
TimedOut ==
  /\ script = "run" /\ StillRuns
  /\ script' = "pkill"
  /\ gdb' = "dead" /\ stop' = "idle"
  /\ UNCHANGED <<setting, hp, hits, files, got, rc>>

Pkill ==
  /\ script = "pkill"
  /\ script' = "read" /\ hp' = AfterKill
  /\ UNCHANGED <<setting, gdb, stop, hits, files, got, rc>>

(* The packaged script removes the file whatever it read; the other one    *)
(* looks at its size first and leaves it behind when it is too short.      *)
Read ==
  /\ script = "read"
  /\ got' = asm
  /\ script' = "judge"
  /\ asm' = IF packaged \/ asm # "empty" THEN Removed ELSE asm
  /\ UNCHANGED <<setting, procs, out, rc>>

NoFinger ==
  /\ script = "judge" /\ got = "empty"
  /\ Exit(10)
  /\ UNCHANGED <<setting, procs, files, got>>

(* reshape(h, w) raises ValueError; only the script in tools/ calls it.    *)
Refused ==
  /\ script = "judge" /\ Refuses
  /\ Exit(1)
  /\ UNCHANGED <<setting, procs, files, got>>

OpenOut ==
  /\ script = "judge" /\ got # "empty" /\ ~Refuses
  /\ script' = "write" /\ out' = "empty"
  /\ UNCHANGED <<setting, procs, asm, got, rc>>

WriteOut ==
  /\ script = "write"
  /\ out' = got
  /\ Exit(0)
  /\ UNCHANGED <<setting, procs, asm, got>>

-----------------------------------------------------------------------------
(* gdb with harvest_assembled.py, and HP's binary under it.                *)

GdbRun ==
  /\ gdb = "load"
  /\ IF installed THEN gdb' = "run" /\ hp' = "run" ELSE gdb' = "dead" /\ hp' = hp
  /\ UNCHANGED <<setting, script, stop, hits, files, got, rc>>

Hit == gdb = "run" /\ hp = "run" /\ stop = "idle" /\ hits < MaxHits /\ hits' = hits + 1

(* No image yet, impossible dimensions, or unreadable memory.              *)
HitNothing ==
  /\ Hit
  /\ UNCHANGED <<setting, script, gdb, hp, stop, files, got, rc>>

(* open(OUT, "wb") empties the file, whatever an earlier hit put there ... *)
HitOpen ==
  /\ Hit
  /\ stop' = "open" /\ asm' = "empty"
  /\ UNCHANGED <<setting, script, gdb, hp, out, got, rc>>

(* ... and the image arrives in pieces.                                    *)
HitPart ==
  /\ stop = "open"
  /\ stop' = "part" /\ asm' = "torn"
  /\ UNCHANGED <<setting, script, gdb, hp, hits, out, got, rc>>

HitDone ==
  /\ stop \in {"open", "part"}
  /\ stop' = "idle" /\ asm' = "whole"
  /\ UNCHANGED <<setting, script, gdb, hp, hits, out, got, rc>>

(* getprintwait ends, or, once gdb is gone, dies at the breakpoint.        *)
HpExits ==
  /\ hp = "run" /\ stop = "idle"
  /\ hp' = "dead"
  /\ UNCHANGED <<setting, script, gdb, stop, hits, files, got, rc>>

GdbQuits ==
  /\ gdb = "run" /\ hp = "dead"
  /\ gdb' = "dead"
  /\ UNCHANGED <<setting, script, hp, stop, hits, files, got, rc>>

-----------------------------------------------------------------------------
(* kill_capture of bridge.py: the process group, then HP's binary.         *)
Killed ==
  /\ packaged /\ script \notin {"exited", "killed"}
  /\ script' = "killed" /\ stop' = "idle"
  /\ gdb' = (IF gdb = "none" THEN "none" ELSE "dead")
  /\ hp' = (IF hp = "run" THEN "dead" ELSE hp)
  /\ UNCHANGED <<setting, hits, files, got, rc>>

Script ==
  \/ Refuse \/ MakeTemp \/ Launch \/ GdbReturned \/ TimedOut \/ Pkill \/ Read
  \/ NoFinger \/ Refused \/ OpenOut \/ WriteOut

Gdb == GdbRun \/ HitNothing \/ HitOpen \/ HitPart \/ HitDone \/ GdbQuits

Next == Script \/ Gdb \/ HpExits \/ Killed

Spec == Init /\ [][Next]_vars

-----------------------------------------------------------------------------
TypeOK ==
  /\ packaged \in BOOLEAN /\ installed \in BOOLEAN
  /\ script \in {"start", "launch", "run", "pkill", "read", "judge", "write", "exited", "killed"}
  /\ gdb \in {"none", "load", "run", "dead"} /\ hp \in {"none", "run", "dead"}
  /\ stop \in {"idle", "open", "part"}
  /\ asm \in Contents /\ got \in Contents /\ out \in Contents \cup {"old"}
  /\ rc \in {0, 1, 10, None} /\ (rc # None <=> script = "exited")
  /\ hits \in 0 .. MaxHits

(* When the script has ended, however it ended, nobody holds the sensor:   *)
(* what the bridge's CaptureExit and KillCapture rely on.                  *)
SensorReleased ==
  script \in {"exited", "killed"} => gdb \in {"none", "dead"} /\ hp # "run"

(* An image that is reported was harvested by this attempt, never left     *)
(* over from an earlier one.                                               *)
ReportedIsNew == rc = 0 => hits > 0

(* The packaged script, when it ends by itself, leaves no temporary file   *)
(* with a fingerprint in it, and gdb cannot bring it back afterwards.      *)
TempRemoved == script = "exited" /\ packaged => asm = "absent"

(* However long HP's binary waits for a finger, the attempt ends.          *)
AttemptEnds == script = "launch" ~> script \in {"exited", "killed"}

(* "Writes: <u32 dim1><u32 dim2><dim1*dim2 bytes>"                         *)
(* (harvest_assembled.py:2-3): what an exit status of 0 reports is a whole *)
(* image.                                                                  *)
ReportedIsWhole == rc = 0 => out = "whole"

(* The script in tools/ keeps to that: its reshape(h, w) refuses an image  *)
(* that the timeout has cut short.                                         *)
ToolReportsWhole == ~packaged => ReportedIsWhole
=============================================================================
