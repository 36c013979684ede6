---------------------------- MODULE ScanService -----------------------------
(***************************************************************************)
(* What the capture bridge promises, without generations, flags, threads   *)
(* and signals: sessions that follow one another, each of which holds the  *)
(* sensor for one scan after another and hands over one image at most.     *)
(***************************************************************************)
EXTENDS Naturals

CONSTANT MaxScans   \* scans in one session

VARIABLES
  sessions,   \* the session under way, if any: a set of at most one record
  out         \* images handed over so far

vars == <<sessions, out>>

(* A session has made some scans, its sensor is on or off, it has the      *)
(* image of the last scan or none, and it is open or about to end.         *)
At(n, sensor, image, phase) ==
  [scans |-> n, sensor |-> sensor, image |-> image, phase |-> phase]

Init == sessions = {} /\ out = 0

Begin ==
  /\ sessions = {}
  /\ sessions' = {At(0, "off", "none", "open")}
  /\ UNCHANGED out

ScanOn(s) ==
  /\ s.phase = "open" /\ s.sensor = "off" /\ s.scans < MaxScans
  /\ sessions' = {At(s.scans + 1, "on", "none", "open")}
  /\ UNCHANGED out

ScanOff(s) ==
  /\ s.phase = "open" /\ s.sensor = "on"
  /\ \E image \in {"none", "scan"} : sessions' = {At(s.scans, "off", image, "open")}
  /\ UNCHANGED out

HandOver(s) ==
  /\ s.phase = "open" /\ s.image = "scan" /\ s.sensor = "off"
  /\ sessions' = {At(s.scans, "off", s.image, "closing")}
  /\ out' = out + 1

GiveUp(s) ==
  /\ s.phase = "open" /\ s.sensor = "off"
  /\ sessions' = {At(s.scans, "off", s.image, "closing")}
  /\ UNCHANGED out

End(s) == s.phase = "closing" /\ sessions' = {} /\ UNCHANGED out

(* The process that serves the session dies.                               *)
Abort == sessions' = {} /\ UNCHANGED out

Next ==
  \/ Begin \/ Abort
  \/ \E s \in sessions : ScanOn(s) \/ ScanOff(s) \/ HandOver(s) \/ GiveUp(s) \/ End(s)

Spec == Init /\ [][Next]_vars
=============================================================================
