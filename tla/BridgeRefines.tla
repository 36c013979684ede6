--------------------------- MODULE BridgeRefines ----------------------------
(* The bridge implements ScanService, for any number of threads.           *)
EXTENDS BridgeProofs

USE DEF Attempts, Process, Outcomes, WorkerPC, MainPC, Worker, Thread, NoWorker, Alive,
        ProcessOf, Goto, Retry, fprintdVars, stateVars, history

sessions == {Session(t) : t \in Alive}

(* The invariant the mapping rests on.                                     *)
Sound == TypeOK /\ Owned /\ DeliversScan

(* The session of the one worker alive is the only one ...                 *)
LEMMA OneSession == ASSUME Sound, NEW t \in Alive PROVE sessions = {Session(t)}
  BY DEF sessions, Sound, Owned, OneWorker

(* ... and stays so over a step that does not end that worker.             *)
LEMMA SameSession ==
  ASSUME Sound', NEW t \in Threads, worker'[t].pc # "none"
  PROVE  sessions' = {Session(t)'}
<1>1. t \in Alive'
  OBVIOUS
<1> QED
  BY <1>1 DEF sessions, Sound, Owned, OneWorker

(* No worker, no session.                                                  *)
LEMMA NoSession == Alive = {} => sessions = {}
  BY DEF sessions

(* A step that moves neither the workers nor the processes is invisible.   *)
LEMMA Invisible ==
  ASSUME worker' = worker, running' = running, sent' = sent
  PROVE  UNCHANGED Service!vars
<1>1. Alive' = Alive /\ \A t \in Threads : Session(t)' = Session(t)
  BY DEF Session
<1> QED
  BY <1>1 DEF Service!vars

LEMMA StepRefines == Sound /\ Sound' /\ [Next]_vars => [Service!Next]_(Service!vars)
<1> SUFFICES ASSUME Sound, Sound', [Next]_vars PROVE [Service!Next]_(Service!vars)
  OBVIOUS
<1>0. worker \in [Threads -> Worker]
  BY DEF Sound, TypeOK, DataOK
<1>1. CASE Fprintd
  BY <1>1, Invisible DEF Fprintd, VerifyStart, EnrollStage, VerifyNeedsFinger, StopNeeding, Vanish
<1>2. CASE OnNeeded \/ CheckInitial \/ NeedBusy \/ OnNotNeeded \/ CancelIdle \/ CancelBusy
           \/ KillRead \/ Restart
  BY <1>2, Invisible DEF OnNeeded, CheckInitial, NeedBusy, OnNotNeeded, CancelIdle, CancelBusy,
                         KillRead, Restart
<1>3. CASE NeedStart
  <2> PICK t \in Threads : worker' = [worker EXCEPT ![t] = Thread("spawn", NextGen)]
    BY <1>3 DEF NeedStart
  <2>1. Alive = {} /\ running' = running /\ sent' = sent
    BY <1>3 DEF NeedStart, Busy, Sound, Owned, FlagTracksWorker
  <2>2. running = {}
    BY <2>1, OwnersAlive DEF Sound
  <2>3. worker'[t] = Thread("spawn", NextGen)
    BY DEF Sound, TypeOK, DataOK
  <2>4. Session(t)' = Service!At(0, "off", "none", "open")
    BY <2>1, <2>2, <2>3 DEF Session, Service!At
  <2>5. sessions = {} /\ sessions' = {Session(t)'}
    BY <2>1, <2>3, NoSession, SameSession
  <2> QED
    BY <2>1, <2>4, <2>5 DEF Service!Next, Service!Begin, sessions
<1>4. CASE KillCapture
  <2>1. sent' = sent /\ running' = running \ {target}
    BY <1>4 DEF KillCapture
  <2>2. CASE target \in running
    <3> PICK t \in Alive : t = target[1]
      BY <2>2, OwnersAlive DEF Sound
    <3>1. target = ProcessOf(t) /\ worker[t].pc # "finish" /\ worker[t].pc # "spawn"
      BY <2>2 DEF Sound, Owned, WaitedFor
    <3>2. worker' = [worker EXCEPT ![t].result = "killed"]
      BY <1>4, <2>2 DEF KillCapture
    <3>3. worker'[t] = [worker[t] EXCEPT !.result = "killed"]
      BY <3>1, <3>2 DEF Sound, TypeOK, DataOK
    <3>4. worker'[t].result = "killed" /\ worker'[t].pc = worker[t].pc
          /\ worker'[t].attempt = worker[t].attempt
      <4>1. worker[t] \in Worker
        BY <1>0
      <4> QED
        BY <3>3, <4>1
    <3>5. /\ Session(t).phase = "open" /\ Session(t).sensor = "on"
          /\ Session(t)' = Service!At(Session(t).scans, "off", "none", "open")
      <4>1. ProcessOf(t) \in running /\ ProcessOf(t)' \notin running'
        BY <2>1, <2>2, <3>1, <3>4
      <4> QED
        BY <4>1, <3>1, <3>4 DEF Session, Service!At
    <3>6. sessions = {Session(t)} /\ sessions' = {Session(t)'}
      BY <3>1, <3>4, OneSession, SameSession
    <3> QED
      BY <2>1, <3>5, <3>6 DEF Service!Next, Service!ScanOff, sessions
  <2>3. CASE target \notin running
    BY <1>4, <2>1, <2>3, Invisible DEF KillCapture
  <2> QED
    BY <2>2, <2>3
<1>5. CASE \E t \in Threads : WorkerThread(t)
  <2> PICK t \in Threads : WorkerThread(t)
    BY <1>5
  <2>0. t \in Alive /\ sessions = {Session(t)}
    <3>1. t \in Alive
      BY DEF WorkerThread, Spawn, Register, Reap, CheckGen, CheckWanted, Deliver,
             DeliverFails, Finish
    <3> QED
      BY <3>1, OneSession
  <2>a. worker[t].pc \notin {"register", "wait"} => running = {}
    BY <2>0, NoneRuns DEF Sound
  <2>1. CASE Spawn(t)
    <3>1. worker'[t] = [worker[t] EXCEPT !.pc = "register", !.result = "none"]
      BY <2>1 DEF Spawn, Sound, TypeOK, DataOK
    <3>2. worker'[t].pc = "register" /\ worker'[t].result = "none"
          /\ worker'[t].attempt = worker[t].attempt /\ worker[t].attempt \in {0, 1}
      BY <3>1 DEF Sound, TypeOK, DataOK
    <3>3. running = {} /\ running' = {ProcessOf(t)} /\ sent' = sent /\ worker[t].pc = "spawn"
      BY <2>1, <2>a DEF Spawn
    <3>4. Session(t)' = Service!At(Session(t).scans + 1, "on", "none", "open")
      BY <3>2, <3>3 DEF Session, Service!At
    <3>5. Session(t).scans < 2 /\ Session(t).sensor = "off" /\ Session(t).phase = "open"
      BY <3>2, <3>3 DEF Session
    <3>6. sessions' = {Session(t)'}
      BY <3>2, SameSession
    <3> QED
      BY <2>0, <3>3, <3>4, <3>5, <3>6 DEF Service!Next, Service!ScanOn, sessions
  <2>2. CASE Register(t) \/ Reap(t)
    <3>1. sent' = sent /\ running' = running
      BY <2>2 DEF Register, Reap
    <3>2. \E l \in {"wait", "checkgen"} : worker'[t] = [worker[t] EXCEPT !.pc = l]
      BY <2>2 DEF Register, Reap, Sound, TypeOK, DataOK
    <3>3. /\ worker'[t].pc \in {"wait", "checkgen"} /\ worker'[t].result = worker[t].result
          /\ worker'[t].attempt = worker[t].attempt /\ worker[t].pc \in {"register", "wait"}
      BY <2>2, <3>2 DEF Register, Reap, Sound, TypeOK, DataOK
    <3>4. Session(t)' = Session(t)
      BY <3>1, <3>3 DEF Session
    <3>5. sessions' = {Session(t)'}
      BY <3>3, SameSession
    <3> QED
      BY <2>0, <3>1, <3>4, <3>5 DEF Service!vars, sessions
  <2>3. CASE CheckWanted(t) /\ worker'[t].pc # "finish"
    <3>1. sent' = sent /\ running = {} /\ running' = {} /\ worker[t].pc = "checkwanted"
      BY <2>3, <2>a DEF CheckWanted
    <3>2. CASE worker' = [worker EXCEPT ![t].pc = "deliver"]
      <4>1. worker'[t] = [worker[t] EXCEPT !.pc = "deliver"]
        BY <3>2 DEF Sound, TypeOK, DataOK
      <4>2. worker'[t].pc = "deliver" /\ worker'[t].result = worker[t].result
            /\ worker'[t].attempt = worker[t].attempt
        BY <4>1 DEF Sound, TypeOK, DataOK
      <4>3. Session(t)' = Session(t) /\ sessions' = {Session(t)'}
        BY <3>1, <4>2, SameSession DEF Session
      <4> QED
        BY <2>0, <3>1, <4>3 DEF Service!vars, sessions
    <3>3. CASE ~LastAttempt(t)
               /\ Retry(t)
      <4>1. worker[t].attempt = 0
        BY <3>3 DEF Sound, TypeOK, DataOK, LastAttempt
      <4>0. worker'[t] = [worker[t] EXCEPT !.pc = "spawn", !.attempt = worker[t].attempt + 1]
        BY <3>3 DEF Sound, TypeOK, DataOK
      <4>2. worker'[t].pc = "spawn" /\ worker'[t].result = worker[t].result
            /\ worker'[t].attempt = 1
        <5>1. DOMAIN worker[t] = {"pc", "gen", "attempt", "result"}
          BY DEF Sound, TypeOK, DataOK
        <5> QED
          BY <4>0, <4>1, <5>1
      <4>3. Session(t)' = Session(t) /\ sessions' = {Session(t)'}
        BY <3>1, <4>1, <4>2, SameSession DEF Session
      <4> QED
        BY <2>0, <3>1, <4>3 DEF Service!vars, sessions
    <3>4. CASE worker' = [worker EXCEPT ![t].pc = "finish"]
      BY <2>3, <3>4 DEF Sound, TypeOK, DataOK
    <3> QED
      BY <2>3, <3>2, <3>3, <3>4 DEF CheckWanted
  <2>4. CASE CheckGen(t) /\ worker'[t].pc # "finish"
    <3>1. sent' = sent /\ running = {} /\ running' = {} /\ worker[t].pc = "checkgen"
      BY <2>4, <2>a DEF CheckGen
    <3>2. \E l \in {"finish", "checkwanted"} : worker'[t] = [worker[t] EXCEPT !.pc = l]
      BY <2>4 DEF CheckGen, Sound, TypeOK, DataOK
    <3>3. worker'[t].pc = "checkwanted" /\ worker'[t].result = worker[t].result
          /\ worker'[t].attempt = worker[t].attempt
      BY <2>4, <3>2 DEF Sound, TypeOK, DataOK
    <3>4. Session(t)' = Session(t) /\ sessions' = {Session(t)'}
      BY <3>1, <3>3, SameSession DEF Session
    <3> QED
      BY <2>0, <3>1, <3>4 DEF Service!vars, sessions
  <2>5. ASSUME worker[t].pc \in {"checkgen", "checkwanted", "deliver"}, running' = running,
               worker' = [worker EXCEPT ![t].pc = "finish"]
        PROVE  /\ Session(t).phase = "open" /\ Session(t).sensor = "off"
               /\ sessions' = {Service!At(Session(t).scans, "off", Session(t).image, "closing")}
    <3>1. worker'[t] = [worker[t] EXCEPT !.pc = "finish"]
      BY <2>5 DEF Sound, TypeOK, DataOK
    <3>2. worker'[t].pc = "finish" /\ worker'[t].result = worker[t].result
          /\ worker'[t].attempt = worker[t].attempt
      BY <3>1 DEF Sound, TypeOK, DataOK
    <3>3. running = {} /\ running' = {}
      BY <2>5, <2>a
    <3>4. Session(t)' = Service!At(Session(t).scans, "off", Session(t).image, "closing")
      BY <2>5, <3>2, <3>3 DEF Session, Service!At
    <3>6. sessions' = {Session(t)'}
      BY <3>2, SameSession
    <3>5. Session(t).phase = "open" /\ Session(t).sensor = "off"
      BY <2>5, <3>3 DEF Session
    <3> QED
      BY <3>4, <3>5, <3>6
  <2>6. CASE (CheckGen(t) \/ CheckWanted(t)) /\ worker'[t].pc = "finish"
    <3>1. sent' = sent /\ running' = running /\ worker[t].pc \in {"checkgen", "checkwanted", "deliver"}
      BY <2>6 DEF CheckGen, CheckWanted
    <3>2. worker' = [worker EXCEPT ![t].pc = "finish"]
      <4>1. CASE CheckGen(t)
        BY <2>6, <4>1 DEF CheckGen, Sound, TypeOK, DataOK
      <4>2. CASE CheckWanted(t)
        <5>1. CASE Retry(t)
          <6>1. worker'[t].pc = "spawn"
            BY <5>1, <1>0
          <6> QED
            BY <2>6, <6>1
        <5>2. CASE worker' = [worker EXCEPT ![t].pc = "deliver"]
          <6>1. worker'[t].pc = "deliver"
            BY <5>2, <1>0
          <6> QED
            BY <2>6, <6>1
        <5> QED
          BY <4>2, <5>1, <5>2 DEF CheckWanted
      <4> QED
        BY <2>6, <4>1, <4>2
    <3> QED
      BY <2>0, <2>5, <3>1, <3>2 DEF Service!Next, Service!GiveUp, sessions
  <2>7. CASE DeliverFails(t)
    <3>1. sent' = sent /\ running' = running /\ worker[t].pc = "deliver"
          /\ worker' = [worker EXCEPT ![t].pc = "finish"]
      BY <2>7 DEF DeliverFails, Return
    <3> QED
      BY <2>0, <2>5, <3>1 DEF Service!Next, Service!GiveUp, sessions
  <2>8. CASE Deliver(t)
    <3>1. sent' = sent + 1 /\ running' = running /\ worker[t].pc = "deliver"
          /\ worker' = [worker EXCEPT ![t].pc = "finish"]
      BY <2>8 DEF Deliver, Return
    <3>2. Session(t).image = "scan"
      BY <3>1 DEF Session, Sound, DeliversScan
    <3> QED
      BY <2>0, <2>5, <3>1, <3>2 DEF Service!Next, Service!HandOver, sessions
  <2>9. CASE Finish(t)
    <3>1. sent' = sent /\ worker[t].pc = "finish"
      BY <2>9 DEF Finish
    <3>2. Alive' = {}
      BY <2>0, <2>9 DEF Finish, Sound, TypeOK, DataOK, Owned, OneWorker
    <3>3. sessions' = {}
      BY <3>2 DEF sessions
    <3>4. Session(t).phase = "closing"
      BY <3>1 DEF Session
    <3> QED
      BY <2>0, <3>1, <3>3, <3>4 DEF Service!Next, Service!End, sessions
  <2> QED
    BY <2>1, <2>2, <2>3, <2>4, <2>6, <2>7, <2>8, <2>9 DEF WorkerThread
<1>6. CASE \E p \in running : CaptureExit(p)
  <2>1. PICK p \in running : CaptureExit(p)
    BY <1>6
  <2>2. PICK r \in Outcomes :
          worker' = [worker EXCEPT ![p[1]].result = r]
    BY <2>1 DEF CaptureExit
  <2>3. PICK t \in Alive : t = p[1]
    BY OwnersAlive DEF Sound
  <2>4. p = ProcessOf(t) /\ worker[t].pc # "finish" /\ worker[t].pc # "spawn"
    BY <2>3 DEF Sound, Owned, WaitedFor
  <2>5. worker'[t] = [worker[t] EXCEPT !.result = r]
    BY <1>0, <2>2, <2>3
  <2>6. worker'[t].result = r /\ worker'[t].pc = worker[t].pc
        /\ worker'[t].attempt = worker[t].attempt
    <3>1. worker[t] \in Worker
      BY <1>0
    <3> QED
      BY <2>5, <3>1
  <2>7. sent' = sent /\ running' = running \ {p}
    BY <2>1 DEF CaptureExit
  <2> DEFINE i == IF r = "scan" THEN "scan" ELSE "none"
  <2>8. /\ Session(t).phase = "open" /\ Session(t).sensor = "on"
        /\ Session(t)' = Service!At(Session(t).scans, "off", i, "open")
    <3>1. ProcessOf(t) \in running /\ ProcessOf(t)' \notin running'
      BY <2>4, <2>6, <2>7
    <3> QED
      BY <3>1, <2>4, <2>6 DEF Session, Service!At
  <2>9. sessions = {Session(t)} /\ sessions' = {Session(t)'}
    BY <2>4, <2>6, OneSession, SameSession
  <2>10. i \in {"none", "scan"}
    OBVIOUS
  <2> HIDE DEF i
  <2> QED
    BY <2>7, <2>8, <2>9, <2>10 DEF Service!Next, Service!ScanOff, sessions
<1>8. CASE Crash
  <2>1. Alive' = {} /\ sent' = sent
    BY <1>8 DEF Crash
  <2> QED
    BY <2>1 DEF Service!Next, Service!Abort
<1>9. CASE UNCHANGED vars
  BY <1>9, Invisible DEF vars
<1> QED
  BY <1>1, <1>2, <1>3, <1>4, <1>5, <1>6, <1>8, <1>9 DEF Next, MainThread

(* One session at a time, two scans in it, and one image out of it at      *)
(* most: the bridge, with its crashes, does nothing ScanService does not.  *)
THEOREM Refinement == Spec => ImplementsService
<1>1. Init => Service!Init
  BY DEF Init, Service!Init
<1>2. TypeOK /\ IInv => Sound
  BY DEF Sound, IInv, Owned
<1>3. Sound /\ Sound' /\ [Next]_vars => [Service!Next]_(Service!vars)
  BY StepRefines
<1> QED
  BY <1>1, <1>2, <1>3, Typing, Invariance, PTL DEF Spec, Service!Spec, ImplementsService
=============================================================================
