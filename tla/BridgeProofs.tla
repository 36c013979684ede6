---------------------------- MODULE BridgeProofs ----------------------------
(* Theorems about the bridge, for any number of threads and requests: one  *)
(* capture at a time, what a cancellation does and what becomes of one     *)
(* that misses, and how far each worker is from its end.                   *)
EXTENDS Bridge, TLAPS

(* A step that touches nothing but the workers, their processes and what   *)
(* is counted of them.                                                     *)
LEMMA WorkersOnly ==
  ASSUME DataOK, worker' \in [Threads -> Worker], running' \subseteq Process,
         proc' \in Process \cup {None}, tried' \in 0 .. MaxReq, sent' \in Nat,
         UNCHANGED <<fp, req, mq, main, target, gen, crashes>>
  PROVE  DataOK'
  BY DEF DataOK

(* Constants the provers see through in every step.                        *)
USE BoundsAssumption DEF Attempts, Process, Signals, Outcomes, WorkerPC, MainPC,
                         Worker, Thread, NoWorker, Alive, ProcessOf, Goto, Retry, Emit, fprintdVars,
                         stateVars, history

(* Moving a thread from one line to another keeps it a worker.             *)
LEMMA Moves ==
  ASSUME worker \in [Threads -> Worker], NEW t \in Threads, NEW l \in WorkerPC,
         worker' = [worker EXCEPT ![t].pc = l]
  PROVE  worker' \in [Threads -> Worker]
  OBVIOUS

(* So does noting how its capture ended.                                   *)
LEMMA Ends ==
  ASSUME worker \in [Threads -> Worker], NEW t \in Threads,
         NEW r \in Outcomes \cup {"none", "killed"},
         worker' = [worker EXCEPT ![t].result = r]
  PROVE  worker' \in [Threads -> Worker]
  OBVIOUS

(* And any other new record of it.                                         *)
LEMMA Replaced ==
  ASSUME worker \in [Threads -> Worker], NEW t \in Threads, NEW w \in Worker,
         worker' = [worker EXCEPT ![t] = w]
  PROVE  worker' \in [Threads -> Worker]
  OBVIOUS

(* What a capture process leaves when it ends changes nothing else of its  *)
(* worker ...                                                              *)
LEMMA Noted ==
  ASSUME NEW w \in Worker, NEW r, NEW v, v = [w EXCEPT !.result = r]
  PROVE  v.result = r /\ v.pc = w.pc /\ v.attempt = w.attempt /\ v.gen = w.gen
  OBVIOUS

(* ... and nothing of the others.                                          *)
LEMMA Exited ==
  ASSUME worker \in [Threads -> Worker], NEW t \in Threads, NEW r,
         worker' = [worker EXCEPT ![t].result = r]
  PROVE  /\ \A u \in Threads : /\ worker'[u].pc = worker[u].pc
                              /\ worker'[u].attempt = worker[u].attempt
                              /\ worker'[u].gen = worker[u].gen
         /\ \A u \in Threads : u # t => worker'[u] = worker[u]
         /\ worker'[t].result = r
<1>1. worker'[t] = [worker[t] EXCEPT !.result = r] /\ worker[t] \in Worker
  OBVIOUS
<1>2. /\ worker'[t].pc = worker[t].pc /\ worker'[t].attempt = worker[t].attempt
      /\ worker'[t].gen = worker[t].gen /\ worker'[t].result = r
  BY <1>1, Noted
<1>3. \A u \in Threads : u # t => worker'[u] = worker[u]
  OBVIOUS
<1> QED
  BY <1>2, <1>3

(* A step to another line changes nothing but the line.                    *)
LEMMA Turned ==
  ASSUME worker \in [Threads -> Worker], NEW t \in Threads, NEW l \in WorkerPC,
         worker' = [worker EXCEPT ![t].pc = l]
  PROVE  /\ worker'[t].pc = l /\ worker'[t].gen = worker[t].gen
         /\ worker'[t].attempt = worker[t].attempt /\ worker'[t].result = worker[t].result
         /\ \A u \in Threads : u # t => worker'[u] = worker[u]
<1>1. worker'[t] = [worker[t] EXCEPT !.pc = l] /\ worker[t] \in Worker
  OBVIOUS
<1>2. \A u \in Threads : u # t => worker'[u] = worker[u]
  OBVIOUS
<1> QED
  BY <1>1, <1>2

(* The flags of the dictionary stay Boolean.                               *)
LEMMA FlagTyping == Spec => []FlagsOK
<1>1. Init => FlagsOK
  BY DEF Init, FlagsOK
<1>2. FlagsOK /\ [Next]_vars => FlagsOK'
  <2> SUFFICES ASSUME FlagsOK, [Next]_vars PROVE FlagsOK'
    OBVIOUS
  <2>1. CASE Fprintd
    BY <2>1 DEF FlagsOK, Fprintd, VerifyStart, EnrollStage, VerifyNeedsFinger, StopNeeding,
                Vanish
  <2>2. CASE MainThread
    BY <2>2 DEF FlagsOK, MainThread, OnNeeded, CheckInitial, NeedBusy, NeedStart, OnNotNeeded,
                CancelIdle, CancelBusy, KillRead, KillCapture
  <2>3. CASE \E t \in Threads : WorkerThread(t)
    BY <2>3 DEF FlagsOK, WorkerThread, Spawn, Register, Reap, CheckGen, CheckWanted, Deliver,
                DeliverFails, Finish, Released
  <2>4. CASE (\E p \in running : CaptureExit(p)) \/ Crash \/ Restart
    BY <2>4 DEF FlagsOK, CaptureExit, Crash, Restart
  <2>5. CASE UNCHANGED vars
    BY <2>5 DEF FlagsOK, vars
  <2> QED
    BY <2>1, <2>2, <2>3, <2>4, <2>5 DEF Next
<1> QED
  BY <1>1, <1>2, PTL DEF Spec

(* The program counters, the generation and the Popen objects the threads  *)
(* hand one another keep their types.                                      *)
LEMMA DataTyping == Spec => []DataOK
<1>1. Init => DataOK
  BY DEF Init, DataOK
<1>2. DataOK /\ [Next]_vars => DataOK'
  <2> SUFFICES ASSUME DataOK, [Next]_vars PROVE DataOK'
    OBVIOUS
  <2>0. /\ worker \in [Threads -> Worker] /\ running \subseteq Process
        /\ target \in Process \cup {None} /\ proc \in Process \cup {None}
        /\ fp \in {"idle", "needed", "selected"} /\ mq \in Seq(Signals)
        /\ req \in 0 .. MaxReq /\ tried \in 0 .. MaxReq /\ sent \in Nat
        /\ DataOK
    BY DEF DataOK
  <2>1. CASE Fprintd
    <3>1. CASE VerifyStart
      BY <3>1 DEF DataOK, VerifyStart, NewRequest
    <3>2. CASE EnrollStage
      BY <3>2 DEF DataOK, EnrollStage, NewRequest
    <3>3. CASE VerifyNeedsFinger
      BY <3>3 DEF DataOK, VerifyNeedsFinger
    <3>4. CASE StopNeeding
      BY <3>4 DEF DataOK, StopNeeding
    <3>5. CASE Vanish
      BY <3>5 DEF DataOK, Vanish
    <3> QED
      BY <2>1, <3>1, <3>2, <3>3, <3>4, <3>5 DEF Fprintd
  <2>2. CASE OnNeeded
    BY <2>2 DEF DataOK, OnNeeded
  <2>3. CASE CheckInitial
    BY <2>3 DEF DataOK, CheckInitial
  <2>4. CASE NeedBusy
    BY <2>4 DEF DataOK, NeedBusy
  <2>5. CASE NeedStart
    <3>1. Thread("spawn", NextGen) \in Worker
      BY DEF DataOK, NextGen, Thread
    <3> QED
      BY <2>5, <3>1 DEF DataOK, NeedStart, NextGen
  <2>6. CASE OnNotNeeded
    <3>1. main' \in MainPC
      BY <2>6 DEF OnNotNeeded
    <3> QED
      BY <2>6, <3>1 DEF DataOK, OnNotNeeded
  <2>7. CASE CancelIdle
    BY <2>7 DEF DataOK, CancelIdle
  <2>8. CASE CancelBusy
    BY <2>8 DEF DataOK, CancelBusy, NextGen
  <2>9. CASE KillRead
    BY <2>9 DEF DataOK, KillRead
  <2>10. CASE KillCapture
    <3>1. worker' \in [Threads -> Worker]
      <4>1. CASE target \in running
        <5>1. worker' = [worker EXCEPT ![target[1]].result = "killed"]
          BY <2>10, <4>1 DEF KillCapture
        <5>2. target[1] \in Threads
          BY <4>1, <2>0
        <5> QED
          BY <5>1, <5>2, <2>0, Ends
      <4>2. CASE target \notin running
        BY <2>10, <4>2, <2>0 DEF KillCapture
      <4> QED
        BY <4>1, <4>2
    <3>2. /\ running' \subseteq running /\ target' = None /\ main' = "loop"
          /\ UNCHANGED <<fp, req, mq, proc, gen, crashes, tried, sent>>
      BY <2>10 DEF KillCapture
    <3> QED
      BY <3>1, <3>2 DEF DataOK
  <2>11. CASE \E t \in Threads : WorkerThread(t)
    <3> PICK t \in Threads : WorkerThread(t)
      BY <2>11
    <3>0. worker[t] \in Worker
      BY <2>0
    <3>1. CASE Spawn(t)
      <4>1. [worker[t] EXCEPT !.pc = "register", !.result = "none"] \in Worker
        BY <3>0
      <4>2. worker' \in [Threads -> Worker]
        BY <3>1, <4>1, <2>0, Replaced DEF Spawn
      <4>3. running' \subseteq Process /\ tried' \in 0 .. MaxReq
        BY <3>1, <3>0, <2>0 DEF Spawn
      <4>4. UNCHANGED <<fp, req, mq, main, target, proc, gen, crashes, sent>>
        BY <3>1 DEF Spawn
      <4> QED
        BY <4>2, <4>3, <4>4, <2>0, WorkersOnly
    <3>2. CASE Register(t)
      <4>1. proc' \in Process
        BY <3>2, <3>0 DEF Register
      <4>2. worker' \in [Threads -> Worker]
        BY <3>2, <2>0, Moves DEF Register
      <4>3. UNCHANGED <<fp, req, mq, main, target, gen, running, crashes, tried, sent>>
        BY <3>2 DEF Register
      <4> QED
        BY <4>1, <4>2, <4>3, <2>0, WorkersOnly
    <3>3. CASE Reap(t)
      <4>1. worker' \in [Threads -> Worker]
        BY <3>3, <2>0, Moves DEF Reap
      <4>2. proc' = None /\ UNCHANGED <<fp, req, mq, main, target, gen, running, crashes, tried, sent>>
        BY <3>3 DEF Reap
      <4> QED
        BY <4>1, <4>2, <2>0, WorkersOnly
    <3>4. CASE CheckGen(t)
      <4>1. \E l \in {"finish", "checkwanted"} : worker' = [worker EXCEPT ![t].pc = l]
        BY <3>4 DEF CheckGen
      <4>2. worker' \in [Threads -> Worker]
        BY <4>1, <2>0, Moves
      <4>3. UNCHANGED <<fp, req, mq, main, target, proc, gen, running, crashes, tried, sent>>
        BY <3>4 DEF CheckGen
      <4> QED
        BY <4>2, <4>3, <2>0, WorkersOnly
    <3>5. CASE CheckWanted(t)
      <4>0. UNCHANGED <<fp, req, mq, main, target, proc, gen, running, crashes, tried, sent>>
        BY <3>5 DEF CheckWanted
      <4>1. CASE \E l \in {"finish", "deliver"} : worker' = [worker EXCEPT ![t].pc = l]
        <5>1. worker' \in [Threads -> Worker]
          BY <4>1, <2>0, Moves
        <5> QED
          BY <4>0, <5>1, <2>0, WorkersOnly
      <4>2. CASE ~LastAttempt(t) /\ Retry(t)
        <5>1. worker[t].attempt + 1 \in Attempts
          BY <4>2, <3>0 DEF LastAttempt
        <5>2. [worker[t] EXCEPT !.pc = "spawn", !.attempt = worker[t].attempt + 1] \in Worker
          BY <3>0, <5>1
        <5>3. worker' \in [Threads -> Worker]
          BY <4>2, <5>2, <2>0, Replaced
        <5> QED
          BY <4>0, <5>3, <2>0, WorkersOnly
      <4> QED
        BY <3>5, <4>1, <4>2 DEF CheckWanted
    <3>6. CASE Deliver(t)
      <4>1. worker' \in [Threads -> Worker]
        BY <3>6, <2>0, Moves DEF Deliver, Return
      <4>2. sent' \in Nat
        BY <3>6, <2>0 DEF Deliver
      <4>3. mq' \in Seq(Signals) /\ fp' \in {"idle", "needed", "selected"}
        <5>1. CASE fp = "needed" /\ main # "down"
          <6>1. mq' = Append(mq, "notneeded") /\ fp' = "idle"
            BY <3>6, <5>1 DEF Deliver
          <6> QED
            BY <6>1, <2>0
        <5>2. CASE ~(fp = "needed" /\ main # "down")
          BY <3>6, <5>2, <2>0 DEF Deliver
        <5> QED
          BY <5>1, <5>2
      <4>4. UNCHANGED <<req, main, target, proc, gen, running, crashes, tried>>
        BY <3>6 DEF Deliver
      <4> QED
        BY <4>1, <4>2, <4>3, <4>4 DEF DataOK
    <3>7. CASE DeliverFails(t)
      <4>1. worker' \in [Threads -> Worker]
        BY <3>7, <2>0, Moves DEF DeliverFails, Return
      <4>2. UNCHANGED <<fp, req, mq, main, target, proc, gen, running, crashes, tried, sent>>
        BY <3>7 DEF DeliverFails
      <4> QED
        BY <4>1, <4>2, <2>0, WorkersOnly
    <3>8. CASE Finish(t)
      <4>1. NoWorker \in Worker
        OBVIOUS
      <4>2. worker' \in [Threads -> Worker]
        BY <3>8, <4>1, <2>0, Replaced DEF Finish
      <4>3. UNCHANGED <<fp, req, mq, main, target, proc, gen, running, crashes, tried, sent>>
        BY <3>8 DEF Finish
      <4> QED
        BY <4>2, <4>3, <2>0, WorkersOnly
    <3> QED
      BY <3>1, <3>2, <3>3, <3>4, <3>5, <3>6, <3>7, <3>8 DEF WorkerThread
  <2>12. CASE \E p \in running : CaptureExit(p)
    <3> PICK p \in running : CaptureExit(p)
      BY <2>12
    <3> PICK r \in Outcomes :
          worker' = [worker EXCEPT ![p[1]].result = r]
      BY DEF CaptureExit
    <3>1. p[1] \in Threads /\ req \in Nat
      BY <2>0
    <3>2. [worker[p[1]] EXCEPT !.result = r] \in Worker
      <4>1. worker[p[1]] \in Worker
        BY <3>1, <2>0
      <4> QED
        BY <3>1, <4>1
    <3>3. worker' \in [Threads -> Worker]
      BY <3>1, <3>2, <2>0, Replaced
    <3>4. /\ running' \subseteq running
          /\ UNCHANGED <<fp, req, mq, main, target, proc, gen, crashes, tried, sent>>
      BY DEF CaptureExit
    <3> QED
      BY <3>3, <3>4, <2>0, WorkersOnly
  <2>13. CASE Crash
    BY <2>13 DEF DataOK, Crash
  <2>14. CASE Restart
    BY <2>14 DEF DataOK, Restart
  <2>15. CASE UNCHANGED vars
    BY <2>15 DEF DataOK, vars
  <2> QED
    BY <2>1, <2>2, <2>3, <2>4, <2>5, <2>6, <2>7, <2>8, <2>9, <2>10, <2>11, <2>12,
       <2>13, <2>14, <2>15 DEF Next, MainThread
<1> QED
  BY <1>1, <1>2, PTL DEF Spec

(* Both together.                                                          *)
THEOREM Typing == Spec => []TypeOK
  BY FlagTyping, DataTyping, PTL DEF TypeOK

-----------------------------------------------------------------------------
(* The part of IInv about who is at work ...                               *)
Owned == FlagTracksWorker /\ OneWorker /\ WaitedFor

(* A capture process lives only with its worker.                           *)
LEMMA OwnersAlive == ASSUME TypeOK, Owned PROVE \A p \in running : p[1] \in Alive
<1> SUFFICES ASSUME NEW p \in running PROVE p[1] \in Alive
  OBVIOUS
<1>1. p[1] \in Threads
  BY DEF TypeOK, DataOK
<1> QED
  BY <1>1 DEF Owned, WaitedFor

(* While a worker is not between Popen and wait, no capture process lives. *)
LEMMA NoneRuns ==
  ASSUME TypeOK, Owned, NEW t \in Alive, worker[t].pc \notin {"register", "wait"}
  PROVE  running = {}
<1> SUFFICES ASSUME NEW p \in running PROVE FALSE
  OBVIOUS
<1>1. p[1] = t
  BY OwnersAlive DEF Owned, OneWorker
<1> QED
  BY <1>1 DEF Owned, WaitedFor

(* A step of the one worker that does not end it leaves the flag right.    *)
LEMMA StillAtWork ==
  ASSUME Owned, NEW t \in Alive, capturing' = capturing, worker'[t].pc # "none",
         \A u \in Threads : u # t => worker'[u] = worker[u]
  PROVE  FlagTracksWorker' /\ OneWorker'
<1>1. Alive' = Alive
  OBVIOUS
<1> QED
  BY <1>1 DEF Owned, FlagTracksWorker, OneWorker

(* Every step keeps one owner of the sensor.                               *)
LEMMA OwnedStep == TypeOK /\ TypeOK' /\ Owned /\ [Next]_vars => Owned'
<1> SUFFICES ASSUME TypeOK, TypeOK', Owned, [Next]_vars PROVE Owned'
  OBVIOUS
<1> USE DEF Owned, FlagTracksWorker, OneWorker, WaitedFor, TypeOK, DataOK
<1>1. CASE UNCHANGED <<worker, running, capturing>>
  BY <1>1
<1>2. CASE Fprintd
  BY <1>2, <1>1 DEF Fprintd, VerifyStart, EnrollStage, VerifyNeedsFinger, StopNeeding, Vanish
<1>3. CASE OnNeeded \/ CheckInitial \/ NeedBusy \/ OnNotNeeded \/ CancelIdle \/ CancelBusy
           \/ KillRead \/ Restart
  BY <1>3, <1>1 DEF OnNeeded, CheckInitial, NeedBusy, OnNotNeeded, CancelIdle, CancelBusy,
                    KillRead, Restart
<1>4. CASE NeedStart
  BY <1>4 DEF NeedStart, Busy
<1>5. CASE KillCapture
  <2>1. CASE target \in running
    <3>1. target[1] \in Alive
      BY <2>1, OwnersAlive
    <3>2. worker' = [worker EXCEPT ![target[1]].result = "killed"]
      BY <1>5, <2>1 DEF KillCapture
    <3>3. \A u \in Threads : worker'[u].pc = worker[u].pc /\ worker'[u].attempt = worker[u].attempt
      BY <3>1, <3>2
    <3>4. running' \subseteq running /\ capturing' = capturing
      BY <1>5 DEF KillCapture
    <3>5. Alive' = Alive
      BY <3>3
    <3>6. FlagTracksWorker' /\ OneWorker'
      BY <3>4, <3>5
    <3>7. WaitedFor'
      <4> SUFFICES ASSUME NEW p \in running
                   PROVE  p = ProcessOf(p[1])' /\ worker'[p[1]].pc \in {"register", "wait"}
        BY <3>4
      <4>1. p[1] \in Threads
        BY OwnersAlive
      <4> QED
        BY <4>1, <3>3
    <3> QED
      BY <3>6, <3>7
  <2>2. CASE target \notin running
    BY <1>5, <2>2 DEF KillCapture
  <2> QED
    BY <2>1, <2>2
<1>6. CASE \E t \in Threads : WorkerThread(t)
  <2> PICK t \in Threads : WorkerThread(t)
    BY <1>6
  <2>0. t \in Alive
    BY DEF WorkerThread, Spawn, Register, Reap, CheckGen, CheckWanted, Deliver,
           DeliverFails, Finish
  <2>1. CASE Spawn(t)
    <3>1. running' = {ProcessOf(t)}
      BY <2>0, <2>1, NoneRuns DEF Spawn
    <3>2. /\ worker'[t].pc = "register" /\ worker'[t].attempt = worker[t].attempt
          /\ \A u \in Threads : u # t => worker'[u] = worker[u]
      BY <2>1 DEF Spawn
    <3>3. capturing' = capturing
      BY <2>1 DEF Spawn
    <3>4. FlagTracksWorker' /\ OneWorker'
      BY <2>0, <3>2, <3>3, StillAtWork
    <3>5. WaitedFor'
      BY <3>1, <3>2
    <3> QED
      BY <3>4, <3>5
  <2>2. CASE Register(t)
    <3>1. running' = running /\ capturing' = capturing
      BY <2>2 DEF Register
    <3>2. /\ worker'[t].pc = "wait" /\ worker'[t].attempt = worker[t].attempt
          /\ \A u \in Threads : u # t => worker'[u] = worker[u]
      BY <2>2 DEF Register
    <3>3. FlagTracksWorker' /\ OneWorker'
      BY <2>0, <3>1, <3>2, StillAtWork
    <3>4. WaitedFor'
      <4> SUFFICES ASSUME NEW p \in running PROVE p = ProcessOf(p[1])' /\ worker'[p[1]].pc = "wait"
        BY <3>1
      <4>1. p[1] = t
        BY <2>0, OwnersAlive
      <4> QED
        BY <4>1, <3>2
    <3> QED
      BY <3>3, <3>4
  <2>3. CASE Reap(t)
    <3>1. running' = {} /\ capturing' = capturing
      <4>1. \A p \in running : p[1] = t
        BY <2>0, OwnersAlive
      <4>2. \A p \in running : p = ProcessOf(t)
        BY <4>1
      <4>3. ProcessOf(t) \notin running
        BY <2>3 DEF Reap
      <4>4. running = {}
        <5> SUFFICES ASSUME NEW p \in running PROVE FALSE
          OBVIOUS
        <5>1. p = ProcessOf(t)
          BY <4>2
        <5> QED
          BY <4>3, <5>1
      <4> QED
        BY <2>3, <4>4 DEF Reap
    <3>2. worker'[t].pc = "checkgen" /\ \A u \in Threads : u # t => worker'[u] = worker[u]
      BY <2>3 DEF Reap
    <3> QED
      BY <2>0, <3>1, <3>2, StillAtWork
  <2>4. CASE CheckGen(t) \/ CheckWanted(t) \/ Deliver(t) \/ DeliverFails(t)
    <3>1. running' = {} /\ capturing' = capturing
      BY <2>0, <2>4, NoneRuns DEF CheckGen, CheckWanted, Deliver, DeliverFails
    <3>2. worker'[t].pc # "none" /\ \A u \in Threads : u # t => worker'[u] = worker[u]
      <4>1. CASE CheckGen(t)
        BY <4>1 DEF CheckGen
      <4>2. CASE CheckWanted(t)
        <5>1. CASE \E l \in {"finish", "deliver"} : worker' = [worker EXCEPT ![t].pc = l]
          <6>1. PICK l \in {"finish", "deliver"} : worker' = [worker EXCEPT ![t].pc = l]
            BY <5>1
          <6>2. worker'[t].pc = l /\ \A u \in Threads : u # t => worker'[u] = worker[u]
            BY <6>1, Turned
          <6> QED
            BY <6>2
        <5>2. CASE Retry(t)
          BY <5>2
        <5> QED
          BY <4>2, <5>1, <5>2 DEF CheckWanted
      <4>3. CASE Deliver(t) \/ DeliverFails(t)
        <5>1. worker' = [worker EXCEPT ![t].pc = "finish"]
          BY <4>3 DEF Deliver, DeliverFails, Return
        <5> QED
          BY <2>0, <5>1
      <4> QED
        BY <2>4, <4>1, <4>2, <4>3
    <3> QED
      BY <2>0, <3>1, <3>2, StillAtWork
  <2>5. CASE Finish(t)
    <3>1. running' = {} /\ capturing' = FALSE
      BY <2>0, <2>5, NoneRuns DEF Finish, Released
    <3>2. \A u \in Threads : worker'[u].pc = "none"
      <4> SUFFICES ASSUME NEW u \in Threads PROVE worker'[u].pc = "none"
        OBVIOUS
      <4>1. worker' = [worker EXCEPT ![t] = NoWorker]
        BY <2>5 DEF Finish
      <4>2. u # t => worker[u].pc = "none"
        BY <2>0
      <4> QED
        BY <4>1, <4>2
    <3>3. Alive' = {}
      BY <3>2
    <3>4. FlagTracksWorker'
      BY <3>1, <3>3
    <3>5. OneWorker'
      BY <3>3
    <3>6. WaitedFor'
      BY <3>1
    <3> QED
      BY <3>4, <3>5, <3>6
  <2> QED
    BY <2>1, <2>2, <2>3, <2>4, <2>5 DEF WorkerThread
<1>7. CASE \E p \in running : CaptureExit(p)
  <2> PICK p \in running : CaptureExit(p)
    BY <1>7
  <2> PICK r \in Outcomes :
        worker' = [worker EXCEPT ![p[1]].result = r]
    BY DEF CaptureExit
  <2>1. running' = running \ {p} /\ capturing' = capturing
    BY DEF CaptureExit
  <2>2. p[1] \in Alive
    BY OwnersAlive
  <2>3. \A u \in Threads : worker'[u].pc = worker[u].pc /\ worker'[u].attempt = worker[u].attempt
    BY <2>2, Exited
  <2>4. Alive' = Alive
    BY <2>3
  <2>5. FlagTracksWorker'
    BY <2>1, <2>4
  <2>6. OneWorker'
    BY <2>4
  <2>7. WaitedFor'
    <3> SUFFICES ASSUME NEW q \in running
                 PROVE  q = ProcessOf(q[1])' /\ worker'[q[1]].pc \in {"register", "wait"}
      BY <2>1
    <3>1. q[1] \in Threads
      BY OwnersAlive
    <3> QED
      BY <3>1, <2>3
  <2> QED
    BY <2>5, <2>6, <2>7
<1>8. CASE Crash
  BY <1>8 DEF Crash
<1>9. CASE UNCHANGED vars
  BY <1>9, <1>1 DEF vars
<1> QED
  BY <1>2, <1>3, <1>4, <1>5, <1>6, <1>7, <1>8, <1>9 DEF Next, MainThread

-----------------------------------------------------------------------------
(* ... and the part about generations and cancellation.                    *)
Late == GenerationsGrow /\ KillIsLate /\ KilledIsSuperseded /\ DeliversScan

(* A step that leaves the workers and the generation alone, and does not   *)
(* enter kill_capture.                                                     *)
LEMMA LateKept ==
  ASSUME Late, worker' = worker, gen' = gen,
         main' \in {"kill", "kill2"} => main \in {"kill", "kill2"}
  PROVE  Late'
  BY DEF Late, GenerationsGrow, KillIsLate, KilledIsSuperseded, DeliversScan

(* A step of one worker that stays in its generation, while a cancelled    *)
(* one only moves towards its end.                                         *)
LEMMA LateMoved ==
  ASSUME Late, gen' = gen, main' = main, NEW t \in Threads,
         \A u \in Threads : u # t => worker'[u] = worker[u],
         worker'[t].gen = worker[t].gen,
         worker'[t].result = "killed" => /\ worker[t].result = "killed"
                                         /\ worker'[t].pc \in {"register", "wait", "checkgen", "finish"},
         worker'[t].pc = "deliver" => worker'[t].result = "scan"
  PROVE  Late'
  BY DEF Late, GenerationsGrow, KillIsLate, KilledIsSuperseded, DeliversScan

LEMMA LateStep == TypeOK /\ TypeOK' /\ Owned /\ Late /\ [Next]_vars => Late'
<1> SUFFICES ASSUME TypeOK, TypeOK', Owned, Late, [Next]_vars PROVE Late'
  OBVIOUS
<1> USE DEF TypeOK, DataOK
<1>1. CASE Fprintd
  <2>1. worker' = worker /\ gen' = gen /\ main' = main
    BY <1>1 DEF Fprintd, VerifyStart, EnrollStage, VerifyNeedsFinger, StopNeeding, Vanish
  <2> QED
    BY <2>1, LateKept
<1>2. CASE OnNeeded \/ CheckInitial \/ NeedBusy \/ OnNotNeeded \/ CancelIdle \/ KillRead \/ Restart
  <2>1. worker' = worker /\ gen' = gen
    BY <1>2 DEF OnNeeded, CheckInitial, NeedBusy, OnNotNeeded, CancelIdle, KillRead, Restart
  <2>2. main' \in {"kill", "kill2"} => main \in {"kill", "kill2"}
    BY <1>2 DEF OnNeeded, CheckInitial, NeedBusy, OnNotNeeded, CancelIdle, KillRead, Restart
  <2> QED
    BY <2>1, <2>2, LateKept
<1>3. CASE NeedStart
  <2> PICK t \in Threads : worker' = [worker EXCEPT ![t] = Thread("spawn", NextGen)]
    BY <1>3 DEF NeedStart
  <2>1. gen' = gen + 1 /\ main' = "loop"
    BY <1>3 DEF NeedStart, NextGen
  <2>2. \A u \in Threads : u # t => worker'[u] = worker[u]
    OBVIOUS
  <2>3. worker'[t].gen = gen + 1 /\ worker'[t].result = "none"
    BY DEF NextGen
  <2>4. worker'[t].pc = "spawn"
    OBVIOUS
  <2>5. GenerationsGrow'
    <3> SUFFICES ASSUME NEW u \in Threads PROVE worker'[u].gen <= gen + 1
      BY <2>1 DEF GenerationsGrow
    <3>1. u # t => worker'[u].gen <= gen
      BY <2>2 DEF Late, GenerationsGrow
    <3> QED
      BY <2>3, <3>1
  <2>6. KillIsLate'
    BY <2>1 DEF KillIsLate
  <2>7. KilledIsSuperseded'
    <3> SUFFICES ASSUME NEW u \in Threads, worker'[u].result = "killed"
                 PROVE  worker'[u].gen < gen + 1
                        /\ worker'[u].pc \in {"register", "wait", "checkgen", "finish"}
      BY <2>1 DEF KilledIsSuperseded
    <3>1. worker'[u] = worker[u]
      BY <2>2, <2>3
    <3> QED
      BY <3>1 DEF Late, KilledIsSuperseded
  <2>8. DeliversScan'
    <3> SUFFICES ASSUME NEW u \in Threads, worker'[u].pc = "deliver"
                 PROVE  worker'[u].result = "scan"
      BY DEF DeliversScan
    <3>1. worker'[u] = worker[u]
      BY <2>2, <2>4
    <3> QED
      BY <3>1 DEF Late, DeliversScan
  <2> QED
    BY <2>5, <2>6, <2>7, <2>8 DEF Late
<1>4. CASE CancelBusy
  <2>1. gen' = gen + 1 /\ worker' = worker
    BY <1>4 DEF CancelBusy, NextGen
  <2> QED
    BY <2>1 DEF Late, GenerationsGrow, KillIsLate, KilledIsSuperseded, DeliversScan
<1>5. CASE KillCapture
  <2>1. gen' = gen /\ main' = "loop" /\ main = "kill2"
    BY <1>5 DEF KillCapture
  <2>2. CASE target \in running
    <3>1. target[1] \in Threads /\ worker[target[1]].pc \in {"register", "wait"}
      BY <2>2, OwnersAlive DEF Owned, WaitedFor
    <3>2. worker' = [worker EXCEPT ![target[1]].result = "killed"]
      BY <1>5, <2>2 DEF KillCapture
    <3>3. worker[target[1]].gen < gen
      BY <2>1, <3>1 DEF Late, KillIsLate
    <3>4. /\ \A u \in Threads : u # target[1] => worker'[u] = worker[u]
          /\ worker'[target[1]].gen = worker[target[1]].gen
          /\ worker'[target[1]].pc = worker[target[1]].pc
      BY <3>1, <3>2
    <3> QED
      BY <2>1, <3>1, <3>3, <3>4 DEF Late, GenerationsGrow, KillIsLate, KilledIsSuperseded, DeliversScan
  <2>3. CASE target \notin running
    <3>1. worker' = worker
      BY <1>5, <2>3 DEF KillCapture
    <3> QED
      BY <2>1, <3>1 DEF Late, GenerationsGrow, KillIsLate, KilledIsSuperseded, DeliversScan
  <2> QED
    BY <2>2, <2>3
<1>6. CASE \E t \in Threads : WorkerThread(t)
  <2> PICK t \in Threads : WorkerThread(t)
    BY <1>6
  <2>0. gen' = gen /\ main' = main
    BY DEF WorkerThread, Spawn, Register, Reap, CheckGen, CheckWanted, Deliver,
           DeliverFails, Finish
  <2>1. CASE Spawn(t)
    <3>1. /\ worker'[t].gen = worker[t].gen /\ worker'[t].result = "none"
          /\ worker'[t].pc = "register"
          /\ \A u \in Threads : u # t => worker'[u] = worker[u]
      BY <2>1 DEF Spawn
    <3> QED
      BY <2>0, <3>1, LateMoved
  <2>2. CASE Register(t) \/ Reap(t) \/ Deliver(t) \/ DeliverFails(t)
    <3>1. \E l \in {"wait", "checkgen", "finish"} : worker' = [worker EXCEPT ![t].pc = l]
      BY <2>2 DEF Register, Reap, Deliver, DeliverFails, Return
    <3>2. /\ worker'[t].gen = worker[t].gen /\ worker'[t].result = worker[t].result
          /\ worker'[t].pc \in {"wait", "checkgen", "finish"}
          /\ \A u \in Threads : u # t => worker'[u] = worker[u]
      BY <3>1
    <3> QED
      BY <2>0, <3>2, LateMoved
  <2>3. CASE CheckGen(t)
    <3>1. CASE Superseded(t)
      <4>1. worker' = [worker EXCEPT ![t].pc = "finish"]
        BY <2>3, <3>1 DEF CheckGen
      <4>2. /\ worker'[t].gen = worker[t].gen /\ worker'[t].result = worker[t].result
            /\ worker'[t].pc = "finish"
            /\ \A u \in Threads : u # t => worker'[u] = worker[u]
        BY <4>1
      <4> QED
        BY <2>0, <4>2, LateMoved
    <3>2. CASE ~Superseded(t)
      <4>1. worker' = [worker EXCEPT ![t].pc = "checkwanted"]
        BY <2>3, <3>2 DEF CheckGen
      <4>2. worker[t].result # "killed"
        BY <3>2 DEF Superseded, Late, KilledIsSuperseded
      <4>3. /\ worker'[t].gen = worker[t].gen /\ worker'[t].result = worker[t].result
            /\ worker'[t].pc = "checkwanted"
            /\ \A u \in Threads : u # t => worker'[u] = worker[u]
        BY <4>1
      <4> QED
        BY <2>0, <4>2, <4>3, LateMoved
    <3> QED
      BY <3>1, <3>2
  <2>4. CASE CheckWanted(t)
    <3>0. worker[t].result # "killed"
      BY <2>4 DEF CheckWanted, Late, KilledIsSuperseded
    <3>1. /\ worker'[t].gen = worker[t].gen /\ worker'[t].result = worker[t].result
          /\ worker'[t].pc = "deliver" => worker[t].result = "scan"
          /\ \A u \in Threads : u # t => worker'[u] = worker[u]
      <4>1. CASE worker' = [worker EXCEPT ![t].pc = "finish"]
        BY <4>1
      <4>2. CASE worker[t].result = "scan" /\ worker' = [worker EXCEPT ![t].pc = "deliver"]
        BY <4>2
      <4>3. CASE Retry(t)
        BY <4>3
      <4> QED
        BY <2>4, <4>1, <4>2, <4>3 DEF CheckWanted
    <3> QED
      BY <2>0, <3>0, <3>1, LateMoved
  <2>5. CASE Finish(t)
    <3>1. /\ worker'[t].gen = 0 /\ worker'[t].result = "none" /\ worker'[t].pc = "none"
          /\ \A u \in Threads : u # t => worker'[u] = worker[u]
      BY <2>5 DEF Finish
    <3>2. main \in {"kill", "kill2"} => gen > 0
      BY DEF Late, KillIsLate
    <3>3. GenerationsGrow'
      <4>1. worker'[t].gen <= gen
        BY <3>1
      <4>2. ASSUME NEW u \in Threads, u # t PROVE worker'[u].gen <= gen
        BY <3>1, <4>2 DEF Late, GenerationsGrow
      <4> QED
        BY <2>0, <4>1, <4>2 DEF GenerationsGrow
    <3>4. KillIsLate'
      BY <2>0, <3>1, <3>2 DEF Late, KillIsLate
    <3>5. KilledIsSuperseded'
      BY <2>0, <3>1 DEF Late, KilledIsSuperseded
    <3>6. DeliversScan'
      <4> SUFFICES ASSUME NEW u \in Threads, worker'[u].pc = "deliver"
                   PROVE  worker'[u].result = "scan"
        BY DEF DeliversScan
      <4>1. u # t
        BY <3>1
      <4> QED
        BY <3>1, <4>1 DEF Late, DeliversScan
    <3> QED
      BY <3>3, <3>4, <3>5, <3>6 DEF Late
  <2> QED
    BY <2>1, <2>2, <2>3, <2>4, <2>5 DEF WorkerThread
<1>7. CASE \E p \in running : CaptureExit(p)
  <2> PICK p \in running : CaptureExit(p)
    BY <1>7
  <2> PICK r \in Outcomes :
        worker' = [worker EXCEPT ![p[1]].result = r]
    BY DEF CaptureExit
  <2>1. p[1] \in Threads
    BY OwnersAlive
  <2>2. gen' = gen /\ main' = main
    BY DEF CaptureExit
  <2>3. /\ worker'[p[1]].gen = worker[p[1]].gen /\ worker'[p[1]].result # "killed"
        /\ worker'[p[1]].pc = worker[p[1]].pc
        /\ \A u \in Threads : u # p[1] => worker'[u] = worker[u]
    BY <2>1, Exited
  <2>4. worker[p[1]].pc # "deliver"
    BY DEF Owned, WaitedFor
  <2> QED
    BY <2>1, <2>2, <2>3, <2>4, LateMoved
<1>8. CASE Crash
  BY <1>8 DEF Crash, Late, GenerationsGrow, KillIsLate, KilledIsSuperseded, DeliversScan
<1>9. CASE UNCHANGED vars
  BY <1>9, LateKept DEF vars
<1> QED
  BY <1>1, <1>2, <1>3, <1>4, <1>5, <1>6, <1>7, <1>8, <1>9 DEF Next, MainThread

-----------------------------------------------------------------------------
(* The inductive invariant holds: one worker owns the flag and the sensor, *)
(* and a cancellation outlives everything the cancelled worker does.       *)
THEOREM Invariance == Spec => []IInv
<1>1. Init => Owned /\ Late
  BY DEF Init, Owned, Late, FlagTracksWorker, OneWorker, WaitedFor, GenerationsGrow,
         KillIsLate, KilledIsSuperseded, DeliversScan
<1>2. TypeOK /\ TypeOK' /\ (Owned /\ Late) /\ [Next]_vars => (Owned /\ Late)'
  BY OwnedStep, LateStep
<1>3. Spec => [](Owned /\ Late)
  BY <1>1, <1>2, Typing, PTL DEF Spec
<1>4. Owned /\ Late => IInv
  BY DEF Owned, Late, IInv
<1> QED
  BY <1>3, <1>4, PTL

(* Whatever the interleaving of main thread, workers, processes, signals   *)
(* and crashes, two captures never hold the sensor together.               *)
THEOREM Exclusion == Spec => []SensorExclusive
<1>1. TypeOK /\ IInv => SensorExclusive
  <2> SUFFICES ASSUME TypeOK, IInv, NEW p \in running, NEW q \in running PROVE p = q
    BY DEF SensorExclusive
  <2>1. Owned
    BY DEF IInv, Owned
  <2>2. p[1] = q[1]
    BY <2>1, OwnersAlive DEF Owned, OneWorker
  <2>3. p = ProcessOf(p[1]) /\ q = ProcessOf(q[1])
    BY <2>1 DEF Owned, WaitedFor
  <2> QED
    BY <2>2, <2>3
<1> QED
  BY <1>1, Typing, Invariance, PTL

(* A capture that a cancellation has killed is neither repeated nor        *)
(* delivered.                                                              *)
THEOREM Cancellation == Spec => []CancelIsFinal
<1>1. IInv => CancelIsFinal
  BY DEF IInv, CancelIsFinal, KilledIsSuperseded
<1> QED
  BY <1>1, Invariance, PTL

(* The flag by which on_needed turns a request away is set while a worker  *)
(* lives, and only then.                                                   *)
THEOREM Tracking == Spec => []FlagTracksWorker
<1>1. IInv => FlagTracksWorker
  BY DEF IInv
<1> QED
  BY <1>1, Invariance, PTL

(* The process kill_capture is about to kill is never that of a newer      *)
(* request.                                                                *)
THEOREM Precision == Spec => []KillsOnlySuperseded
<1>1. TypeOK /\ IInv => KillsOnlySuperseded
  <2> SUFFICES ASSUME TypeOK, IInv, main = "kill2", target # None
               PROVE  worker[target[1]].gen < gen
    BY DEF KillsOnlySuperseded
  <2>1. target[1] \in Threads
    BY DEF TypeOK, DataOK
  <2> QED
    BY <2>1 DEF IInv, KillIsLate
<1> QED
  BY <1>1, Typing, Invariance, PTL

-----------------------------------------------------------------------------
(* What does hold where CancelledWhenUnneeded does not.  The main thread   *)
(* comes to on_needed's test with a finger wanted, and from the            *)
(* cancellation on whoever is at work is superseded.                       *)
Unneeded ==
  /\ main = "need" => wanted
  /\ main \in {"down", "loop", "kill", "kill2"} /\ ~wanted => \A t \in Alive : Superseded(t)

(* A step that moves neither `wanted' nor the generation nor the main      *)
(* thread, and starts no worker.                                           *)
LEMMA UnneededKept ==
  ASSUME Unneeded, UNCHANGED <<main, wanted, gen>>,
         \A t \in Threads : worker'[t].pc # "none" => /\ worker[t].pc # "none"
                                                      /\ worker'[t].gen = worker[t].gen
  PROVE  Unneeded'
  BY DEF Unneeded, Superseded

(* A worker's step keeps its generation, unless it ends, and leaves the    *)
(* other workers alone.                                                    *)
LEMMA WorkerKeepsGen ==
  ASSUME TypeOK, NEW t \in Threads, WorkerThread(t)
  PROVE  /\ worker[t].pc # "none" /\ UNCHANGED <<main, wanted, gen>>
         /\ worker'[t].pc # "none" => worker'[t].gen = worker[t].gen
         /\ \A u \in Threads : u # t => worker'[u] = worker[u]
<1>1. worker \in [Threads -> Worker] /\ worker[t] \in Worker
  BY DEF TypeOK, DataOK
<1>2. worker[t].pc # "none" /\ UNCHANGED <<main, wanted, gen>>
  BY DEF WorkerThread, Spawn, Register, Reap, CheckGen, CheckWanted, Deliver, DeliverFails, Finish
<1>3. \/ \E l \in WorkerPC : worker' = [worker EXCEPT ![t].pc = l]
      \/ \E w \in {Thread("none", 0)} \cup {v \in Worker : v.gen = worker[t].gen} :
           worker' = [worker EXCEPT ![t] = w]
  <2>1. CASE Spawn(t)
    <3>1. [worker[t] EXCEPT !.pc = "register", !.result = "none"]
            \in {v \in Worker : v.gen = worker[t].gen}
      BY <1>1
    <3> QED
      BY <2>1, <3>1 DEF Spawn
  <2>2. CASE Register(t) \/ Reap(t) \/ CheckGen(t) \/ Deliver(t) \/ DeliverFails(t)
    BY <2>2 DEF Register, Reap, CheckGen, Deliver, DeliverFails, Return
  <2>3. CASE CheckWanted(t)
    <3>1. CASE ~LastAttempt(t) /\ Retry(t)
      <4>1. worker[t].attempt + 1 \in Attempts
        BY <1>1, <3>1 DEF LastAttempt
      <4>2. [worker[t] EXCEPT !.pc = "spawn", !.attempt = worker[t].attempt + 1]
              \in {v \in Worker : v.gen = worker[t].gen}
        BY <1>1, <4>1
      <4> QED
        BY <3>1, <4>2
    <3> QED
      BY <2>3, <3>1 DEF CheckWanted
  <2>4. CASE Finish(t)
    BY <2>4 DEF Finish
  <2> QED
    BY <2>1, <2>2, <2>3, <2>4 DEF WorkerThread
<1>4. CASE \E l \in WorkerPC : worker' = [worker EXCEPT ![t].pc = l]
  BY <1>1, <1>2, <1>4, Turned
<1>5. CASE \E w \in {Thread("none", 0)} \cup {v \in Worker : v.gen = worker[t].gen} :
             worker' = [worker EXCEPT ![t] = w]
  BY <1>1, <1>2, <1>5
<1> QED
  BY <1>3, <1>4, <1>5

(* The end of a capture, by itself or killed, leaves the workers where     *)
(* they are.                                                               *)
LEMMA EndsMoveNobody ==
  ASSUME TypeOK, KillCapture \/ \E p \in running : CaptureExit(p)
  PROVE  /\ UNCHANGED <<wanted, gen>>
         /\ \A u \in Threads : /\ worker'[u].pc = worker[u].pc
                               /\ worker'[u].attempt = worker[u].attempt
                               /\ worker'[u].gen = worker[u].gen
<1>1. worker \in [Threads -> Worker] /\ running \subseteq Process /\ UNCHANGED <<wanted, gen>>
  BY DEF TypeOK, DataOK, KillCapture, CaptureExit
<1>2. \/ worker' = worker
      \/ \E t \in Threads, r \in Outcomes \cup {"killed"} : worker' = [worker EXCEPT ![t].result = r]
  BY <1>1 DEF KillCapture, CaptureExit
<1> QED
  BY <1>1, <1>2, Exited

LEMMA UnneededStep == TypeOK /\ IInv /\ Unneeded /\ [Next]_vars => Unneeded'
<1> SUFFICES ASSUME TypeOK, IInv, Unneeded, [Next]_vars PROVE Unneeded'
  OBVIOUS
<1>1. CASE Fprintd \/ UNCHANGED vars
  <2>1. UNCHANGED <<main, wanted, gen, worker>>
    BY <1>1 DEF Fprintd, VerifyStart, EnrollStage, VerifyNeedsFinger, StopNeeding, Vanish, vars
  <2> QED
    BY <2>1, UnneededKept
<1>2. CASE OnNeeded \/ CheckInitial \/ NeedBusy
  <2>1. worker' = worker /\ gen' = gen
    BY <1>2 DEF OnNeeded, CheckInitial, NeedBusy
  <2>2. wanted' \/ (main = "loop" /\ UNCHANGED <<main, wanted>>)
    BY <1>2 DEF OnNeeded, CheckInitial, NeedBusy, Unneeded
  <2> QED
    BY <2>1, <2>2, UnneededKept DEF Unneeded
<1>3. CASE NeedStart
  BY <1>3 DEF NeedStart, Unneeded
<1>4. CASE OnNotNeeded
  BY <1>4 DEF OnNotNeeded, Unneeded, Superseded
<1>5. CASE CancelIdle
  <2>1. Alive = {} /\ worker' = worker /\ main' = "loop"
    BY <1>5 DEF CancelIdle, IInv, FlagTracksWorker
  <2> QED
    BY <2>1 DEF Unneeded
<1>6. CASE CancelBusy
  <2>1. gen' = gen + 1 /\ worker' = worker /\ main' = "kill"
    BY <1>6 DEF CancelBusy, NextGen
  <2>2. \A t \in Threads : worker[t].gen # gen + 1
    BY DEF IInv, GenerationsGrow, TypeOK, DataOK
  <2> QED
    BY <2>1, <2>2 DEF Unneeded, Superseded
<1>7. CASE KillRead
  BY <1>7 DEF KillRead, Unneeded, Superseded
<1>8. CASE KillCapture
  <2>1. main = "kill2" /\ main' = "loop"
    BY <1>8 DEF KillCapture
  <2> QED
    BY <1>8, <2>1, EndsMoveNobody DEF Unneeded, Superseded
<1>9. CASE \E t \in Threads : WorkerThread(t)
  BY <1>9, WorkerKeepsGen, UnneededKept
<1>10. CASE \E p \in running : CaptureExit(p)
  <2>1. main' = main
    BY <1>10 DEF CaptureExit
  <2> QED
    BY <1>10, <2>1, EndsMoveNobody, UnneededKept
<1>11. CASE Crash
  BY <1>11 DEF Crash, Unneeded
<1>12. CASE Restart
  BY <1>12 DEF Restart, Unneeded, Superseded
<1> QED
  BY <1>1, <1>2, <1>3, <1>4, <1>5, <1>6, <1>7, <1>8, <1>9, <1>10, <1>11, <1>12
     DEF Next, MainThread

(* kill_capture may come before the worker has registered the process, and *)
(* CancelledWhenUnneeded is violated.  But once no finger is wanted any    *)
(* more and the main thread is through with the cancellation, a capture    *)
(* that still runs is one of a superseded generation.                      *)
THEOREM Missed == Spec => [](main = "loop" /\ ~wanted => \A p \in running : Superseded(p[1]))
<1>1. Init => Unneeded
  BY DEF Init, Unneeded
<1>2. Spec => []Unneeded
  BY <1>1, UnneededStep, Typing, Invariance, PTL DEF Spec
<1>3. TypeOK /\ IInv /\ Unneeded
        => (main = "loop" /\ ~wanted => \A p \in running : Superseded(p[1]))
  BY OwnersAlive DEF Unneeded, IInv, Owned
<1> QED
  BY <1>2, <1>3, Typing, Invariance, PTL

-----------------------------------------------------------------------------
(* Where a worker has its look at the generation still before it.          *)
Ahead == {"spawn", "register", "wait", "checkgen"}

(* And the image of such a capture reaches nobody, nor is it tried again:  *)
(* a worker that is superseded before it compares the generations          *)
(* (bridge.py:54) stays so and has no way but to its end, whether or not   *)
(* its process was killed.                                                 *)
THEOREM Doomed ==
  Spec => [][\A t \in Threads : worker[t].pc \in Ahead /\ Superseded(t)
               => \/ worker'[t].pc \in {"finish", "none"}
                  \/ worker'[t].pc \in Ahead /\ Superseded(t)']_vars
<1>1. TypeOK /\ IInv /\ [Next]_vars
        => [\A t \in Threads : worker[t].pc \in Ahead /\ Superseded(t)
              => \/ worker'[t].pc \in {"finish", "none"}
                 \/ worker'[t].pc \in Ahead /\ Superseded(t)']_vars
  <2> SUFFICES ASSUME TypeOK, IInv, Next, NEW t \in Threads,
                      worker[t].pc \in Ahead, Superseded(t)
               PROVE  \/ worker'[t].pc \in {"finish", "none"}
                      \/ worker'[t].pc \in Ahead /\ Superseded(t)'
    OBVIOUS
  <2>0. /\ worker \in [Threads -> Worker] /\ worker[t] \in Worker /\ gen \in Nat
        /\ worker[t].gen < gen /\ worker[t].pc # "none"
    BY DEF IInv, GenerationsGrow, Superseded, TypeOK, DataOK, Ahead
  <2>1. ASSUME worker'[t].pc = worker[t].pc, worker'[t].gen = worker[t].gen,
               gen' \in {gen, gen + 1}
        PROVE  worker'[t].pc \in Ahead /\ Superseded(t)'
    BY <2>0, <2>1 DEF Superseded
  <2>2. CASE Fprintd \/ Restart
    BY <2>1, <2>2 DEF Fprintd, VerifyStart, EnrollStage, VerifyNeedsFinger, StopNeeding, Vanish,
                      Restart
  <2>3. CASE MainThread
    <3>1. CASE NeedStart
      <4>1. PICK u \in Threads \ Alive : worker' = [worker EXCEPT ![u] = Thread("spawn", NextGen)]
        BY <3>1 DEF NeedStart
      <4>2. worker'[t] = worker[t] /\ gen' = gen + 1
        BY <2>0, <3>1, <4>1 DEF NeedStart, NextGen
      <4> QED
        BY <2>1, <4>2
    <3>2. CASE KillCapture
      BY <2>1, <3>2, EndsMoveNobody
    <3>3. CASE ~NeedStart /\ ~KillCapture
      <4>1. worker' = worker /\ gen' \in {gen, gen + 1}
        BY <2>3, <3>3 DEF MainThread, OnNeeded, CheckInitial, NeedBusy, OnNotNeeded, CancelIdle,
                          CancelBusy, KillRead, NextGen
      <4> QED
        BY <2>1, <4>1
    <3> QED
      BY <3>1, <3>2, <3>3
  <2>4. CASE \E u \in Threads : WorkerThread(u)
    <3> PICK u \in Threads : WorkerThread(u)
      BY <2>4
    <3>1. CASE u = t
      <4>1. Spawn(t) \/ Register(t) \/ Reap(t) \/ CheckGen(t)
        BY <3>1 DEF WorkerThread, Ahead, CheckWanted, Deliver, DeliverFails, Finish
      <4>2. worker'[t].pc \in {"register", "wait", "checkgen", "finish"}
        <5>1. CASE Spawn(t)
          BY <2>0, <5>1 DEF Spawn
        <5>2. CASE Register(t) \/ Reap(t) \/ CheckGen(t)
          <6>1. \E l \in {"wait", "checkgen", "finish"} : worker' = [worker EXCEPT ![t].pc = l]
            BY <5>2 DEF Register, Reap, CheckGen
          <6> QED
            BY <2>0, <6>1, Turned
        <5> QED
          BY <4>1, <5>1, <5>2
      <4>3. gen' = gen /\ (worker'[t].pc # "none" => worker'[t].gen = worker[t].gen)
        BY <3>1, WorkerKeepsGen
      <4> QED
        BY <4>2, <4>3 DEF Superseded, Ahead
    <3>2. CASE u # t
      BY <2>1, <3>2, WorkerKeepsGen
    <3> QED
      BY <3>1, <3>2
  <2>5. CASE \E p \in running : CaptureExit(p)
    BY <2>1, <2>5, EndsMoveNobody
  <2>6. CASE Crash
    BY <2>6 DEF Crash
  <2> QED
    BY <2>2, <2>3, <2>4, <2>5, <2>6 DEF Next
<1> QED
  BY <1>1, Typing, Invariance, PTL DEF Spec

-----------------------------------------------------------------------------
(* The statements a worker has before it, at most: its two attempts, and   *)
(* of each what is left from the line it stands at.                        *)
Line(w) ==
  CASE w.pc = "spawn" -> 7 [] w.pc = "register" -> 6 [] w.pc = "wait" -> 5
    [] w.pc = "checkgen" -> 4 [] w.pc = "checkwanted" -> 3 [] w.pc = "deliver" -> 2
    [] OTHER -> 1
Work(w) == IF w.pc = "none" THEN 0 ELSE Line(w) + 7 * (1 - w.attempt)

(* It is a number, and a later line of the same attempt has less of it.    *)
LEMMA WorkTyped == ASSUME NEW w \in Worker PROVE Work(w) \in 0 .. 14
  BY DEF Work, Line

WorkOK == \A t \in Threads : Work(worker[t]) \in 0 .. 14
WorkShrinks ==
  \A t \in Threads :
    /\ WorkerThread(t) => Work(worker[t])' < Work(worker[t])
    /\ worker[t].pc # "none" => Work(worker[t])' <= Work(worker[t])

(* A worker does what is left of its two attempts and ends, after 14 steps *)
(* at most: each step of it leaves less to do, and nobody else's leaves it *)
(* more.  CaptureEnds rests on this and on the scheduler.                  *)
THEOREM WorkBounded == Spec => []WorkOK /\ [][WorkShrinks]_vars
<1>1. TypeOK => WorkOK
  BY WorkTyped DEF TypeOK, DataOK, WorkOK
<1>2. ASSUME TypeOK, NEW t \in Threads, WorkerThread(t) PROVE Work(worker'[t]) < Work(worker[t])
  <2>0. worker \in [Threads -> Worker] /\ worker[t] \in Worker
    BY <1>2 DEF TypeOK, DataOK
  <2>1. ASSUME NEW l \in WorkerPC, worker' = [worker EXCEPT ![t].pc = l], worker[t].pc # "none",
               Line([worker[t] EXCEPT !.pc = l]) < Line(worker[t])
        PROVE  Work(worker'[t]) < Work(worker[t])
    <3>1. worker'[t] = [worker[t] EXCEPT !.pc = l]
      BY <2>0, <2>1
    <3>2. worker'[t].attempt = worker[t].attempt
      BY <2>0, <2>1, Turned
    <3> QED
      BY <2>0, <2>1, <3>1, <3>2 DEF Work, Line
  <2>2. CASE Spawn(t)
    <3>1. worker'[t] = [worker[t] EXCEPT !.pc = "register", !.result = "none"]
      BY <2>0, <2>2 DEF Spawn
    <3>2. worker[t].pc = "spawn"
      BY <2>2 DEF Spawn
    <3> QED
      BY <2>0, <3>1, <3>2 DEF Work, Line
  <2>3. CASE Register(t)
    BY <2>0, <2>1, <2>3 DEF Register, Line
  <2>4. CASE Reap(t)
    BY <2>0, <2>1, <2>4 DEF Reap, Line
  <2>5. CASE CheckGen(t)
    <3>1. CASE Superseded(t)
      BY <2>0, <2>1, <2>5, <3>1 DEF CheckGen, Line
    <3>2. CASE ~Superseded(t)
      BY <2>0, <2>1, <2>5, <3>2 DEF CheckGen, Line
    <3> QED
      BY <3>1, <3>2
  <2>6. CASE CheckWanted(t)
    <3>1. CASE ~LastAttempt(t) /\ Retry(t)
      <4>1. worker[t].pc = "checkwanted" /\ worker[t].attempt = 0
        BY <2>0, <2>6, <3>1 DEF CheckWanted, LastAttempt
      <4>2. worker'[t] = [worker[t] EXCEPT !.pc = "spawn", !.attempt = worker[t].attempt + 1]
        BY <2>0, <3>1
      <4> QED
        BY <2>0, <4>1, <4>2 DEF Work, Line
    <3> QED
      BY <2>0, <2>1, <2>6, <3>1 DEF CheckWanted, Line
  <2>7. CASE Deliver(t) \/ DeliverFails(t)
    BY <2>0, <2>1, <2>7 DEF Deliver, DeliverFails, Return, Line
  <2>8. CASE Finish(t)
    BY <2>0, <2>8 DEF Finish, Work, Line
  <2> QED
    BY <1>2, <2>2, <2>3, <2>4, <2>5, <2>6, <2>7, <2>8 DEF WorkerThread
<1>3. ASSUME TypeOK, TypeOK', Next, NEW t \in Threads, worker[t].pc # "none"
      PROVE  Work(worker'[t]) <= Work(worker[t])
  <2>0. worker \in [Threads -> Worker] /\ worker[t] \in Worker
    BY <1>3 DEF TypeOK, DataOK
  <2>1. ASSUME worker'[t].pc = worker[t].pc, worker'[t].attempt = worker[t].attempt
        PROVE  Work(worker'[t]) <= Work(worker[t])
    BY <2>0, <2>1 DEF Work, Line
  <2>2. CASE worker' = worker
    BY <2>1, <2>2
  <2>3. CASE NeedStart
    BY <1>3, <2>0, <2>1, <2>3 DEF NeedStart
  <2>4. CASE KillCapture \/ \E p \in running : CaptureExit(p)
    BY <1>3, <2>1, <2>4, EndsMoveNobody
  <2>5. CASE \E u \in Threads : WorkerThread(u)
    <3> PICK u \in Threads : WorkerThread(u)
      BY <2>5
    <3>1. CASE u = t
      <4>1. Work(worker'[t]) < Work(worker[t])
        BY <1>2, <1>3, <3>1
      <4>2. worker'[t] \in Worker
        BY <1>3 DEF TypeOK, DataOK
      <4> QED
        BY <2>0, <4>1, <4>2, WorkTyped
    <3>2. CASE u # t
      BY <1>3, <2>1, <3>2, WorkerKeepsGen
    <3> QED
      BY <3>1, <3>2
  <2>6. CASE Crash
    <3>1. worker'[t].pc = "none"
      BY <2>6 DEF Crash
    <3> QED
      BY <2>0, <3>1, WorkTyped DEF Work
  <2>7. CASE Fprintd \/ Restart \/ (MainThread /\ ~NeedStart /\ ~KillCapture)
    BY <2>2, <2>7 DEF Fprintd, VerifyStart, EnrollStage, VerifyNeedsFinger, StopNeeding, Vanish,
                      Restart, MainThread, OnNeeded, CheckInitial, NeedBusy, OnNotNeeded,
                      CancelIdle, CancelBusy, KillRead
  <2> QED
    BY <1>3, <2>3, <2>4, <2>5, <2>6, <2>7 DEF Next
<1>4. TypeOK /\ TypeOK' /\ [Next]_vars => [WorkShrinks]_vars
  BY <1>2, <1>3 DEF WorkShrinks
<1> QED
  BY <1>1, <1>4, Typing, PTL DEF Spec
=============================================================================
