------------------------------- MODULE Bridge -------------------------------
(***************************************************************************)
(* The event-driven capture bridge: packaging/.../vfs495-fprint/bridge.py. *)
(*                                                                         *)
(* Four parties run concurrently.                                          *)
(*   - fprintd (external) starts requests, raises and drops its            *)
(*     finger-needed property and tells the bridge over D-Bus;             *)
(*   - the bridge's main thread handles one D-Bus signal at a time         *)
(*     (on_needed, on_not_needed) and the one-shot timer check_initial;    *)
(*   - a worker thread runs capture_and_deliver for one generation;        *)
(*   - a capture process (capture.py with gdb and HP's binary) holds the   *)
(*     sensor until it exits or kill_capture kills it.                     *)
(* systemd restarts the bridge when it dies.                               *)
(*                                                                         *)
(* One step is one access to the shared dictionary `state', to the process *)
(* table or to the outside world; the statements between two of them only  *)
(* touch locals of their thread.                                           *)
(***************************************************************************)
EXTENDS Integers, Sequences

CONSTANTS
  Threads,    \* identities for worker threads, reused once a thread has ended
  MaxReq,     \* bound: requests fprintd starts
  MaxCrash    \* bound: times the bridge process dies

ASSUME BoundsAssumption == MaxReq \in Nat /\ MaxCrash \in Nat

VARIABLES
  fp,         \* fprintd: "idle", "selected" (verify started) or "needed"
  req,        \* the number of the current, or else the last, request
  mq,         \* signals on their way to the bridge, in D-Bus order
  main,       \* where the bridge's main thread is, "down" when it is dead
  initial,    \* is check_initial still to fire?
  target,     \* kill_capture's local p
  wanted, capturing, gen, proc,   \* the dictionary `state'
  worker,     \* the worker threads
  running,    \* capture processes alive, each holding the sensor
  crashes,    \* bridge deaths so far
  tried,      \* history: request at the last Popen of this bridge process
  sent        \* history: number of images delivered to the socket

fprintdVars == <<fp, req>>
stateVars == <<wanted, capturing, gen, proc>>
history == <<tried, sent>>
vars == <<fp, req, mq, main, initial, target, wanted, capturing, gen, proc,
          worker, running, crashes, tried, sent>>

-----------------------------------------------------------------------------
None == <<>>                              \* state["proc"] is None
Attempts == 0 .. 1                        \* for attempt in range(2)
Process == Threads \X Attempts            \* one Popen object per attempt
Signals == {"verify", "needed", "notneeded"}

(* What a capture process leaves: no image (exit status not 0), an image   *)
(* of fewer than MIN_ROWS rows, or a usable scan.                          *)
Outcomes == {"fail", "tiny", "scan"}
WorkerPC == {"none", "spawn", "register", "wait", "checkgen", "checkwanted",
             "deliver", "finish"}
MainPC == {"down", "loop", "need", "cancel", "kill", "kill2"}

(* A worker: its gen argument, the loop variable `attempt' and how the     *)
(* last capture ended.                                                     *)
Worker == [pc : WorkerPC, gen : Nat, attempt : Attempts,
           result : Outcomes \cup {"none", "killed"}]
Thread(pc, g) == [pc |-> pc, gen |-> g, attempt |-> 0, result |-> "none"]
NoWorker == Thread("none", 0)

Alive == {t \in Threads : worker[t].pc # "none"}
ProcessOf(t) == <<t, worker[t].attempt>>

(* A signal reaches a bridge that is up; D-Bus keeps none for a dead one.  *)
Emit(s) == mq' = IF main = "down" THEN mq ELSE Append(mq, s)

Goto(t, l) == worker' = [worker EXCEPT ![t].pc = l]

(* The next turn of the loop, and one that does not count.                 *)
FaultyRetry(t) == Goto(t, "spawn")
Retry(t) ==
  worker' = [worker EXCEPT ![t] = [@ EXCEPT !.pc = "spawn", !.attempt = worker[t].attempt + 1]]

-----------------------------------------------------------------------------
(* The tests and values the protocol rests on, each after the fault (named *)
(* Faulty...) that the properties below must notice in its place.          *)

FaultyBusy == FALSE                       \* on_needed starts regardless
Busy == capturing

FaultyNextGen == gen                      \* a cancellation leaves gen alone
NextGen == gen + 1

FaultyPending == FALSE                    \* check_initial finds nothing
Pending == fp = "needed"

FaultySuperseded(t) == FALSE              \* the generation is not compared
Superseded(t) == worker[t].gen # gen

FaultyLastAttempt(t) == FALSE             \* a second failure is retried too
LastAttempt(t) == worker[t].attempt = 1

FaultyReturn(t) == Goto(t, "checkgen")    \* no return after deliver()
Return(t) == Goto(t, "finish")

FaultyReleased == TRUE                    \* finally leaves the flag alone
Released == FALSE

Init ==
  /\ fp = "idle" /\ req = 0 /\ mq = <<>>
  /\ main = "loop" /\ initial = TRUE /\ target = None
  /\ wanted = FALSE /\ capturing = FALSE /\ gen = 0 /\ proc = None
  /\ worker = [t \in Threads |-> NoWorker]
  /\ running = {}
  /\ crashes = 0
  /\ tried = 0 /\ sent = 0

-----------------------------------------------------------------------------
(* fprintd, as far as the bridge sees it.                                  *)

NewRequest == fp = "idle" /\ req < MaxReq /\ req' = req + 1

(* VerifyStart selects the finger before the device asks for it.           *)
VerifyStart ==
  /\ NewRequest
  /\ fp' = "selected"
  /\ Emit("verify")
  /\ UNCHANGED <<main, initial, target, stateVars, worker, running, crashes, history>>

(* Enrolling goes straight to finger-needed, once per stage.               *)
EnrollStage ==
  /\ NewRequest
  /\ fp' = "needed"
  /\ Emit("needed")
  /\ UNCHANGED <<main, initial, target, stateVars, worker, running, crashes, history>>

VerifyNeedsFinger ==
  /\ fp = "selected"
  /\ fp' = "needed"
  /\ Emit("needed")
  /\ UNCHANGED <<req, main, initial, target, stateVars, worker, running, crashes, history>>

(* Timeout, cancel or done: the property falls and the bridge is told.     *)
StopNeeding ==
  /\ fp = "needed"
  /\ fp' = "idle"
  /\ Emit("notneeded")
  /\ UNCHANGED <<req, main, initial, target, stateVars, worker, running, crashes, history>>

(* fprintd is restarted, or a verify ends before it needed the finger:     *)
(* the property never falls, so no signal is sent.                         *)
Vanish ==
  /\ fp # "idle"
  /\ fp' = "idle"
  /\ UNCHANGED <<req, mq, main, initial, target, stateVars, worker, running, crashes, history>>

-----------------------------------------------------------------------------
(* The main thread: D-Bus signals and the start-up timer.                  *)

(* on_needed, first half: the request is noted.                            *)
OnNeeded ==
  /\ main = "loop" /\ mq # <<>> /\ Head(mq) \in {"verify", "needed"}
  /\ mq' = Tail(mq)
  /\ wanted' = TRUE
  /\ main' = "need"
  /\ UNCHANGED <<fprintdVars, initial, target, capturing, gen, proc, worker,
                 running, crashes, history>>

(* check_initial: a one-shot read of the property 1.5 s after start.       *)
CheckInitial ==
  /\ main = "loop" /\ initial
  /\ initial' = FALSE
  /\ IF Pending THEN wanted' = TRUE /\ main' = "need"
                ELSE UNCHANGED <<wanted, main>>
  /\ UNCHANGED <<fprintdVars, mq, target, capturing, gen, proc, worker,
                 running, crashes, history>>

(* on_needed, second half: nothing while a capture is under way ...        *)
NeedBusy ==
  /\ main = "need" /\ Busy
  /\ main' = "loop"
  /\ UNCHANGED <<fprintdVars, mq, initial, target, stateVars, worker,
                 running, crashes, history>>

(* ... otherwise a worker thread for a new generation.                     *)
NeedStart ==
  /\ main = "need" /\ ~Busy
  /\ capturing' = TRUE
  /\ gen' = NextGen
  /\ \E t \in Threads \ Alive :
       worker' = [worker EXCEPT ![t] = Thread("spawn", NextGen)]
  /\ main' = "loop"
  /\ UNCHANGED <<fprintdVars, mq, initial, target, wanted, proc, running, crashes, history>>

(* on_not_needed: ignored unless a finger was wanted.                      *)
OnNotNeeded ==
  /\ main = "loop" /\ mq # <<>> /\ Head(mq) = "notneeded"
  /\ mq' = Tail(mq)
  /\ wanted' = FALSE
  /\ main' = IF wanted THEN "cancel" ELSE "loop"
  /\ UNCHANGED <<fprintdVars, initial, target, capturing, gen, proc, worker,
                 running, crashes, history>>

CancelIdle ==
  /\ main = "cancel" /\ ~capturing
  /\ main' = "loop"
  /\ UNCHANGED <<fprintdVars, mq, initial, target, stateVars, worker,
                 running, crashes, history>>

(* The generation is superseded before the process is looked at.           *)
CancelBusy ==
  /\ main = "cancel" /\ capturing
  /\ gen' = NextGen
  /\ main' = "kill"
  /\ UNCHANGED <<fprintdVars, mq, initial, target, wanted, capturing, proc,
                 worker, running, crashes, history>>

(* kill_capture: p is read under the lock ...                              *)
KillRead ==
  /\ main = "kill"
  /\ target' = proc
  /\ main' = "kill2"
  /\ UNCHANGED <<fprintdVars, mq, initial, stateVars, worker, running, crashes, history>>

(* ... and, if it has not ended by itself, its process group and whatever  *)
(* is left of HP's binary are killed.                                      *)
KillCapture ==
  /\ main = "kill2"
  /\ running' = running \ {target}
  /\ worker' = IF target \in running
                 THEN [worker EXCEPT ![target[1]].result = "killed"] ELSE worker
  /\ target' = None
  /\ main' = "loop"
  /\ UNCHANGED <<fprintdVars, mq, initial, stateVars, crashes, history>>

-----------------------------------------------------------------------------
(* A worker thread: capture_and_deliver(gen) and the run_capture it calls. *)

Spawn(t) ==
  /\ worker[t].pc = "spawn"
  /\ running' = running \cup {ProcessOf(t)}
  /\ worker' = [worker EXCEPT ![t] = [@ EXCEPT !.pc = "register", !.result = "none"]]
  /\ tried' = req
  /\ UNCHANGED <<fprintdVars, mq, main, initial, target, stateVars, crashes, sent>>

Register(t) ==
  /\ worker[t].pc = "register"
  /\ proc' = ProcessOf(t)
  /\ Goto(t, "wait")
  /\ UNCHANGED <<fprintdVars, mq, main, initial, target, wanted, capturing, gen,
                 running, crashes, history>>

(* p.wait() has returned; state["proc"] is cleared.                        *)
Reap(t) ==
  /\ worker[t].pc = "wait" /\ ProcessOf(t) \notin running
  /\ proc' = None
  /\ Goto(t, "checkgen")
  /\ UNCHANGED <<fprintdVars, mq, main, initial, target, wanted, capturing, gen,
                 running, crashes, history>>

(* The two operands of the cancellation test are read one after the other. *)
CheckGen(t) ==
  /\ worker[t].pc = "checkgen"
  /\ Goto(t, IF Superseded(t) THEN "finish" ELSE "checkwanted")
  /\ UNCHANGED <<fprintdVars, mq, main, initial, target, stateVars, running, crashes, history>>

(* Still wanted: deliver a usable scan, else try a second time, else give  *)
(* up.                                                                     *)
CheckWanted(t) ==
  /\ worker[t].pc = "checkwanted"
  /\ \/ ~wanted /\ Goto(t, "finish")
     \/ wanted /\ worker[t].result = "scan" /\ Goto(t, "deliver")
     \/ wanted /\ worker[t].result # "scan" /\ ~LastAttempt(t) /\ Retry(t)
     \/ wanted /\ worker[t].result # "scan" /\ LastAttempt(t) /\ Goto(t, "finish")
  /\ UNCHANGED <<fprintdVars, mq, main, initial, target, stateVars, running, crashes, history>>

(* deliver(): a request that needs a finger takes the image as its scan    *)
(* and stops needing one; at any other time the image is dropped.          *)
Deliver(t) ==
  /\ worker[t].pc = "deliver"
  /\ Return(t)
  /\ sent' = sent + 1
  /\ IF fp = "needed"
       THEN /\ fp' = "idle"
            /\ Emit("notneeded")
       ELSE UNCHANGED <<fp, mq>>
  /\ UNCHANGED <<req, main, initial, target, stateVars, running, crashes, tried>>

(* The socket refuses or breaks (OSError): the image is lost.              *)
DeliverFails(t) ==
  /\ worker[t].pc = "deliver"
  /\ Return(t)
  /\ UNCHANGED <<fprintdVars, mq, main, initial, target, stateVars, running, crashes, history>>

(* The finally clause.                                                     *)
Finish(t) ==
  /\ worker[t].pc = "finish"
  /\ capturing' = Released
  /\ worker' = [worker EXCEPT ![t] = NoWorker]
  /\ UNCHANGED <<fprintdVars, mq, main, initial, target, wanted, gen, proc,
                 running, crashes, history>>

-----------------------------------------------------------------------------
(* A capture process ends by itself: with an image, without one, or at its *)
(* own timeout (VFS_TIMEOUT).                                              *)
CaptureExit(p) ==
  /\ p \in running
  /\ running' = running \ {p}
  /\ \E r \in Outcomes :
       worker' = [worker EXCEPT ![p[1]].result = r]
  /\ UNCHANGED <<fprintdVars, mq, main, initial, target, stateVars, crashes, history>>

(* The bridge dies at any point; systemd kills what is left in its control *)
(* group and starts it again (Restart=always).                             *)
Crash ==
  /\ main # "down" /\ crashes < MaxCrash
  /\ crashes' = crashes + 1
  /\ main' = "down" /\ mq' = <<>> /\ initial' = FALSE /\ target' = None
  /\ wanted' = FALSE /\ capturing' = FALSE /\ gen' = 0 /\ proc' = None
  /\ worker' = [t \in Threads |-> NoWorker]
  /\ running' = {}
  /\ tried' = 0
  /\ UNCHANGED <<fprintdVars, sent>>

Restart ==
  /\ main = "down"
  /\ main' = "loop" /\ initial' = TRUE
  /\ UNCHANGED <<fprintdVars, mq, target, stateVars, worker, running, crashes, history>>

-----------------------------------------------------------------------------
Fprintd == VerifyStart \/ EnrollStage \/ VerifyNeedsFinger \/ StopNeeding \/ Vanish

MainThread ==
  \/ OnNeeded \/ CheckInitial \/ NeedBusy \/ NeedStart
  \/ OnNotNeeded \/ CancelIdle \/ CancelBusy \/ KillRead \/ KillCapture

WorkerThread(t) ==
  \/ Spawn(t) \/ Register(t) \/ Reap(t) \/ CheckGen(t) \/ CheckWanted(t)
  \/ Deliver(t) \/ DeliverFails(t) \/ Finish(t)

Next ==
  \/ Fprintd
  \/ MainThread
  \/ \E t \in Threads : WorkerThread(t)
  \/ \E p \in running : CaptureExit(p)
  \/ Crash \/ Restart

Spec == Init /\ [][Next]_vars

(* The scheduler runs every thread, systemd restarts a dead bridge, and    *)
(* VFS_TIMEOUT ends every capture process.  Nothing is asked of fprintd or *)
(* of the user.                                                            *)
Fairness ==
  /\ WF_vars(MainThread)
  /\ \A t \in Threads : WF_vars(WorkerThread(t))
  /\ \A p \in Process : WF_vars(CaptureExit(p))
  /\ WF_vars(Restart)

FairSpec == Spec /\ Fairness

-----------------------------------------------------------------------------
DataOK ==
  /\ fp \in {"idle", "selected", "needed"} /\ req \in 0 .. MaxReq
  /\ mq \in Seq(Signals)
  /\ main \in MainPC
  /\ target \in Process \cup {None} /\ proc \in Process \cup {None}
  /\ gen \in Nat
  /\ worker \in [Threads -> Worker]
  /\ running \subseteq Process
  /\ crashes \in 0 .. MaxCrash
  /\ tried \in 0 .. MaxReq /\ sent \in Nat
FlagsOK ==
  initial \in BOOLEAN /\ wanted \in BOOLEAN /\ capturing \in BOOLEAN

(* Every variable keeps its type: the dictionary `state', where each       *)
(* thread is and the Popen objects the threads hand one another.           *)
TypeOK == DataOK /\ FlagsOK

(* The sensor is opened by one capture at a time, through every            *)
(* interleaving of a cancelled worker that winds down with new requests.   *)
SensorExclusive == \A p, q \in running : p = q

(* state["capturing"] says exactly whether a worker is at work, so that a  *)
(* request on_needed turns away is one that a worker is there for, and a   *)
(* worker that has ended never blocks the next one.                        *)
FlagTracksWorker == capturing <=> Alive # {}

(* A capture that kill_capture has killed is neither tried again nor       *)
(* delivered, even if a new request makes `wanted' true before its worker  *)
(* looks.                                                                  *)
CancelIsFinal ==
  \A t \in Threads : worker[t].result = "killed" => worker[t].pc \notin {"spawn", "deliver"}

(* What kill_capture is about to kill belongs to a generation that has     *)
(* been superseded, never to a newer request's capture.                    *)
KillsOnlySuperseded ==
  main = "kill2" /\ target # None => worker[target[1]].gen < gen

(* What makes these inductive: the flag admits one worker, a capture       *)
(* process lives while its worker registers it or waits for it, a          *)
(* generation is superseded for good, and so is every one from the moment  *)
(* kill_capture is called.                                                 *)
OneWorker == \A t, u \in Alive : t = u
WaitedFor == \A p \in running : p = ProcessOf(p[1]) /\ worker[p[1]].pc \in {"register", "wait"}
GenerationsGrow == \A t \in Threads : worker[t].gen <= gen
KillIsLate == main \in {"kill", "kill2"} => \A t \in Threads : worker[t].gen < gen
KilledIsSuperseded ==
  \A t \in Threads : worker[t].result = "killed" =>
    worker[t].gen < gen /\ worker[t].pc \in {"register", "wait", "checkgen", "finish"}

DeliversScan == \A t \in Threads : worker[t].pc = "deliver" => worker[t].result = "scan"

IInv ==
  /\ FlagTracksWorker /\ OneWorker /\ WaitedFor
  /\ GenerationsGrow /\ KillIsLate /\ KilledIsSuperseded /\ DeliversScan

(* Whatever happens, the bridge is ready for the next finger again.        *)
CaptureEnds == capturing ~> ~capturing

(* The sensor serves the request that needs a finger now: a capture was    *)
(* started during it, or one that is not cancelled runs.                   *)
Served(r) == tried >= r \/ \E t \in Threads : ProcessOf(t) \in running /\ ~Superseded(t)

(* A finger that fprintd keeps needing gets a capture, also when the       *)
(* bridge died and lost the signal that asked for it.                      *)
NeededIsServed ==
  \A r \in 1 .. MaxReq :
    fp = "needed" /\ req = r ~> Served(r) \/ ~(fp = "needed" /\ req = r)

(* "When fprintd stops needing a finger ... a still-running capture is     *)
(* cancelled, so the sensor is never held longer than an authentication    *)
(* actually lasts" (bridge.py:4-6): once on_not_needed is over, no capture *)
(* runs.                                                                   *)
CancelledWhenUnneeded == main = "loop" /\ ~wanted => running = {}

-----------------------------------------------------------------------------
(* What the bridge promises its surroundings, ScanService: a session is a  *)
(* worker's life, its scans are the Popen calls it has made.               *)

Session(t) == [scans  |-> IF worker[t].pc = "spawn" THEN worker[t].attempt
                                                    ELSE worker[t].attempt + 1,
               sensor |-> IF ProcessOf(t) \in running THEN "on" ELSE "off",
               image  |-> IF worker[t].result = "scan" THEN "scan" ELSE "none",
               phase  |-> IF worker[t].pc = "finish" THEN "closing" ELSE "open"]

Service == INSTANCE ScanService
             WITH sessions <- {Session(t) : t \in Alive}, out <- sent, MaxScans <- 2

(* The bridge implements it: one session at a time, at most two scans in   *)
(* a session, and at most one image out of it, the one its last scan made  *)
(* and after the sensor was let go.                                        *)
ImplementsService == Service!Spec
=============================================================================
