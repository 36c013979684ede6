# VFS495 on Linux: TLA+ models, model checking and proofs

The repository makes the Validity VFS495 fingerprint sensor (138a:003f) work under Linux.
It does so in three ways: a package that runs HP's closed `validity-sensor` under gdb, takes
the finished fingerprint out of its memory and feeds it to libfprint's `virtual_image` driver;
a set of tools that harvest the raw scan lines instead; and a native libfprint driver, of which
the line decoder exists and the rest is a scaffold.  This directory holds TLA+ models of the
parts that have state, order and failure in them, the TLC runs that check the models on small
instances, and proofs, checked by TLAPS, of the properties that matter most.

To check one run: `tlc -config ToolBridge.cfg ToolBridge`; to check the proofs of a module:
`tlapm BridgeProofs.tla`.  `PROJECT.json` says which definition stands for which lines, which
run checks which property, and which plausible bug (`Faulty...` operators) each property catches.


## 1. Inventory

Paths are below `src/`; `F/` is `packaging/vfs495-fprint/usr/lib/vfs495-fprint/`.

### Capture bridge: `F/bridge.py`, `vfs495-bridge.service`
* State: the dictionary `state` (`wanted`, `capturing`, `gen`, `proc`) shared by the main thread
  and one worker thread per capture; a capture process; a one-shot timer.
* Operations: `on_needed`, `on_not_needed`, `on_props`, `on_verify_selected`, `check_initial`,
  `kill_capture` on the main thread; `capture_and_deliver`, `run_capture`, `deliver` on a worker.
* Interaction: D-Bus signals from fprintd come in; a process group (`capture.py`, gdb, HP's
  binary) is started, awaited and killed; the image goes out over a Unix socket; systemd restarts
  the process (`Restart=always`).
* Hard: the dictionary is read and written without the lock in most places; a cancellation runs
  beside the worker it cancels; the bridge may die at any point and loses the signals sent
  meanwhile.
* Correct when: one capture at a time on the sensor; a cancelled capture is not delivered and not
  retried; a kill never hits a newer request's capture; every capture ends; a finger that is
  needed gets a capture; at most one image per session, made by its last scan.

### Capture script: `F/capture.py`, `F/harvest_assembled.py`, `tools/vfs495_capture_asm.py`
* State: a temporary file, the output file, gdb and HP's binary.
* Operations: one attempt; the breakpoint handler writes the image; the timeout kills gdb and
  `pkill` kills HP's binary; the bridge may kill all of it.
* Hard: gdb is killed in the middle of a write; HP's binary is not gdb's to take along; the file
  must not be left behind.
* Correct when: nobody holds the sensor after the end; what is reported is this attempt's image,
  and whole; the temporary file is gone; the attempt ends.

### Package life cycle: `F/setup-hp-driver.sh`, `DEBIAN/{postinst,prerm,postrm}`, the unit
* State: the files under `/var/lib/vfs495-fprint`, the unit's enabled and running state, dpkg's.
* Operations: install, first set-up, re-run by hand, remove, purge, reinstall, boot.
* Hard: a power failure or a full disk between any two writes, and a power failure after the last,
  since nothing is synced; the test "already installed" looks at two files of three; a purge that
  overtakes a set-up started by hand.
* Correct when: the script's answers are true; the bridge never runs without HP's binary; a purge
  leaves nothing that comes back.

### Line decoder of the native driver: `driver/vfs495.c`, `vfs495_descramble.inc`, `vfs495_proto.h`
* State: the buffer with the bytes of the data endpoint, the offset, the list of rows.
* Operations: `vfs495_process_capture`, `vfs495_decode_line`.
* Hard: no length field, lines are recognised by bytes that pixels can imitate; the buffer may end
  anywhere; the decoded line is an uninitialised array; the line number has 16 bits.
* Correct when: no byte is used twice and none beyond the end; a row is its line, each pixel in its
  column; the lines up to the first unacceptable one are all kept, in order.

### Line harvest: `tools/vfs495_capture.py`, `runtime/harvest_lines.py`, `tools/reconstruct.py`
* State: the attempt counter, gdb, HP's binary, the file of records, the breakpoint's `prev`.
* Operations: up to eight attempts; the breakpoint appends the line before the one it stops at;
  the loader reads records until one is cut short; `best_segment` finds the finger among the rows.
* Correct when: the rows loaded are a beginning of the swipe even after a kill; the segment is the
  longest run of rows of the finger; each attempt lets go of the sensor; the tool ends.

### vfs495-match: `F/match.py`
* State: the process (scans at work, loop positions, images sent, stages completed), one socket to
  libfprint's `virtual_image` device inside the process, a pipe with its debug lines and the thread
  that reads them; outside: the bridge's unit, the swipes on disk, the user's template and its
  `.bak`.
* Operations: `capture`, `enroll_from_image(s)` with `progress`, `verify`, `install_template`, the
  loops of `main`.
* Interaction: `systemctl stop` and `start` of the bridge; `capture.py`; fprintd's template store.
* Hard: it takes the sensor from a service and must give it back; images and score lines are paired
  by order alone; an enrolment may go on for ever; a file is replaced in three steps, none of them
  synced.
* Correct when: its swipes have the sensor to themselves; the bridge comes back; what `--capture`
  scores was captured now; a score belongs to the image it is shown for; a failure does not cost
  the user the enrolled finger; it ends.

### Tool bridge: `tools/vfs495_bridge.py`
* State: the number of images sent, the image at hand, one OUT.pgm for all attempts.
* Operations: a loop that runs `vfs495_capture_asm.py` and sends what it wrote to libfprint's
  socket, or, with `--file`, sends an image that exists; `--count` limits it.
* Interaction: the script by its exit status and by OUT.pgm, which nobody removes; libfprint, which
  listens while a program uses it.
* Hard: OUT.pgm still has an earlier attempt's image when an attempt fails; libfprint comes and goes.
* Correct when: what is sent is whole and from the attempt just over; with `--file` the loop ends
  when nobody listens any more.

### USB tools: `tools/ssl_session.py`, `test_nossl.py`, `vcsfw_getver.py`
* State: the position in the list of commands, the last answer, the log TRAFFIC, the session's
  randoms and keys; in the sensor: commands and answers under way, packets on the data endpoint.
* Operations: send a command, read its answer, drain the data endpoint, give a verdict, write the
  log; every call to libusb has a timeout.
* Hard: an answer may come after the timeout; an interrupted run leaves answers behind; both ends
  must derive the same keys from a handshake that may have been broken off before.
* Correct when: a verdict is about the answer to the command it speaks of; the flight is the one
  docs/SSL_PROTOCOL.md prescribes for the randoms of its session; the log has each answer behind its command; the tool ends.

### The rest
* `runtime/dump_*.py`, `harvest_cmds_full.py`, `usblog.c`, `stub.c`, `ghidra/`: debugger scripts
  and a preload logger that print what they see.  Not modelled: no state.
* `runtime/vs.sh`, packaging metadata, udev and PAM files: declarative, or one `case` statement.

How the parts meet: `Bridge`'s `CaptureExit` and `KillCapture` stand for a whole attempt of
`Capture`; what they take for granted, that an attempt ends and that nobody holds the sensor
after it, are `AttemptEnds` and `SensorReleased` of `Capture`.  `Package` decides whether the
bridge may start at all, and `Capture`'s `installed` is what `Package` left behind.  `Match` sees
the bridge as a unit that is up or down and, when up, may capture at any time, and sees an attempt
by its three results.  `ToolBridge` is a loop around `Capture` itself.


## 2. Modules

| module | models | runs on |
|---|---|---|
| `ScanService` | what the bridge promises: sessions one after the other, a sensor that is on or off, at most one image per session | - |
| `Bridge` | `bridge.py` with fprintd, capture processes and systemd | `MCBridge` |
| `BridgeProofs`, `BridgeRefines` | theorems about `Bridge` | - |
| `Capture` | one capture attempt, by either script | itself |
| `ToolBridge` | `Capture` started once, or by the loop of tools/vfs495_bridge.py | itself |
| `CaptureProofs` | theorems about `Capture` and `ToolBridge` | - |
| `Package` | the life of the package on a machine | itself |
| `PackageProofs` | theorems about `Package` | - |
| `DliDecode` | the line decoder | `MCDliDecode` |
| `VFS495Descramble` | the geometry of a line and the driver's table | - |
| `DliProofs` | theorems about the decoder and about the table | - |
| `Harvest` | the line harvest and the loader | itself |
| `Segment` | `best_segment` of the reconstruction, as a state machine | `Harvest` |
| `HarvestProofs` | theorems about `Harvest` | - |
| `UsbTools` | the three tools that talk to the sensor themselves, and the sensor | itself |
| `UsbProofs` | theorems about `UsbTools` | - |
| `Match` | vfs495-match beside the bridge's unit | itself |
| `MatchProofs` | theorems about `Match` | - |

### Bridge
One action is one access to `state`, to the process table or to the outside.  `main` and
`worker[t].pc` say where the threads are; `OnNeeded` then `NeedBusy` or `NeedStart` are
`on_needed` (bridge.py:72-77), `OnNotNeeded` .. `KillCapture` are `on_not_needed` with
`kill_capture` (79-83, 39-45), `Spawn` .. `Finish` are `capture_and_deliver` with `run_capture`
and `deliver` (47-70, 31-38, 20-29).  The two operands of the cancellation test (54) are read in
two steps, since the main thread may write between them.  Starting a process and registering it
(33, 35) are two steps for the same reason.  `KillCapture` finds the process that was read under
the lock, and kills nothing if it has ended.

fprintd is external: a request becomes `selected` (verify) or `needed` (enrol), may cease to need
a finger with or without a signal, and takes a delivered image only when it needs one.  Signals
arrive in order while the bridge is up and are lost while it is down.  `tried`
and `sent` are history variables: they are written for the properties and read by no action that
models code.  `pkill` by name (45) is modelled by its effect on the bridge's own capture, the only
one there is in this module.  The worker tests the generation once and delivers later (54, 57):
where a request ends and the next begins in between, the next one gets the old swipe.  The model
does that, too; no line of the code promises otherwise, and no property speaks of it.

### Capture
Three processes: the script, gdb with its breakpoint handler, HP's binary.  A file is absent,
empty, torn or whole.  `packaged` chooses between `capture.py` and its counterpart in `tools/`,
which removes the temporary file in another place and has the `reshape` that refuses a torn image.
The breakpoint may be hit several times, and each hit that finds an image opens the file anew.
`Killed` is the bridge's `kill_capture` as seen from inside.  VFS_TIMEOUT is `TimedOut`, which may
fire at any point while gdb runs.  HP's binary is external: it exits when it likes, and dies at the
breakpoint once gdb is gone.

### ToolBridge
It extends `Capture`, whose actions it takes as they are (`Capturing`), with the loop of
tools/vfs495_bridge.py around them: `Attempt` is the call of the script, `CaptureFails` and
`ReadOut` the look at its exit status and at OUT.pgm, `Send`, `SendFails` and `Sleep` the delivery.
OUT.pgm is one file for all attempts; what an earlier one wrote is `"old"` to the next, and so is
a whole image.  With the packaged script there is no loop (`"once"`).  `SendFails` merges the three
exceptions around `send_image`: the code breaks out of the loop in each of them with `--file`, and
goes on without.

### Package
`setup` and `at` are the program counter of the script.  The steps in the temporary directory are
one step (`Fetch`, `FetchFails`), since a failure among them touches nothing that lasts; every file
under DEST is opened (and emptied) in one step and filled in another.  `WriteFails` is `set -e` at
work.  `Interrupted` (Ctrl-C, a signal) and `PowerFails` may come between any two steps.

The script never syncs.  `unsynced` has the files whose contents are written but not yet on the disk;
`Writeback` is the kernel writing one back, at any time or never.  A power failure takes the contents
of any of the files in `unsynced`: they stay there, with name and mode, empty or short (`"torn"`).
The history `damaged` says that the binary's were among them and that nobody has written it since.
Names, modes, removals and dpkg's records are taken to reach the disk in the order they were made, as
a journalling file system sees to; to lose the last of them is then the same as to lose power earlier,
which is in the model.  A file system that reorders them is not.

One script runs at a time; removal and purge may happen while a script started by hand runs.
fprintd's restarts, udev, PAM and the optional `HPUsbVFS495.img` are left out.

### DliDecode
The algorithm on its own: in the scaffold `capture_buf` is always NULL, so that nothing calls it
with data yet.  One action per iteration of the loop.  `b` is the byte stream that a list of lines
makes, with the header as docs/FINDINGS.md:110 gives it, and lines of 8 + 264 bytes as
vfs495_proto.h has it.  The decoded line starts out as `Junk`, a value that is no byte.

### Harvest and Segment
A line is its number within the attempt.  Which of the loaded rows have ridge energy is left open,
but for one thing: the threshold is not below the median, so half of them at most.  From there on
`Segment` follows `best_segment`: its two loops, over gaps and over runs, have one shape, and share
the actions `Skip` and `Collect` (the two inner `while`s), with `CloseGap` or `TakeRun` as what is
done about the rows collected and `LoopEnds` as the way out.  `Harvest` starts the search when it
has loaded the file (phase `search`) and reports `seg` when both loops are through.  `OfFinger` and
`IsLongestRun` say without loops what should come out.

### UsbTools
The three tools share the client: `Write`, `Read`, `Drain` and their timeouts are `send`,
`recv` and the reads of 0x82 in `main` of ssl_session.py, `cmd` of test_nossl.py and `command` of
vcsfw_getver.py, `Program` is the list of commands that each
`main` goes through, with two commands standing for captures/init_cmds.json.  test_nossl.py catches
the USBError of one command and takes the next (`GivesUp`), so an answer may come late there.  What
is hashed, MACed or enciphered is the tuple of what goes in: equal exactly if all of it is.  Pads,
paddings, key lengths and byte order are therefore out of sight; which random goes where, in which
order, under which sequence number, and from which session, is what the model is about.  `Documented` is
the reference for that: the derivation of docs/SSL_PROTOCOL.md:28-42, over the randoms the sensor has
heard and sent.

What makes the sensor accept a flight is not modelled: it answers one with its own Finished or with
an alert, whatever is in it.  The sensor at hand has answered every flight of this tool with alert
0x2f (docs/SSL_PROTOCOL.md:65, docs/FINDINGS.md:234-288), for a reason inside its firmware that its
host does not see.  So `FlightDocumented` says that the host's side follows the documented derivation
in every session, and does not say that the handshake succeeds; it does not.

Two things are taken for granted: `set_configuration(1)` discards what an earlier tool has left in
the endpoints, and the sensor is done with an old command when a user starts the next tool.

### Match
`tool` is the memory of the process, a record; its `pc` follows `main` through `capture`,
`install_template` or the loops of the scoring.  Sessions follow one another without end.  An image
is in `socket` from `send_image` until the device takes it: the helper thread's delay and retries
are inside that.  The device (libfprint) is external: it takes an image when an operation is under
way, and scores it, completes a stage with it, or cannot use it.  Score lines wait in `pipe` for the
reader thread; that 50 ms are enough for it (match.py:145) is an assumption of the code, and of the
model: `Settled`.  Ctrl-C during the swipes reaches the capture, too, and runs the `finally` clause;
any other end from outside, `Killed`, runs nothing and leaves the capture as an orphan on the
sensor.  match.py:126 writes the template without a sync: as in `Package`, `unsynced` says whether the
template and its backup are on the disk, `Writeback` puts one there, and a power failure takes the
contents of any that are not; names reach the disk in order.  `bridge.py` is reduced to taking and leaving the sensor and to its `pkill` by name.

## 3. Runs

| run | asks | bounds, and why they are enough |
|---|---|---|
| `bridge_safety` | `TypeOK`, `SensorExclusive`, `FlagTracksWorker`, `CancelIsFinal`, `KillsOnlySuperseded`, `ImplementsService` | two threads, two requests, one crash: a cancelled worker meets a new request, in every phase of both, and a crash meets all of it. 226 051 states. The proofs lift the bounds |
| `bridge_live` | `CaptureEnds`, `NeededIsServed` | one request, one crash: both verify and enrol, needed before and after the restart. With a second request `NeededIsServed` is false, see `bridge_lost_wakeup` |
| `capture` | `LoopTypeOK`, `SensorReleased`, `ReportedIsNew`, `TempRemoved`, `ToolReportsWhole`, `SentIsNew`, `AttemptEnds`, `FileLoopEnds` | two hits of the breakpoint: an image and a second one over it, which may be cut short; two attempts and two images sent: an attempt that fails over the image of one that did not. 2 982 states. The proofs lift the bounds |
| `package` | `AlreadyHasBinary`, `InstalledIsWhole`, `BridgeHasBinary`, `PurgeIsFinal` | none: the state space is finite, any number of installations, failures, removals and boots. 1 523 states |
| `dli_decode` | `LinesApart`, `ImageIsLine`, `LeadingKept` | four columns, three of them image; three lines, the last two with every pattern over the bytes 0, 1 and 254 (a header needs 1, then 1 or 254, and 0s); the last byte missing or not; numbers from 6 (the third line's number then looks like a depth of 8) and from 255 |
| `harvest` | `TypeOK`, `PartialUsable`, `SegmentIsLongest`, `SensorReleased`, `ToolEnds` | three attempts of at most ten lines: nine rows hold four of the finger and gaps of every kind around the limit of two. 79 523 states. The proofs lift the bounds |
| `usb_tools` | `TypeOK`, `AnswerIsOwn`, `FlightDocumented`, `TrafficPaired`, `ToolEnds` | two runs, of any tools: whatever the first leaves behind meets the second, and no third is needed, since a start leaves of the sensor only the hellos it has heard. 7 223 states. The proofs lift the bound |
| `match` | `TypeOK`, `SensorIsOurs`, `ScoredAreNew`, `ScoreIsOwn`, `TemplateSurvives`, `BridgeComesBack`, `RunEnds` | two swipes (one to enrol, one to verify), two stages, caps of three and four images (more than the stages, as 8 and 12 are), two failures, any number of sessions and enrolments. 413 996 states. The proofs lift the bounds of the safety properties |
| `bridge_lost_wakeup` | `NeededIsServed` is violated | two requests, no crash |
| `bridge_uncancelled` | `CancelledWhenUnneeded` is violated | one request |
| `capture_torn` | `ReportedIsWhole` is violated | one hit |
| `package_rerun` | `AlreadyIsWhole` is violated | none |

`CHECK_DEADLOCK FALSE` stands in the configurations because these systems may stop: fprintd makes
no further request (the bound), a capture or a decode is over, or the tool has exited.  In the
packaged system the bridge simply waits for the next signal.

### Fairness
* `Bridge`: weak fairness of the main thread and of each worker (they are threads the kernel
  schedules, and none of their steps waits for more than its guard says), of the exit of each
  capture process (`VFS_TIMEOUT` in `capture.py`, and `AttemptEnds` in `Capture`), and of the
  restart (`Restart=always`).  Nothing is asked of fprintd or of the user.  That `deliver`
  returns is part of it: the socket has no timeout, and a libfprint that accepts and never reads
  would hold the worker.
* `Capture`: weak fairness of the script, whose `TimedOut` is enabled as long as gdb runs.  Neither
  gdb, nor HP's binary, nor the finger has to do anything.  `ToolBridge` adds weak fairness of its own
  loop, one thread that waits for nothing but the script; libfprint may listen or not as it likes,
  and `FileLoopEnds` has that it does not, from some time on, as its premise.
* `UsbTools`: weak fairness of the tool, each of whose calls has a timeout.  The sensor need not
  answer.
* `Harvest`: weak fairness of the tool and of its timeout.
* `Match`: weak fairness of the process, with what it waits for: the end of a capture
  (`AttemptEnds`) and the device's answer to an image.  The latter is libfprint's, and holds for
  whole images only: for the rest of a torn one (`capture_torn`) it would wait for ever.

### What the violations show
* **A need that comes at the wrong moment is lost** (`bridge_lost_wakeup`).  Between the worker's
  last look at the generation and its `finally` the flag `capturing` is still set.  A request
  that arrives there is turned away by bridge.py:74, and nobody looks again: fprintd waits for a
  swipe with no capture running.
* **A cancellation can miss** (`bridge_uncancelled`).  `kill_capture` reads `state["proc"]`, which
  the worker sets only after `Popen` has started the process.  In between it finds None and the
  capture keeps the sensor until its own timeout.  What holds nevertheless is proved: such a capture
  belongs to a superseded generation (`Missed`), and its worker delivers nothing, starts no further
  capture and goes to its end (`Doomed`).
* **A torn image is reported as good** (`capture_torn`).  The packaged script has lost the
  `reshape` that made the tool refuse it.  `ToolReportsWhole` of `capture` is the contrast.
* **A re-run does not repair** (`package_rerun`).  A libssl cut short, or no libcrypto, is "already
  installed" for ever.  So is a binary that is there with its mode but empty, when the power failed
  before the kernel had written it back.  What does hold is `AlreadyHasBinary`: nothing else, neither
  an interruption nor a failed write, leaves a binary that is not whole behind these words.


## 4. Proofs

All for every value of the constants, checked by TLAPS 1.4.5 with Z3, Zenon and LS4.

| theorem | says |
|---|---|
| `BridgeProofs!Typing` | `Spec => []TypeOK` |
| `BridgeProofs!Invariance` | `Spec => []IInv`, the inductive invariant (relative to `TypeOK`) |
| `BridgeProofs!Exclusion` | `Spec => []SensorExclusive` |
| `BridgeProofs!Cancellation` | `Spec => []CancelIsFinal`: of captures that `kill_capture` has killed |
| `BridgeProofs!Tracking` | `Spec => []FlagTracksWorker` |
| `BridgeProofs!Precision` | `Spec => []KillsOnlySuperseded` |
| `BridgeProofs!Missed` | whenever no finger is wanted and the main thread is in its loop, each running capture is of a superseded generation |
| `BridgeProofs!Doomed` | a worker superseded before it compares the generations stays so until it ends, without another capture or a delivery |
| `BridgeProofs!WorkBounded` | a worker has at most 14 steps left; each step of its own leaves fewer, no other step leaves more |
| `BridgeRefines!Refinement` | `Spec => ImplementsService` |
| `CaptureProofs!Typing` | `LoopSpec => []LoopTypeOK` |
| `CaptureProofs!Release` | `LoopSpec => []SensorReleased` |
| `CaptureProofs!Novelty` | `LoopSpec => []ReportedIsNew` |
| `CaptureProofs!Removal` | `LoopSpec => []TempRemoved`: when the script ends by itself |
| `CaptureProofs!Wholeness` | `LoopSpec => []ToolReportsWhole` |
| `CaptureProofs!Freshness` | `LoopSpec => []SentIsNew` |
| `CaptureProofs!AttemptBounded` | an attempt has at most seven lines left; each leaves fewer, no other process leaves more, and the wait for gdb has a gdb to end it |
| `CaptureProofs!FileLoopBounded` | with `--file` the loop makes no capture, and each of its steps while nobody listens is one of three at most |
| `HarvestProofs!Typing` | `Spec => []TypeOK` |
| `HarvestProofs!Longest` | `Spec => []SegmentIsLongest`, for any number of rows, any gap and any margin |
| `HarvestProofs!SearchEnds` | each round of the search decreases a natural number |
| `HarvestProofs!ToolProgresses` | each step of the tool, timeout included, goes down a lexicographic order of attempts, phases and rounds; gdb and HP's binary do not move it |
| `HarvestProofs!Usable` | `Spec => []PartialUsable` |
| `HarvestProofs!Release` | `Spec => []SensorReleased` |
| `UsbProofs!Typing` | `Spec => []TypeOK` |
| `UsbProofs!Pairing` | `Spec => []AnswerIsOwn` |
| `UsbProofs!Derivation` | `Spec => []FlightDocumented` (not that the sensor accepts the flight) |
| `UsbProofs!Logging` | `Spec => []TrafficPaired` |
| `UsbProofs!CallsBounded` | a run makes at most 31 calls; each leaves fewer, nothing the sensor does leaves more |
| `PackageProofs!Service` | `Spec => []BridgeHasBinary` |
| `PackageProofs!Presence` | `Spec => AlreadyHasBinary`, a binary taken by a power failure excepted |
| `PackageProofs!Honesty` | `Spec => InstalledIsWhole` |
| `PackageProofs!Finality` | `Spec => PurgeIsFinal` |
| `MatchProofs!Exclusion` | `Spec => []SensorIsOurs` |
| `MatchProofs!Survival` | `Spec => []TemplateSurvives`: for a power failure, once a template is on the disk |
| `MatchProofs!Typing` | `Spec => []TypeOK`, the caps of `progress()` included |
| `MatchProofs!Pairing` | `Spec => []ScoreIsOwn` |
| `MatchProofs!Novelty` | `Spec => []ScoredAreNew` |
| `MatchProofs!RunProgresses` | each statement of a run goes down a lexicographic order of four natural numbers; Ctrl-C, failures and the bridge take none of them up |
| `DliProofs!TableIsPermutation` | the driver's table is a permutation of the 264 columns that keeps main image and auxiliary pixels apart |
| `DliProofs!Framing` | `Spec => []LinesApart`, for every width, table and stream |
| `DliProofs!Fidelity` | if the table is a permutation, `Spec => []ImageIsLine` |
| `DliProofs!Completeness` | `Spec => []LeadingKept`, for every width and every swipe |

The only assumptions are the named ones in the modules, which TLC evaluates on every run:
`BoundsAssumption` of `Bridge`, `Match` and `Harvest`, `SegmentAssumption` (gap and margin are
naturals), `CaptureAssumption`, `LoopAssumption` of `ToolBridge` and `RunsAssumption` of `UsbTools` (the bounds are naturals, those of `Match` that the
code has as constants not 0), `GeometryAssumption` and `InputAssumption` of `DliDecode` (the table
maps columns to columns, streams are made of lines).  `Package` has no constants.

**Bridge.**  `SensorExclusive` is not inductive: a state with two workers may start a second
process.  `IInv` adds why that cannot be: the flag is set exactly while a worker lives
(`FlagTracksWorker`), one worker lives at most (`OneWorker`), and a process lives only while its
worker registers it or waits for it (`WaitedFor`).  For the cancellation, generations only grow
(`GenerationsGrow`), a kill happens after the generation was superseded (`KillIsLate`), so what it
kills is superseded for good (`KilledIsSuperseded`) and fails the test on its way to `deliver`.
One step per action of `Next`, one step below per conjunct it can disturb.  For what becomes of a
cancellation that misses, `Unneeded` says that from the bump of the generation on nothing that runs
is of the current one, as long as no finger is wanted.

**Refinement.**  A session of `ScanService` is a worker's life; its scans are the `Popen` calls so
far, its sensor is on while its process lives, its image is what the last capture left.  Starting
a worker is `Begin`, `Spawn` is `ScanOn`, the exit and the kill of a capture are `ScanOff`,
`Deliver` is `HandOver`, the ways to the `finally` clause are `GiveUp`, `Finish` is `End`, a crash
is `Abort`; everything else stutters.  The invariant supplies that there is one session, and
`DeliversScan` that what is handed over is a scan.

**Capture and the loop.**  What lets go of the sensor is that processes are nested (`Nested`: gdb
lives within the script's call, HP's binary within gdb or until the `pkill`), and what makes a
report new is that every image, in whichever file, came by a hit of this attempt (`Harvested`).
`Filed` and `Cleared` say where the temporary file is.  One step per action (`Kept`); the loop adds
that each attempt starts from a state that has these again (`Renewed`).

**Harvest.**  `OneBehind` ties the file to the breakpoint: `prev` is the line after the last one in
the file.  So the file has the lines in order, all but the last of them whole (`Ordered`), and the
loader, which stops at the first that is not (`WholeIsPrefix`), has a beginning of the swipe.
For the segment, `SegInv` has of each loop what it has collected (`Collected`), that behind the first
loop the rows that are on are those of the finger and before it untouched (`Closed`), and that
`best` is a longest run of the rows behind the second (`IsBest`).  A gap that is closed is bounded by
two rows with energy and short enough (`OfFinger`), and one that is not closed has no row of the
finger in it; a run that ends cannot be continued by a later one.  No induction over the rows is
needed: the loops' own steps are the induction.

**USB tools.**  A run in which no command of test_nossl.py has failed is `Strict`: one command or
answer is under way at most, and it is the current one's (`OneAtATime`).  From that the verdict
speaks of its own answer, and the randoms in a flight are those the sensor has heard last
(`Heard`).  Past a failed command several may be under way, but none of them belongs to a handshake
(`NoHandshake`), so that the next run's handshake starts clean.  For the types, `Bounded` and `Queues`
keep what is under way within the program's length, whatever the sensor sends.

**Package.**  `PackageInv` follows the script: past the `fill` of a file that file is whole unless
DEST was purged meanwhile, an executable binary beside a libssl is whole or was taken by a power
failure, and the unit is enabled only while the package is there.  That only whole files are in
`unsynced`, and none after a purge, is what keeps a power failure from bringing one back.

**vfs495-match.**  `SensorInv`: the bridge is on the sensor only while its unit runs, and the unit is
down from the stop to the `finally` clause.  `StoreInv`: while nothing has failed the template is
whole, or its backup is while a new one is written; after one failure one of the two is whole, but
for the time a new one is written, which ends well or with the second failure.  For the power
failure among them, `OnDisk` says that one of the two is whole on the disk, from the first one that
was written back (`stored`) for as long as none is moved over it that was not; `DiskInv` has what
`unsynced` may contain.  Most steps touch
neither: the lemmas about steps say so once for both proofs.  Both need of the record `tool` only
that it has a `pc` (`HasPC`).  `MatchInv` is about the inside of `tool`.  `Places` has the loop
variables where they belong at each `pc`, so that `files[a]` and `files[b]` exist; `OneImage` says
that one image at most is in the socket and one score line in the pipe, both of the image asked
for, and that both are empty between operations, which is `ScoreIsOwn`; `Taken1` that what a
capture has collected are swipes it has behind it, so that the next one overwrites none of them.

**Decoder.**  `LoopInv` says that the rows lie apart and before the offset `i`, and `Scattered` that
a scatter along a permutation writes every column, so that neither the stack's junk nor an earlier
line shows through.  `Leading(c)` says that the first c lines are the oldest c rows, and that the
loop stands behind the last of them or has met a line it does not accept.  It advances because a
header begins where the line before it ends (`HeaderAt`), and pixels are never looked at before
that: a byte in them that imitates a header does no harm until something has been refused.

**Ends.**  The liveness properties themselves are out of the prover's reach, but the half of them
that is about data is proved: something in the well-founded order of the natural numbers, or of
lists of them, goes down with every step of the process in question, and nobody else takes it up.
For a worker of the bridge it is `Work`, the statements left of its two attempts.  For a capture it is
`Lines`, the lines left of the script: the hits of the breakpoint, any number of them, do not touch
it, and while the script waits for gdb there is one to kill or to reap (`GdbThere`).  For the tool
bridge with `--file` it is `Turns`, as long as nobody listens.  For a USB tool it
is `Left`, the calls of the command at hand, of the commands left and one for each packet on the
data endpoint or still to come.  For the line harvest it is the triple of attempts left, phase of an
attempt and rounds of the search.  For vfs495-match (`RunProgresses`) it is the part of the program,
the swipes to take or scans to enrol, the scans to verify, and the statements with the images still
allowed: the caps of `progress()` are what makes the last one a number.  What remains for the
fairness is that a process which can step will.

Model-checked only: liveness (`CaptureEnds`, `NeededIsServed`, `AttemptEnds`, `FileLoopEnds`,
`ToolEnds`, `BridgeComesBack`, `RunEnds`), which the prover does not do under fairness, and the
violations.


## 5. What the models leave out

* Contents of images, and the signal processing of `reconstruct.py`: numerical.
* The numerical side of `ssl_session.py`'s cryptography: pads, RSA padding, byte order, lengths.
* A verdict of test_nossl.py after one of its commands has failed (test_nossl.py:53): it may be
  about the late answer to an earlier one.  `AnswerIsOwn` excepts that case.
* That the tool bridge without `--file` never ends, although vfs495_bridge.py:12 says "loop until
  the socket closes": `FileLoopEnds` is about `--file`, where the code does so.
* The file system: `fsync` is nowhere in the code, and the models take it that the kernel writes
  contents back when it likes but names and modes in order (`Package`, `Match`).  Two things are
  excepted from the properties, and in the models: `AlreadyHasBinary` a binary that a power failure
  took, `TemplateSurvives` a power failure before any template has reached the disk, soon after a first
  enrolment (there is no `.bak` yet) or after two in a row.
* What makes the sensor accept or reject a handshake.
* The packaged script's temporary file after a SIGTERM from the bridge: the model leaves it there, and
  `TempRemoved` is about the ends the script comes to by itself.
* A capture superseded between the test of the generation (bridge.py:54) and `deliver`: it is
  delivered in the model, too, and `CancelIsFinal` is about those that were killed.
* Exceptions in `run_capture` and `deliver` (bridge.py:33, 57), which lead to the same `finally` clause
  as the exits that are modelled, and are not told apart from them.
* The test of the width at harvest_lines.py:19: the width is the same for every line.
* In vfs495-match, scoring against more than one template: one stands for all of them.
* A worker that dies outside its `try` (`os.makedirs` at bridge.py:48): a hazard without a model yet.
* `VerifyFingerSelected` without a later finger-needed leaves `wanted` set: the model shows it,
  no property is about it.
* The `.img` file of setup-hp-driver.sh, and two set-up scripts at once.
* Frames of other lengths than 272 bytes: docs/FINDINGS.md reports some, the driver knows one.
* Lines whose number has a high byte (vfs495.c:145): the decoder takes byte 3 of the header for a
  constant 0, docs/FINDINGS.md:110 has the high byte of the line number there.  `LeadingKept` is
  about the lines before the first such one; the rest of a swipe of 3130 lines would be dropped.
* Two sessions of vfs495-match at once: the first to end starts the bridge under the other.
* Torn images in vfs495-match, and a device that refuses every connection (match.py:65-71).
* The life cycle of the driver around its decoder (vfs495.c:110-286): the states open, activate and
  deactivate complete at once, `capture_buf` is always NULL and the capture state is a TODO, so
  that no behaviour with an image in it is reachable.


## 6. Plan

Done, in this order: `Bridge`, `Capture`, `Package`, `DliDecode`, `Harvest` with `Segment`, `Match`,
`ToolBridge`, `UsbTools`, and the proofs above: every safety invariant and every action property of
the passing runs is a theorem.  What is left:

1. The error step of `capture_and_deliver` (bridge.py:48): a failing `os.makedirs` leaves
   `capturing` set for ever.  With it in `Next`, `FlagTracksWorker` holds no more, nor does
   `NeededIsServed`: it belongs in a specification of its own beside `Spec`.
2. Two sessions in `Match`, with the bridge's `pkill` hitting the other one's capture.
3. The driver's life cycle, once its capture state is written.
