------------------------------- MODULE Package ------------------------------
(***************************************************************************)
(* The life of the package on one machine: setup-hp-driver.sh, which puts  *)
(* HP's patched binary and the OpenSSL stubs under DEST, the maintainer    *)
(* scripts postinst, prerm and postrm, which call it, start and stop the   *)
(* bridge and clean up, and the unit file that starts the bridge at boot.  *)
(*                                                                         *)
(* Power may fail or the script be interrupted between any two steps, a    *)
(* write may fail half way, and the administrator may run the script       *)
(* again, also while the package is being removed.  The script never       *)
(* syncs: what it has written reaches the disk when the kernel writes it   *)
(* back, and a power failure before that leaves the file there, with its   *)
(* mode, but empty or short.  Names, modes and dpkg's records are taken    *)
(* to reach the disk in the order they were made, as a journal sees to:    *)
(* to lose the last of them is to lose power earlier.                      *)
(*                                                                         *)
(* The steps that only use the temporary directory (checksum, extraction,  *)
(* looking for the binary) are part of the fetch; HPUsbVFS495.img is       *)
(* optional and left out.  One script runs at a time.                      *)
(***************************************************************************)

VARIABLES
  dpkg,      \* "absent", "unpacked", "installed" or "removed"
  setup,     \* the next step of setup-hp-driver.sh, "idle" when none runs
  at,        \* the file that step is about
  caller,    \* who waits for the script: "postinst", "admin" or "none"
  answer,    \* how it ended: "installed", "already", "failed", else "none"
  dir,       \* does DEST exist?
  file,      \* "absent", "torn" or "whole", for each file under DEST
  exec,      \* is the binary executable?
  unsynced,  \* the files whose contents the disk does not have yet
  damaged,   \* history: a power failure took the binary's contents
  enabled,   \* is the bridge's unit enabled?
  bridge     \* does the bridge run?

script == <<setup, at, caller, answer>>
dest == <<dir, file, exec, unsynced, damaged>>
service == <<enabled, bridge>>
vars == <<dpkg, script, dest, service>>

Files == {"binary", "ssl", "crypto"}
Gone == [f \in Files |-> "absent"]

Init ==
  /\ dpkg = "absent"
  /\ setup = "idle" /\ at = "binary" /\ caller = "none" /\ answer = "none"
  /\ dir = FALSE /\ file = Gone /\ exec = FALSE
  /\ unsynced = {} /\ damaged = FALSE
  /\ enabled = FALSE /\ bridge = FALSE

-----------------------------------------------------------------------------
(* What the properties must notice if it went missing.                     *)

FaultyAlready == file["binary"] # "absent"          \* -f binary, no more
Already == exec /\ file["ssl"] # "absent"           \* -x binary, -f libssl

FaultyFails == setup' = "next" /\ UNCHANGED answer  \* no set -e
Fails == setup' = "idle" /\ answer' = "failed"

FaultyStops == UNCHANGED service                    \* no disable --now
Stops == enabled' = FALSE /\ bridge' = FALSE

FaultyDirNeeded == TRUE                             \* mkdir -p before each write
DirNeeded == dir

-----------------------------------------------------------------------------
(* setup-hp-driver.sh, at the start, with mkdir -p and the test that it    *)
(* has nothing to do.                                                      *)
Check ==
  /\ setup = "check"
  /\ dir' = TRUE
  /\ IF Already THEN setup' = "idle" /\ answer' = "already"
                ELSE setup' = "fetch" /\ UNCHANGED answer
  /\ UNCHANGED <<dpkg, at, caller, file, exec, unsynced, damaged, service>>

(* Download or copy, checksum, extraction, the assertion on the bytes to   *)
(* patch: all of it before anything under DEST is touched.                 *)
Fetch ==
  /\ setup = "fetch"
  /\ setup' = "open" /\ at' = "binary"
  /\ UNCHANGED <<dpkg, caller, answer, dest, service>>

FetchFails ==
  /\ setup = "fetch"
  /\ setup' = "idle" /\ answer' = "failed"
  /\ UNCHANGED <<dpkg, at, caller, dest, service>>

(* open(dst, "wb") and cp empty the file first and keep its mode.          *)
Open ==
  /\ setup = "open" /\ DirNeeded
  /\ setup' = "fill"
  /\ file' = [file EXCEPT ![at] = "torn"] /\ unsynced' = unsynced \ {at}
  /\ UNCHANGED <<dpkg, at, caller, answer, dir, exec, damaged, service>>

(* Written and closed; into a file without a name if DEST was purged.      *)
Fill ==
  /\ setup = "fill"
  /\ setup' = "next"
  /\ IF file[at] = "absent"
     THEN UNCHANGED <<file, unsynced, damaged>>
     ELSE /\ file' = [file EXCEPT ![at] = "whole"] /\ unsynced' = unsynced \cup {at}
          /\ damaged' = (damaged /\ at # "binary")
  /\ UNCHANGED <<dpkg, at, caller, answer, dir, exec, service>>

(* The file cannot be created, or the disk is full.                        *)
WriteFails ==
  /\ setup \in {"open", "fill"}
  /\ Fails
  /\ UNCHANGED <<dpkg, at, caller, dest, service>>

(* chmod 755, before the libraries.                                        *)
Chmod ==
  /\ setup = "next" /\ at = "binary" /\ file["binary"] # "absent"
  /\ exec' = TRUE
  /\ setup' = "open" /\ at' = "ssl"
  /\ UNCHANGED <<dpkg, caller, answer, dir, file, unsynced, damaged, service>>

ChmodFails ==
  /\ setup = "next" /\ at = "binary" /\ file["binary"] = "absent"
  /\ setup' = "idle" /\ answer' = "failed"
  /\ UNCHANGED <<dpkg, at, caller, dest, service>>

NextLibrary ==
  /\ setup = "next" /\ at = "ssl"
  /\ setup' = "open" /\ at' = "crypto"
  /\ UNCHANGED <<dpkg, caller, answer, dest, service>>

Finish ==
  /\ setup = "next" /\ at = "crypto"
  /\ setup' = "idle" /\ answer' = "installed"
  /\ UNCHANGED <<dpkg, at, caller, dest, service>>

-----------------------------------------------------------------------------
(* dpkg and the maintainer scripts.                                        *)

Unpack ==
  /\ dpkg \in {"absent", "removed"}
  /\ dpkg' = "unpacked"
  /\ UNCHANGED <<script, dest, service>>

(* postinst configure, up to its call of the script.                       *)
Configure ==
  /\ dpkg = "unpacked" /\ setup = "idle" /\ caller = "none"
  /\ setup' = "check" /\ caller' = "postinst" /\ answer' = "none"
  /\ UNCHANGED <<dpkg, at, dest, service>>

(* The rest of postinst, whatever the script's exit status was.            *)
Configured ==
  /\ caller = "postinst" /\ setup = "idle"
  /\ caller' = "none" /\ dpkg' = "installed"
  /\ enabled' = TRUE /\ bridge' = (bridge \/ exec)
  /\ UNCHANGED <<setup, at, answer, dest>>

(* sudo vfs495-setup-hp-driver, by hand.                                   *)
Rerun ==
  /\ dpkg = "installed" /\ setup = "idle" /\ caller = "none"
  /\ setup' = "check" /\ caller' = "admin" /\ answer' = "none"
  /\ UNCHANGED <<dpkg, at, dest, service>>

RerunOver ==
  /\ caller = "admin" /\ setup = "idle"
  /\ caller' = "none"
  /\ UNCHANGED <<dpkg, setup, at, answer, dest, service>>

(* prerm: disable --now; the script by hand goes on if it is running.      *)
Remove ==
  /\ dpkg = "installed" /\ caller # "postinst"
  /\ dpkg' = "removed"
  /\ Stops
  /\ UNCHANGED <<script, dest>>

(* postrm purge: rm -rf DEST, at any step of a script run by hand.         *)
Purge ==
  /\ dpkg = "removed"
  /\ dpkg' = "absent"
  /\ dir' = FALSE /\ file' = Gone /\ exec' = FALSE
  /\ unsynced' = {} /\ damaged' = FALSE
  /\ UNCHANGED <<script, service>>

-----------------------------------------------------------------------------
(* The kernel writes a file's contents back.                               *)
Writeback ==
  \E f \in unsynced :
    /\ unsynced' = unsynced \ {f}
    /\ UNCHANGED <<dpkg, script, dir, file, exec, damaged, service>>

(* The script is interrupted, and postinst with it.                        *)
Interrupted ==
  /\ caller # "none"
  /\ setup' = "idle" /\ caller' = "none"
  /\ UNCHANGED <<dpkg, at, answer, dest, service>>

(* The power fails, and takes the contents of any files the disk does not  *)
(* have yet.                                                               *)
PowerFails ==
  \E lost \in SUBSET unsynced :
    /\ file' = [f \in Files |-> IF f \in lost THEN "torn" ELSE file[f]]
    /\ unsynced' = {} /\ damaged' = (damaged \/ "binary" \in lost)
    /\ setup' = "idle" /\ caller' = "none" /\ bridge' = FALSE
    /\ UNCHANGED <<dpkg, at, answer, dir, exec, enabled>>

(* Boot: an enabled unit starts unless ConditionPathExists says no.        *)
Boot ==
  /\ enabled /\ ~bridge /\ file["binary"] # "absent"
  /\ bridge' = TRUE
  /\ UNCHANGED <<dpkg, script, dest, enabled>>

Setup ==
  \/ Check \/ Fetch \/ FetchFails \/ Open \/ Fill \/ WriteFails
  \/ Chmod \/ ChmodFails \/ NextLibrary \/ Finish

Maintainer == Unpack \/ Configure \/ Configured \/ Rerun \/ RerunOver \/ Remove \/ Purge

Next == Setup \/ Maintainer \/ Writeback \/ Interrupted \/ PowerFails \/ Boot

Spec == Init /\ [][Next]_vars

-----------------------------------------------------------------------------
TypeOK ==
  /\ dpkg \in {"absent", "unpacked", "installed", "removed"}
  /\ setup \in {"idle", "check", "fetch", "open", "fill", "next"} /\ at \in Files
  /\ caller \in {"none", "postinst", "admin"}
  /\ answer \in {"none", "installed", "already", "failed"}
  /\ dir \in BOOLEAN /\ file \in [Files -> {"absent", "torn", "whole"}]
  /\ exec \in BOOLEAN /\ enabled \in BOOLEAN /\ bridge \in BOOLEAN
  /\ unsynced \subseteq Files /\ damaged \in BOOLEAN

(* "already installed" is never said over a binary that an interruption or *)
(* a full disk has left cut short, in this run or in an earlier one.  The  *)
(* one thing that can make it untrue is a power failure before the kernel  *)
(* wrote the binary back: chmod and the libraries do not wait for the      *)
(* disk, and no later run looks at more than the binary's mode.            *)
AlreadyHasBinary ==
  [][answer' = "already" /\ answer # "already"
       => exec /\ (file["binary"] = "whole" \/ damaged)]_vars

(* "installed to DEST" is said only when every file has been written in    *)
(* full; it does not say that the disk has them.                           *)
InstalledIsWhole ==
  [][answer' = "installed" /\ answer # "installed" /\ dir
       => exec /\ \A f \in Files : file[f] = "whole"]_vars

(* The bridge never runs without HP's binary, through removal, purge and   *)
(* reinstallation.                                                         *)
BridgeHasBinary == bridge => file["binary"] # "absent"

(* A purge is final: a script run by hand that it overtakes puts nothing   *)
(* back, because without DEST every write fails.  Only a script that has   *)
(* not come to its mkdir -p yet makes DEST anew.                           *)
PurgeIsFinal ==
  [][~dir /\ setup # "check" => ~dir' /\ file' = Gone]_vars

(* "HP driver already installed." (setup-hp-driver.sh:13): what a re-run   *)
(* does not repair needs no repair.                                        *)
AlreadyIsWhole ==
  [][answer' = "already" /\ answer # "already"
       => \A f \in Files : file[f] = "whole"]_vars
=============================================================================
