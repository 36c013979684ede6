--------------------------- MODULE PackageProofs ----------------------------
(* Theorems about the package: how far setup-hp-driver.sh has come says    *)
(* what lies under DEST, whatever failed, crashed or was purged meanwhile. *)
EXTENDS Package, TLAPS

(* No step of any script leaves the types of Package.                      *)
THEOREM Typing == Spec => []TypeOK
<1>1. Init => TypeOK
  BY DEF Init, TypeOK, Files, Gone
<1>2. TypeOK /\ [Next]_vars => TypeOK'
  <2> USE DEF TypeOK, Files, Gone, dest, script, service
  <2> SUFFICES ASSUME TypeOK, [Next]_vars PROVE TypeOK'
    OBVIOUS
  <2>1. CASE Setup
    <3>1. CASE Check
      BY <3>1 DEF Check
    <3>2. CASE Fetch
      BY <3>2 DEF Fetch
    <3>3. CASE FetchFails
      BY <3>3 DEF FetchFails
    <3>4. CASE Open
      BY <3>4 DEF Open
    <3>5. CASE Fill
      <4>1. setup' \in {"idle", "check", "fetch", "open", "fill", "next"}
            /\ UNCHANGED <<dpkg, at, caller, answer, dir, exec, service>>
        BY <3>5 DEF Fill
      <4>2. file' \in [Files -> {"absent", "torn", "whole"}] /\ unsynced' \subseteq Files
        BY <3>5 DEF Fill
      <4>3. damaged' \in BOOLEAN
        BY <3>5, Zenon DEF Fill
      <4> QED
        BY <4>1, <4>2, <4>3
    <3>6. CASE WriteFails
      BY <3>6 DEF WriteFails, Fails
    <3>7. CASE Chmod
      BY <3>7 DEF Chmod
    <3>8. CASE ChmodFails
      BY <3>8 DEF ChmodFails
    <3>9. CASE NextLibrary
      BY <3>9 DEF NextLibrary
    <3>10. CASE Finish
      BY <3>10 DEF Finish
    <3> QED
      BY <2>1, <3>1, <3>2, <3>3, <3>4, <3>5, <3>6, <3>7, <3>8, <3>9, <3>10 DEF Setup
  <2>2. CASE Maintainer
    <3>1. CASE Configured
      <4>1. dpkg' \in {"absent", "unpacked", "installed", "removed"}
            /\ caller' \in {"none", "postinst", "admin"}
            /\ UNCHANGED <<setup, at, answer, dest>>
        BY <3>1 DEF Configured
      <4>2. enabled' \in BOOLEAN /\ bridge' \in BOOLEAN
        BY <3>1, Zenon DEF Configured
      <4> QED
        BY <4>1, <4>2
    <3>2. CASE Unpack
      BY <3>2 DEF Unpack
    <3>3. CASE Configure
      BY <3>3 DEF Configure
    <3>4. CASE Rerun
      BY <3>4 DEF Rerun
    <3>5. CASE RerunOver
      BY <3>5 DEF RerunOver
    <3>6. CASE Remove
      BY <3>6 DEF Remove, Stops
    <3>7. CASE Purge
      BY <3>7 DEF Purge
    <3> QED
      BY <2>2, <3>1, <3>2, <3>3, <3>4, <3>5, <3>6, <3>7 DEF Maintainer
  <2>3. CASE Writeback
    BY <2>3 DEF Writeback
  <2>4. CASE Interrupted
    BY <2>4 DEF Interrupted
  <2>5. CASE PowerFails
    <3>1. file' \in [Files -> {"absent", "torn", "whole"}] /\ unsynced' = {}
      BY <2>5 DEF PowerFails
    <3>2. damaged' \in BOOLEAN
      BY <2>5, Zenon DEF PowerFails
    <3>3. /\ setup' = "idle" /\ caller' = "none" /\ bridge' = FALSE
          /\ UNCHANGED <<dpkg, at, answer, dir, exec, enabled>>
      BY <2>5 DEF PowerFails
    <3> QED
      BY <3>1, <3>2, <3>3
  <2>6. CASE Boot
    BY <2>6 DEF Boot
  <2>7. CASE UNCHANGED vars
    BY <2>7 DEF vars
  <2> QED
    BY <2>1, <2>2, <2>3, <2>4, <2>5, <2>6, <2>7 DEF Next
<1> QED
  BY <1>1, <1>2, PTL DEF Spec

-----------------------------------------------------------------------------
(* The service follows the package, and the binary the service.            *)
ServiceInv ==
  /\ ~dir => file = Gone /\ exec = FALSE /\ unsynced = {}
  /\ \A f \in unsynced : file[f] = "whole"
  /\ exec => file["binary"] # "absent"
  /\ dpkg # "installed" => ~enabled /\ ~bridge
  /\ BridgeHasBinary

(* The script has opened a file only while something under DEST was        *)
(* missing, and comes to a library only after a whole executable binary.   *)
ProgressInv ==
  /\ exec /\ file["ssl"] # "absent" => file["binary"] = "whole" \/ damaged
  /\ setup = "fetch" => ~Already
  /\ setup \in {"open", "fill", "next"} /\ at = "binary" => ~Already
  /\ setup \in {"fill", "next"} /\ dir => file[at] # "absent"
  /\ setup = "next" /\ dir => file[at] = "whole"
  /\ setup \in {"open", "fill", "next"} /\ at # "binary" /\ dir
       => exec /\ file["binary"] = "whole"
  /\ setup \in {"open", "fill", "next"} /\ at = "crypto" /\ dir => file["ssl"] = "whole"

PackageInv == TypeOK /\ ServiceInv /\ ProgressInv

(* The strengthening holds for every behaviour of the scripts.             *)
LEMMA Invariance == Spec => []PackageInv
<1>1. Init => PackageInv
  BY DEF Init, PackageInv, TypeOK, ServiceInv, ProgressInv, BridgeHasBinary, Already, Files, Gone
<1>2. PackageInv /\ TypeOK' /\ [Next]_vars => ServiceInv' /\ ProgressInv'
  <2> USE DEF PackageInv, TypeOK, ServiceInv, ProgressInv, BridgeHasBinary, Already, Files, Gone,
              dest, script, service
  <2> SUFFICES ASSUME PackageInv, TypeOK', [Next]_vars PROVE ServiceInv' /\ ProgressInv'
    OBVIOUS
  <2>1. CASE Setup
    <3>1. CASE Check
      BY <3>1 DEF Check
    <3>2. CASE Fetch
      BY <3>2 DEF Fetch
    <3>3. CASE FetchFails \/ WriteFails \/ ChmodFails \/ Finish
      BY <3>3 DEF FetchFails, WriteFails, Fails, ChmodFails, Finish
    <3>4. CASE Open
      BY <3>4 DEF Open, DirNeeded
    <3>5. CASE Fill
      BY <3>5 DEF Fill
    <3>6. CASE Chmod
      BY <3>6 DEF Chmod
    <3>7. CASE NextLibrary
      BY <3>7 DEF NextLibrary
    <3> QED
      BY <2>1, <3>1, <3>2, <3>3, <3>4, <3>5, <3>6, <3>7 DEF Setup
  <2>2. CASE Unpack \/ Configure \/ Rerun \/ RerunOver
    BY <2>2 DEF Unpack, Configure, Rerun, RerunOver
  <2>3. CASE Configured
    BY <2>3 DEF Configured
  <2>4. CASE Remove \/ Purge
    BY <2>4 DEF Remove, Purge, Stops
  <2>5. CASE Writeback \/ Interrupted \/ Boot
    BY <2>5 DEF Writeback, Interrupted, Boot
  <2>6. CASE PowerFails
    BY <2>6 DEF PowerFails
  <2>7. CASE UNCHANGED vars
    BY <2>7 DEF vars
  <2> QED
    BY <2>1, <2>2, <2>3, <2>4, <2>5, <2>6, <2>7 DEF Next, Maintainer
<1> QED
  BY <1>1, <1>2, Typing, PTL DEF Spec, PackageInv

(* The bridge never runs without HP's binary.                              *)
THEOREM Service == Spec => []BridgeHasBinary
BY Invariance, PTL DEF PackageInv, ServiceInv

(* "HP driver already installed" is said of a binary that is there,         *)
(* executable, and whole unless a power failure took what the script had   *)
(* written and not synced; whatever earlier runs were broken off in.       *)
THEOREM Presence == Spec => AlreadyHasBinary
<1>1. PackageInv /\ [Next]_vars
        => [answer' = "already" /\ answer # "already" => exec /\ (file["binary"] = "whole" \/ damaged)]_vars
  BY DEF Next, PackageInv, ProgressInv, Already, Setup, Check, Fetch, FetchFails, Open, Fill, WriteFails,
         Fails, Chmod, ChmodFails, NextLibrary, Finish, Maintainer, Unpack, Configure, Configured,
         Rerun, RerunOver, Remove, Purge, Stops, Writeback, Interrupted,
         PowerFails, Boot, dest, script, service
<1> QED
  BY <1>1, Invariance, PTL DEF Spec, AlreadyHasBinary

(* "Installed" is said of files that are all whole, and of an executable    *)
(* binary, unless DEST was purged meanwhile.                               *)
THEOREM Honesty == Spec => InstalledIsWhole
<1>1. PackageInv /\ [Next]_vars
        => [answer' = "installed" /\ answer # "installed" /\ dir
              => exec /\ \A f \in Files : file[f] = "whole"]_vars
  BY DEF Next, PackageInv, ProgressInv, Files, Setup, Check, Fetch, FetchFails, Open, Fill, WriteFails,
         Fails, Chmod, ChmodFails, NextLibrary, Finish, Maintainer, Unpack, Configure, Configured,
         Rerun, RerunOver, Remove, Purge, Stops, Writeback, Interrupted,
         PowerFails, Boot, dest, script, service
<1> QED
  BY <1>1, Invariance, PTL DEF Spec, InstalledIsWhole

(* A purge is final for every script that has come past its mkdir -p.      *)
THEOREM Finality == Spec => PurgeIsFinal
<1>1. PackageInv /\ [Next]_vars => [~dir /\ setup # "check" => ~dir' /\ file' = Gone]_vars
  BY DEF Next, PackageInv, TypeOK, ServiceInv, Gone, Files, Setup, Check, Fetch, FetchFails, Open,
         DirNeeded, Fill, WriteFails, Fails, Chmod, ChmodFails, NextLibrary, Finish, Maintainer,
         Unpack, Configure, Configured, Rerun, RerunOver, Remove, Purge, Stops, Writeback,
         Interrupted, PowerFails, Boot, dest, script, service
<1> QED
  BY <1>1, Invariance, PTL DEF Spec, PurgeIsFinal
=============================================================================
