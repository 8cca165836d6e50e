------------------------------- MODULE Updater -------------------------------
(***************************************************************************)
(* The self-update of the panel (internal/updater/manager.go and           *)
(* internal/handler/panel_update.go): Prepare downloads, verifies and      *)
(* extracts the latest release, RestartWithHelper starts a shell script    *)
(* that waits for the panel to exit, keeps a backup, moves the staged      *)
(* binary into place and starts it.                                        *)
(*                                                                         *)
(* The archive is known by its checksum, so a download and its             *)
(* verification are one step that may fail; the extracted binary has no    *)
(* checksum and is written in place.  The panel runs as a process of its   *)
(* own or as the unit that internal/handler/setting.go installs, which     *)
(* systemd restarts and whose processes it kills with the panel.           *)
(***************************************************************************)
EXTENDS Integers, FiniteSets

CONSTANTS
    Request,    \* goroutines that serve Prepare
    Helper,     \* helper scripts
    MaxVersion, \* bound: releases
    MaxCrashes  \* bound: deaths of the panel

UpdaterAssumption == MaxVersion \in Nat \ {0} /\ MaxCrashes \in Nat

VARIABLES
    latest,     \* the version of the latest release
    staged,     \* staged[v]: the file data/updates/v/.../pdai
    writer,     \* writer[v]: the request that truncated it last
    prep,       \* prep[p]: where request p is and the version it prepares
    prepared,   \* Manager.prepared; 0 is nil
    exe,        \* the executable: version and whether all of it is there
    backup,     \* the version in the .bak file, 0 for none
    panel,      \* the version that runs, 0 while none does
    asUnit,     \* the panel runs as its systemd unit
    helper,     \* helper[h]: where script h is and the version it installs
    exiting,    \* the handler is about to shut the server down
    crashes,    \* counter of the bound
    overlapped  \* history: two requests prepared at once or two restarted

vars == <<latest, staged, writer, prep, prepared, exe, backup, panel, asUnit, helper, exiting,
          crashes, overlapped>>
files == <<staged, writer>>
installed == <<exe, backup>>

Version == 1..MaxVersion
Nobody == "nobody"
NoPrep == [at |-> "idle", version |-> 0]
NoHelper == [at |-> "none", version |-> 0]

Init ==
    /\ latest = 1 /\ staged = [v \in Version |-> "absent"]
    /\ writer = [v \in Version |-> Nobody]
    /\ prep = [p \in Request |-> NoPrep] /\ prepared = 0
    /\ exe = [version |-> 1, whole |-> TRUE] /\ backup = 0
    /\ panel = 1 /\ asUnit \in BOOLEAN
    /\ helper = [h \in Helper |-> NoHelper] /\ exiting = FALSE
    /\ crashes = 0 /\ overlapped = FALSE

-----------------------------------------------------------------------------
Release ==
    /\ latest < MaxVersion /\ latest' = latest + 1
    /\ UNCHANGED <<files, prep, prepared, installed, panel, asUnit, helper, exiting, crashes, overlapped>>

(* Prepare *)
EndPrep(p) == prep' = [prep EXCEPT ![p] = NoPrep]
other == <<latest, installed, panel, asUnit, helper, exiting, crashes>>

Begin(p) ==
    /\ prep' = [prep EXCEPT ![p] = [at |-> "download", version |-> latest]]
    /\ overlapped' = (overlapped \/ \E q \in Request : prep[q].at # "idle")
    /\ UNCHANGED <<other, files, prepared>>

(* A bug: what is prepared already is prepared again. *)
FetchAgain(p) == panel # 0 /\ prep[p].at = "idle" /\ latest > panel /\ Begin(p)

(* Nothing is to do unless the release is newer than the panel, and not if *)
(* that version is prepared and its binary exists.                         *)
Fetch(p) ==
    /\ panel # 0 /\ prep[p].at = "idle" /\ latest > panel
    /\ prepared # latest \/ staged[latest] = "absent"
    /\ Begin(p)

DownloadFails(p) ==
    /\ prep[p].at = "download" /\ EndPrep(p)
    /\ UNCHANGED <<other, files, prepared, overlapped>>

(* The archive is downloaded and verified, and the binary file truncated. *)
Download(p) ==
    /\ prep[p].at = "download"
    /\ staged' = [staged EXCEPT ![prep[p].version] = "partial"]
    /\ writer' = [writer EXCEPT ![prep[p].version] = p]
    /\ prep' = [prep EXCEPT ![p].at = "extract"]
    /\ UNCHANGED <<other, prepared, overlapped>>

(* extractBinaryFromTarGz has written and closed the file. *)
Extracted(p) ==
    /\ prep[p].at = "extract"
    /\ staged' = IF writer[prep[p].version] = p /\ staged[prep[p].version] = "partial"
                 THEN [staged EXCEPT ![prep[p].version] = "whole"] ELSE staged
    /\ prep' = [prep EXCEPT ![p].at = "stage"]
    /\ UNCHANGED <<other, writer, prepared, overlapped>>

ExtractFails(p) ==
    /\ prep[p].at = "extract" /\ EndPrep(p)
    /\ staged' = [staged EXCEPT ![prep[p].version] = "absent"]
    /\ UNCHANGED <<other, writer, prepared, overlapped>>

(* chmod, which fails when the file is gone, and setPrepared. *)
Stage(p) ==
    /\ prep[p].at = "stage" /\ EndPrep(p)
    /\ prepared' = IF staged[prep[p].version] = "absent" THEN prepared ELSE prep[p].version
    /\ UNCHANGED <<other, files, overlapped>>

Prepare(p) ==
    \/ Fetch(p) \/ DownloadFails(p) \/ Download(p) \/ Extracted(p) \/ ExtractFails(p) \/ Stage(p)

-----------------------------------------------------------------------------
Busy(h) == helper[h].at \in {"wait", "swap", "launch"}

(* RestartWithHelper; the handler shuts the server down 800 ms later. *)
Restart(h) ==
    /\ panel # 0 /\ prepared # 0 /\ staged[prepared] # "absent"
    /\ helper[h].at = "none"
    /\ helper' = [helper EXCEPT ![h] = [at |-> "wait", version |-> prepared]]
    /\ exiting' = TRUE
    /\ overlapped' = (overlapped \/ \E k \in Helper : Busy(k))
    /\ UNCHANGED <<latest, files, prep, prepared, installed, panel, asUnit, crashes>>

Killed == [h \in Helper |-> IF Busy(h) THEN [helper[h] EXCEPT !.at = "killed"] ELSE helper[h]]

(* The process ends with all its goroutines; systemd kills what is left of *)
(* a unit.                                                                 *)
PanelEnds ==
    /\ panel # 0 /\ panel' = 0
    /\ prep' = [p \in Request |-> NoPrep] /\ prepared' = 0 /\ exiting' = FALSE
    /\ helper' = IF asUnit THEN Killed ELSE helper
    /\ UNCHANGED <<latest, files, installed, asUnit, overlapped>>

(* ListenAndServe returns, or the helper's own kill arrives. *)
PanelExits == exiting /\ PanelEnds /\ UNCHANGED crashes

PanelCrashes == crashes < MaxCrashes /\ crashes' = crashes + 1 /\ PanelEnds

(* Restart=always; by hand without the unit, when no helper will do it. *)
PanelStarts ==
    /\ panel = 0 /\ exe.whole
    /\ asUnit \/ \A h \in Helper : ~Busy(h)
    /\ panel' = exe.version
    /\ UNCHANGED <<latest, files, prep, prepared, installed, asUnit, helper, exiting, crashes, overlapped>>

-----------------------------------------------------------------------------
(* buildHelperScript *)

Backup(h) ==
    /\ helper[h].at = "wait" /\ panel = 0
    /\ backup' = exe.version
    /\ helper' = [helper EXCEPT ![h].at = "swap"]
    /\ UNCHANGED <<latest, files, prep, prepared, exe, panel, asUnit, exiting, crashes, overlapped>>

(* set -e: the script ends when the staged binary is gone. *)
Swap(h) ==
    /\ helper[h].at = "swap"
    /\ LET v == helper[h].version IN
       IF staged[v] = "absent"
       THEN helper' = [helper EXCEPT ![h].at = "failed"] /\ UNCHANGED <<staged, exe>>
       ELSE /\ exe' = [version |-> v, whole |-> staged[v] = "whole"]
            /\ staged' = [staged EXCEPT ![v] = "absent"]
            /\ helper' = [helper EXCEPT ![h].at = "launch"]
    /\ UNCHANGED <<latest, writer, prep, prepared, backup, panel, asUnit, exiting, crashes, overlapped>>

(* A binary that is not whole does not run. *)
Launch(h) ==
    /\ helper[h].at = "launch"
    /\ helper' = [helper EXCEPT ![h].at = "done"]
    /\ panel' = IF panel = 0 /\ exe.whole THEN exe.version ELSE panel
    /\ UNCHANGED <<latest, files, prep, prepared, installed, asUnit, exiting, crashes, overlapped>>

Next ==
    \/ Release \/ PanelExits \/ PanelCrashes \/ PanelStarts
    \/ \E p \in Request : Prepare(p)
    \/ \E h \in Helper : Restart(h) \/ Backup(h) \/ Swap(h) \/ Launch(h)

Spec == Init /\ [][Next]_vars

-----------------------------------------------------------------------------
TypeOK ==
    /\ latest \in Version /\ prepared \in 0..MaxVersion /\ panel \in 0..MaxVersion
    /\ staged \in [Version -> {"absent", "partial", "whole"}]
    /\ writer \in [Version -> Request \cup {Nobody}]
    /\ exe \in [version : Version, whole : BOOLEAN] /\ backup \in 0..MaxVersion
    /\ \A p \in Request : prep[p].at \in {"idle", "download", "extract", "stage"}
    /\ \A h \in Helper : helper[h].at \in {"none", "wait", "swap", "launch", "done", "failed", "killed"}

(* The executable is never replaced by one of which a part is missing,     *)
(* unless two requests prepared a release, or restarted, at once.          *)
InstalledIsWhole == ~overlapped => exe.whole

(* "A temporary helper that waits for the current process to exit, swaps   *)
(* in the staged binary and starts the new one": it is not killed before.  *)
HelperSwaps == \A h \in Helper : helper[h].at # "killed"
=============================================================================
